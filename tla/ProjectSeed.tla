---------------------------- MODULE ProjectSeed ----------------------------
(***************************************************************************)
(* modules/projects/seed.py and scripts/migrate_projects_v4.py: the        *)
(* definitions of the stage machine are seeded, reset or adopted by a run  *)
(* that may crash, be run again, overlap another, and find people editing  *)
(* definitions and projects in flight.                                     *)
(*                                                                         *)
(* The current machine is version 4.  Versions 1 and 2 had other stages;   *)
(* in version 3 a definition belonged to a workflow type, since version 4  *)
(* it belongs to a version of a configuration.                             *)
(***************************************************************************)
EXTENDS Integers, Sequences, SequencesExt, FiniteSets

CONSTANTS
  Seeder,      \* runs of the seed that may be under way at once
  StageKey,    \* stages of the machine
  OldKey,      \* stages of versions 1 and 2
  GateKey,     \* gate rules
  RoleKey,     \* approver roles
  MaxSeeds,    \* bound on the runs
  MaxPatches,  \* bound on the edits
  MaxCrashes   \* bound on the crashes

ASSUME SeedBounds == {MaxSeeds, MaxPatches, MaxCrashes} \subseteq Nat
ASSUME SeedKeys   == /\ IsFiniteSet(StageKey) /\ IsFiniteSet(OldKey) /\ IsFiniteSet(GateKey)
                     /\ StageKey # {} /\ StageKey \cap OldKey = {}

VARIABLES
  from,        \* history: the version the tenant is on at first, 0 before any
  stages,      \* stage_definitions: [key, type, owner, edited, n]
  gates,       \* gate_rules: [key, owner, edited, n]
  roles,       \* approver_role_map: [key, edited]
  configs,     \* the system configurations there are
  indexed,     \* the unique indexes on the definitions of a version stand
  meta,        \* pm_meta, the machine_version; 0 when there is none
  pinned,      \* the workflow types whose projects are pinned
  run,         \* per run: its next call, the rows it still has to insert
  edited,      \* history: what people edited and no reset may discard
  torn,        \* history: a run discarded definitions while another was at work
  seeds, crashes, patches   \* history: how many runs, crashes and edits there were

seedVars == <<from, stages, gates, roles, configs, indexed, meta, pinned, run, edited, torn,
              seeds, crashes, patches>>
definitions == <<stages, gates, roles>>
counts      == <<seeds, crashes, patches>>

Target == 4            \* machine_version of stage_definitions.json
_SKELETON_VERSION == 3
Types  == {"sequential", "concurrent"}
Owner  == [sequential |-> "standard", concurrent |-> "concurrent"]
Owners == {"standard", "concurrent"}

Stage(k, t, o) == [key |-> k, type |-> t, owner |-> o, edited |-> FALSE, n |-> 1]
Gate(k, o)     == [key |-> k, owner |-> o, edited |-> FALSE, n |-> 1]
Role(k)        == [key |-> k, edited |-> FALSE]

(* What seed inserts under a configuration: the stages of Standard, those   *)
(* of Concurrent (concurrent_variant keeps the keys), the gates of each.    *)
StageRows == {[kind |-> "stage", key |-> k, type |-> t] : k \in StageKey, t \in Types}
GateRows  == {[kind |-> "gate", key |-> k, type |-> t] : k \in GateKey, t \in Types}
Rows      == SetToSeq(StageRows) \o SetToSeq(GateRows)

NotRunning == [pc |-> "idle", rows |-> <<>>, script |-> FALSE]
Seeding == {s \in Seeder : run[s].pc # "idle"}
-----------------------------------------------------------------------------
(* A tenant of each version; before version 2 there was no pm_meta.         *)
SeedInit ==
  /\ from \in 0 .. Target
  /\ stages = CASE from = 0 -> {}
                [] from \in {1, 2} -> {Stage(k, "none", "none") : k \in OldKey}
                [] from = 3 -> {Stage(k, t, "none") : k \in StageKey, t \in Types}
                [] OTHER -> {Stage(k, t, Owner[t]) : k \in StageKey, t \in Types}
  /\ gates = CASE from = 0 -> {}
               [] from \in 1 .. 3 -> {Gate(k, "none") : k \in GateKey}
               [] OTHER -> {Gate(k, o) : k \in GateKey, o \in Owners}
  /\ roles = IF from = 0 THEN {} ELSE {Role(k) : k \in RoleKey}
  /\ configs = IF from = Target THEN Owners ELSE {}
  /\ indexed = (from = Target)
  /\ meta = (IF from = 1 THEN 0 ELSE from)
  /\ pinned = {}
  /\ run = [s \in Seeder |-> NotRunning]
  /\ edited = {} /\ torn = FALSE /\ seeds = 0 /\ crashes = 0 /\ patches = 0

Proceed(s, r) == run' = [run EXCEPT ![s] = r]
GoOn(s, pc)    == Proceed(s, [run[s] EXCEPT !.pc = pc])

(* _applied_version *)
Applied == IF meta # 0 THEN meta ELSE IF stages # {} THEN 1 ELSE 0

(* seed, of a provisioning job, of an update that enables the module, or of *)
(* the migration script, which goes on to pin the projects.  The superseded *)
(* unique indexes are dropped first.                                        *)
BeginSeed(s, script) ==
  /\ run[s].pc = "idle" /\ seeds < MaxSeeds
  /\ seeds' = seeds + 1
  /\ Proceed(s, [pc |-> "decide", rows |-> <<>>, script |-> script])
  /\ UNCHANGED <<from, definitions, configs, indexed, meta, pinned, edited, torn, crashes, patches>>

(* Mutant of Resets: every bump of the version discards what there is.      *)
ResetsAlways(version) == 1 <= version /\ version < Target
Resets(version) == 1 <= version /\ version < _SKELETON_VERSION

DecideReset(s) ==
  /\ run[s].pc = "decide"
  /\ GoOn(s, IF Resets(Applied) THEN "wipe_stages" ELSE "roles")
  /\ UNCHANGED <<from, definitions, configs, indexed, meta, pinned, edited, torn, counts>>

(* _reset_definitions, collection by collection. *)
Wipe(s) ==
  /\ \/ run[s].pc = "wipe_stages" /\ stages' = {} /\ GoOn(s, "wipe_gates") /\ UNCHANGED <<gates, roles>>
     \/ run[s].pc = "wipe_gates" /\ gates' = {} /\ GoOn(s, "wipe_roles") /\ UNCHANGED <<stages, roles>>
     \/ run[s].pc = "wipe_roles" /\ roles' = {} /\ GoOn(s, "roles") /\ UNCHANGED <<stages, gates>>
  /\ torn' = (torn \/ meta = Target \/ Seeding # {s})
  /\ UNCHANGED <<from, configs, indexed, meta, pinned, edited, counts>>

(* _upsert_by: what is there stays as it is. *)
UpsertRoles(s) ==
  /\ run[s].pc = "roles"
  /\ roles' = roles \cup {Role(k) : k \in RoleKey \ {d.key : d \in roles}}
  /\ GoOn(s, "configs")
  /\ UNCHANGED <<from, stages, gates, configs, indexed, meta, pinned, edited, torn, counts>>

EnsureSystemConfigs(s) ==
  /\ run[s].pc = "configs"
  /\ IF "standard" \notin configs THEN configs' = configs \cup {"standard"} /\ Proceed(s, run[s])
     ELSE configs' = Owners /\ GoOn(s, "type")
  /\ UNCHANGED <<from, definitions, indexed, meta, pinned, edited, torn, counts>>

(* _adopt_legacy_definitions, one update_many after the other. *)
AdoptStages(t) == {IF d.type = t /\ d.owner = "none" THEN [d EXCEPT !.owner = Owner[t]] ELSE d : d \in stages}

AdoptLegacy(s) ==
  /\ \/ /\ run[s].pc = "type" /\ GoOn(s, "adopt_sequential")
        /\ stages' = {IF d.type = "none" THEN [d EXCEPT !.type = "sequential"] ELSE d : d \in stages}
        /\ UNCHANGED gates
     \/ /\ run[s].pc = "adopt_sequential" /\ GoOn(s, "adopt_concurrent")
        /\ stages' = AdoptStages("sequential") /\ UNCHANGED gates
     \/ /\ run[s].pc = "adopt_concurrent" /\ GoOn(s, "adopt_gates")
        /\ stages' = AdoptStages("concurrent") /\ UNCHANGED gates
     \/ /\ run[s].pc = "adopt_gates" /\ Proceed(s, [pc |-> "upsert", rows |-> Rows, script |-> run[s].script])
        /\ gates' = {IF d.owner = "none" THEN [d EXCEPT !.owner = "standard"] ELSE d : d \in gates}
        /\ UNCHANGED stages
  /\ UNCHANGED <<from, roles, configs, indexed, meta, pinned, edited, torn, counts>>

(* _upsert_scoped: a row is looked for, and inserted when it is not there.  *)
(* Two runs may both miss it as long as no unique index stands.             *)
InStages(row) == {d \in stages : d.key = row.key /\ d.owner = Owner[row.type]}
InGates(row)  == {d \in gates : d.key = row.key /\ d.owner = Owner[row.type]}
Held(row)     == IF row.kind = "stage" THEN InStages(row) ELSE InGates(row)
NextRow(s)    ==
  Proceed(s, [pc |-> IF Len(run[s].rows) = 1 THEN "index" ELSE "upsert",
              rows |-> Tail(run[s].rows), script |-> run[s].script])

FindRow(s) ==
  /\ run[s].pc = "upsert"
  /\ IF Held(Head(run[s].rows)) # {} THEN NextRow(s) ELSE GoOn(s, "insert")
  /\ UNCHANGED <<from, definitions, configs, indexed, meta, pinned, edited, torn, counts>>

InsertRow(s) ==
  LET row == Head(run[s].rows)
      n   == 1 + Cardinality(Held(row))
  IN  /\ run[s].pc = "insert"
      /\ stages' = IF row.kind = "stage" /\ ~ (indexed /\ n > 1)
                   THEN stages \cup {[Stage(row.key, row.type, Owner[row.type]) EXCEPT !.n = n]} ELSE stages
      /\ gates' = IF row.kind = "gate" /\ ~ (indexed /\ n > 1)
                  THEN gates \cup {[Gate(row.key, Owner[row.type]) EXCEPT !.n = n]} ELSE gates
      /\ NextRow(s)
      /\ UNCHANGED <<from, roles, configs, indexed, meta, pinned, edited, torn, counts>>

(* _build_definition_indexes raises on a row that is there twice.           *)
BuildIndexes(s) ==
  /\ run[s].pc = "index"
  /\ IF \E d \in stages \cup gates : d.n > 1
     THEN Proceed(s, NotRunning) /\ UNCHANGED indexed
     ELSE GoOn(s, "stamp") /\ indexed' = TRUE
  /\ UNCHANGED <<from, definitions, configs, meta, pinned, edited, torn, counts>>

Stamp(s) ==
  /\ run[s].pc = "stamp"
  /\ meta' = Target
  /\ IF run[s].script THEN GoOn(s, "pin") ELSE Proceed(s, NotRunning)
  /\ UNCHANGED <<from, definitions, configs, indexed, pinned, edited, torn, counts>>

(* _pin_projects, one workflow type after the other. *)
PinProjects(s) ==
  /\ run[s].pc = "pin"
  /\ IF "sequential" \notin pinned THEN pinned' = pinned \cup {"sequential"} /\ Proceed(s, run[s])
     ELSE pinned' = Types /\ Proceed(s, NotRunning)
  /\ UNCHANGED <<from, definitions, configs, indexed, meta, edited, torn, counts>>

CrashSeed(s) ==
  /\ s \in Seeding /\ crashes < MaxCrashes /\ crashes' = crashes + 1
  /\ Proceed(s, NotRunning)
  /\ UNCHANGED <<from, definitions, configs, indexed, meta, pinned, edited, torn, seeds, patches>>
-----------------------------------------------------------------------------
(* scope_for_project, default_scope: what a project in flight, and the      *)
(* configuration pages, read.                                               *)
Reads(t) ==
  IF t \in pinned \/ Owner[t] \in configs THEN {d \in stages : d.owner = Owner[t]}
  ELSE {d \in stages : d.type = t \/ (t = "sequential" /\ d.type = "none")}

ReadsGates == IF "standard" \in configs THEN {d \in gates : d.owner = "standard"} ELSE gates

(* An edit nobody may discard: the tenant is past the skeleton, or the      *)
(* current machine is seeded and nobody is at it.                           *)
Lasting == from >= _SKELETON_VERSION \/ (meta = Target /\ Seeding = {})
Edit(what) ==
  /\ patches < MaxPatches /\ patches' = patches + 1
  /\ edited' = IF Lasting THEN edited \cup {what} ELSE edited
  /\ UNCHANGED <<from, configs, indexed, meta, pinned, run, torn, seeds, crashes>>

(* patch_stage_config, patch_gate_config: one document, by the scope of the *)
(* default configuration; patch_approver_map.                               *)
PatchStageConfig(d) ==
  /\ d \in Reads("sequential")
  /\ stages' = (stages \ {d}) \cup {[d EXCEPT !.edited = TRUE]}
  /\ Edit(<<"stage", d.key>>) /\ UNCHANGED <<gates, roles>>

PatchGateConfig(d) ==
  /\ d \in ReadsGates
  /\ gates' = (gates \ {d}) \cup {[d EXCEPT !.edited = TRUE]}
  /\ Edit(<<"gate", d.key>>) /\ UNCHANGED <<stages, roles>>

PatchApproverRole(d) ==
  /\ d \in roles
  /\ roles' = (roles \ {d}) \cup {[d EXCEPT !.edited = TRUE]}
  /\ Edit(<<"role", d.key>>) /\ UNCHANGED <<stages, gates>>

SeedStep(s) ==
  \/ DecideReset(s) \/ Wipe(s) \/ UpsertRoles(s) \/ EnsureSystemConfigs(s)
  \/ AdoptLegacy(s) \/ FindRow(s) \/ InsertRow(s) \/ BuildIndexes(s) \/ Stamp(s) \/ PinProjects(s)

SeedNext ==
  \/ \E s \in Seeder : SeedStep(s) \/ CrashSeed(s) \/ \E script \in BOOLEAN : BeginSeed(s, script)
  \/ \E d \in stages : PatchStageConfig(d)
  \/ \E d \in gates : PatchGateConfig(d)
  \/ \E d \in roles : PatchApproverRole(d)

SeedSpec == SeedInit /\ [][SeedNext]_seedVars
-----------------------------------------------------------------------------
(* The definitions of both configurations, each once, and nothing else.     *)
WholeMachine ==
  /\ \A t \in Types : \A k \in StageKey :
       Cardinality({d \in stages : d.key = k /\ d.owner = Owner[t] /\ d.type = t}) = 1
  /\ \A o \in Owners : \A k \in GateKey : Cardinality({d \in gates : d.key = k /\ d.owner = o}) = 1
  /\ \A d \in stages : d.key \in StageKey /\ d.owner \in Owners
  /\ {d.key : d \in roles} = RoleKey /\ configs = Owners

(* "MUST be idempotent and safe to re-run ... never clobbers a tenant's     *)
(* later customizations", from every version and however runs crash, are    *)
(* repeated and overlap: a tenant that carries the current version has the  *)
(* whole machine (unless a reset ran against another run); what people      *)
(* edited is still there, edited; and a project in flight never reads the   *)
(* stages of the other workflow, nor one twice.                             *)
DefinitionsKept ==
  /\ meta = Target /\ ~ torn => WholeMachine
  /\ ~ torn => \A e \in edited :
       \/ e[1] = "stage" /\ \E d \in stages : d.key = e[2] /\ d.edited /\ d.type = "sequential"
       \/ e[1] = "gate" /\ \E d \in gates : d.key = e[2] /\ d.edited /\ d.owner \in {"none", "standard"}
       \/ e[1] = "role" /\ [key |-> e[2], edited |-> TRUE] \in roles
  /\ from >= _SKELETON_VERSION =>
       \A t \in Types : \A d, other \in Reads(t) : d.type = t /\ (d.key = other.key => d = other)
=============================================================================
