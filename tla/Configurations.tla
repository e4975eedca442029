--------------------------- MODULE Configurations ---------------------------
(***************************************************************************)
(* modules/projects/configurations.py: the workspace's project             *)
(* configurations, the immutable versions they publish, and the version    *)
(* each new project pins.                                                  *)
(*                                                                         *)
(* The documents of a version are written in three parts: the first stage  *)
(* (the unique index lets one writer past it), the other stages, the gates.*)
(***************************************************************************)
EXTENDS Integers, FiniteSets

CONSTANTS
  Req,         \* requests that may be under way at once
  Config,      \* configurations there may be
  Standard,    \* the seeded, non-deletable one, default at first
  MaxVersion,  \* bound on the versions of a configuration
  MaxPins,     \* bound on the versions that projects pin
  MaxFaults,   \* bound on the crashes
  MaxOverlaps  \* bound on the requests that come in while another is under way

ASSUME ConfigAssumption == Standard \in Config /\ "none" \notin Config
ASSUME BoundsAssumption == MaxVersion \in Nat \ {0} /\ {MaxPins, MaxFaults, MaxOverlaps} \subseteq Nat

VARIABLES
  state,             \* of each configuration: "absent", "live", "deleted"
  default, active,   \* those with is_default, with is_active
  current,           \* current_version of each
  docs,              \* of each version, the parts that are written
  pins,              \* the versions that live projects run
  req,               \* per request: what it does and what it has read
  partial,           \* history: a configuration whose creation has not finished
                     \* (or was read before it had)
  mixed,             \* history: a version has parts of two writers
  blocked,           \* history: a publish was refused that no other overlapped
  contended,         \* history: two changes of flags or deletions overlapped, or one crashed
  faults, overlaps   \* history: how many crashes and overlaps happened

configVars  == <<state, default, active, current>>
historyVars == <<partial, mixed, blocked, contended>>
vars == <<configVars, docs, pins, req, historyVars, faults, overlaps>>

Versions == 1 .. MaxVersion
Parts    == {"first", "rest", "gates"}
Flags    == {"default", "off", "on", "delete"}   \* patch_configuration, delete_configuration

Live       == {c \in Config : state[c] = "live"}
Whole(c, v) == docs[c][v] = Parts

Idle == [op |-> "idle", at |-> "none", version |-> 0, left |-> {}, mine |-> FALSE, raced |-> FALSE]
UnderWay   == {r \in Req : req[r].op # "idle"}
Does(r, o) == req[r].op = o
Become(r, q) == req' = [req EXCEPT ![r] = q] /\ UNCHANGED overlaps
Done(r)    == Become(r, Idle)

(* A request begins.  Publishes of one configuration that overlap, and      *)
(* changes of flags that do, remember it.                                   *)
Publishing(c) == {r \in Req : Does(r, "publish") /\ req[r].at = c}
Managing      == {r \in Req : req[r].op \in Flags \cup {"promote"}}

Begin(r, q) ==
  LET met == IF q.op = "publish" THEN Publishing(q.at) ELSE {}
  IN  /\ Does(r, "idle")
      /\ UnderWay # {} => overlaps < MaxOverlaps
      /\ overlaps' = IF UnderWay = {} THEN overlaps ELSE overlaps + 1
      /\ req' = [x \in Req |-> IF x = r THEN [q EXCEPT !.raced = (met # {})]
                               ELSE IF x \in met THEN [req[x] EXCEPT !.raced = TRUE] ELSE req[x]]
-----------------------------------------------------------------------------
Init ==
  /\ state = [c \in Config |-> IF c = Standard THEN "live" ELSE "absent"]
  /\ default = {Standard} /\ active = {Standard}
  /\ current = [c \in Config |-> 1]
  /\ docs = [c \in Config |-> [v \in Versions |->
               IF c = Standard /\ v = 1 THEN Parts ELSE {}]]
  /\ pins = {}
  /\ req = [r \in Req |-> Idle]
  /\ partial = {} /\ mixed = FALSE /\ blocked = FALSE /\ contended = FALSE
  /\ faults = 0 /\ overlaps = 0

(* scope_of, and the versions highest_config_version finds stages of.       *)
Scope(c) == docs[c][current[c]]
Taken(c) == {v \in Versions : "first" \in docs[c][v]}

(* create_configuration: the clone is live, at version 1, before any of its *)
(* documents is written.                                                    *)
CreateConfiguration(r, c, base) ==
  /\ state[c] = "absent" /\ base \in Live
  /\ Begin(r, [Idle EXCEPT !.op = "create", !.at = c, !.version = 1,
                           !.left = Scope(base)])
  /\ state' = [state EXCEPT ![c] = "live"]
  /\ active' = active \cup {c}
  /\ partial' = partial \cup {c}
  /\ UNCHANGED <<default, current, docs, pins, mixed, blocked, contended, faults>>

(* publish_version reads what it starts from and numbers itself, one above  *)
(* the current version and the highest that has stages.                     *)
IsNext(c, v) ==
  LET used == {current[c]} \cup Taken(c)
  IN  v - 1 \in used /\ \A w \in used : w < v

PublishVersion(r, c) ==
  /\ c \in Live /\ "first" \in Scope(c)
  /\ \E v \in Versions :
       /\ IsNext(c, v)
       /\ Begin(r, [Idle EXCEPT !.op = "publish", !.at = c, !.version = v,
                                !.left = Scope(c) \cup {"gates"}])
  /\ UNCHANGED <<configVars, docs, pins, historyVars, faults>>

(* _write_version: stages, then gates, under the unique indexes.            *)
Following(left) == IF "first" \in left THEN "first" ELSE IF "rest" \in left THEN "rest" ELSE "gates"

(* Mutant of Free: there is no unique index.                                *)
Anyway(q) == TRUE
Free(q) == Following(q.left) \notin docs[q.at][q.version]

WritePart(r) ==
  LET q == req[r]
      p == Following(q.left)
  IN  /\ q.op \in {"create", "publish"} /\ q.left # {} /\ Free(q)
      /\ docs' = [docs EXCEPT ![q.at][q.version] = @ \cup {p}]
      /\ mixed' = (mixed \/ (docs[q.at][q.version] # {} /\ ~ q.mine))
      /\ Become(r, [q EXCEPT !.left = @ \ {p}, !.mine = TRUE])
      /\ UNCHANGED <<configVars, pins, partial, blocked, contended, faults>>

(* A duplicate key: "published by someone else a moment ago".               *)
Refuse(r) ==
  /\ Does(r, "publish") /\ req[r].left # {} /\ ~ Free(req[r])
  /\ blocked' = (blocked \/ ~ req[r].raced)
  /\ Done(r)
  /\ UNCHANGED <<configVars, docs, pins, partial, mixed, contended, faults>>

(* Mutant of Adopt: before the version is written.                         *)
AdoptEarly(r) ==
  /\ Does(r, "publish")
  /\ current' = [current EXCEPT ![req[r].at] = req[r].version]
  /\ Done(r)
  /\ UNCHANGED <<state, default, active, docs, pins, historyVars, faults>>

Adopt(r) ==
  /\ Does(r, "publish") /\ req[r].left = {}
  /\ current' = [current EXCEPT ![req[r].at] = req[r].version]
  /\ Done(r)
  /\ UNCHANGED <<state, default, active, docs, pins, historyVars, faults>>

(* A clone is finished; it is whole unless somebody - a clone, a publish -  *)
(* read it before, or it was itself cloned from a part.                     *)
Created(r) ==
  LET c == req[r].at
  IN  /\ Does(r, "create") /\ req[r].left = {}
      /\ partial' = IF Whole(c, 1) /\ current[c] = 1 /\ Publishing(c) = {}
                    THEN partial \ {c} ELSE partial
      /\ Done(r)
      /\ UNCHANGED <<configVars, docs, pins, mixed, blocked, contended, faults>>
-----------------------------------------------------------------------------
(* patch_configuration.  A new default demotes the others, then is one.     *)
SetDefault(r, c) ==
  /\ c \in Live
  /\ Begin(r, [Idle EXCEPT !.op = "default", !.at = c])
  /\ contended' = (contended \/ Managing # {})
  /\ UNCHANGED <<configVars, docs, pins, partial, mixed, blocked, faults>>

DemoteOthers(r) ==
  /\ Does(r, "default")
  /\ default' = default \cap {req[r].at}
  /\ Become(r, [req[r] EXCEPT !.op = "promote"])
  /\ UNCHANGED <<state, active, current, docs, pins, historyVars, faults>>

(* Mutant of Promote: a configuration that is off stays so.                 *)
PromoteOnly(r) ==
  /\ Does(r, "promote")
  /\ default' = default \cup {req[r].at}
  /\ Done(r)
  /\ UNCHANGED <<state, active, current, docs, pins, historyVars, faults>>

Promote(r) ==
  /\ Does(r, "promote")
  /\ default' = default \cup {req[r].at} /\ active' = active \cup {req[r].at}
  /\ Done(r)
  /\ UNCHANGED <<state, current, docs, pins, historyVars, faults>>

(* Deactivation looks for another active one; the default stays active.     *)
Switch(r, c, on) ==
  /\ c \in Live
  /\ on = "off" => c \notin default /\ Cardinality(active \cap Live) > 1
  /\ Begin(r, [Idle EXCEPT !.op = on, !.at = c])
  /\ contended' = (contended \/ Managing # {})
  /\ UNCHANGED <<configVars, docs, pins, partial, mixed, blocked, faults>>

SwitchWrite(r) ==
  /\ req[r].op \in {"on", "off"}
  /\ active' = IF Does(r, "on") THEN active \cup {req[r].at} ELSE active \ {req[r].at}
  /\ Done(r)
  /\ UNCHANGED <<state, default, current, docs, pins, historyVars, faults>>

(* delete_configuration: not a system one, the default or one in use; the   *)
(* documents stay.                                                          *)
DeleteConfiguration(r, c) ==
  /\ c \in Live \ {Standard} /\ c \notin default
  /\ \A v \in Versions : <<c, v>> \notin pins
  /\ Begin(r, [Idle EXCEPT !.op = "delete", !.at = c])
  /\ contended' = (contended \/ Managing # {})
  /\ UNCHANGED <<configVars, docs, pins, partial, mixed, blocked, faults>>

DeleteWrite(r) ==
  /\ Does(r, "delete")
  /\ state' = [state EXCEPT ![req[r].at] = "deleted"]
  /\ Done(r)
  /\ UNCHANGED <<default, active, current, docs, pins, historyVars, faults>>
-----------------------------------------------------------------------------
(* _resolve_configuration: one that is chosen and active, or the default,   *)
(* or - a tenant is never left without one - the standard one.              *)
DefaultConfigs == IF default \cap Live # {} THEN default \cap Live ELSE {Standard}
Selectable     == (active \cap Live) \cup DefaultConfigs

CreateProject(r, c) ==
  /\ c \in Selectable /\ "first" \in Scope(c)
  /\ Cardinality(pins) < MaxPins
  /\ Begin(r, [Idle EXCEPT !.op = "project", !.at = c, !.version = current[c]])
  /\ UNCHANGED <<configVars, docs, pins, historyVars, faults>>

PinVersion(r) ==
  /\ Does(r, "project")
  /\ pins' = pins \cup {<<req[r].at, req[r].version>>}
  /\ Done(r)
  /\ UNCHANGED <<configVars, docs, historyVars, faults>>

Crash(r) ==
  /\ r \in UnderWay /\ faults < MaxFaults
  /\ faults' = faults + 1
  /\ contended' = (contended \/ r \in Managing)
  /\ Done(r)
  /\ UNCHANGED <<configVars, docs, pins, partial, mixed, blocked>>

Step(r) ==
  \/ WritePart(r) \/ Refuse(r) \/ Adopt(r) \/ Created(r)
  \/ DemoteOthers(r) \/ Promote(r) \/ SwitchWrite(r) \/ DeleteWrite(r)
  \/ PinVersion(r) \/ Crash(r)

Request(r) ==
  \E c \in Config :
    \/ \E base \in Config : CreateConfiguration(r, c, base)
    \/ PublishVersion(r, c) \/ SetDefault(r, c) \/ DeleteConfiguration(r, c)
    \/ \E on \in {"on", "off"} : Switch(r, c, on)
    \/ CreateProject(r, c)

Next == \E r \in Req : Step(r) \/ Request(r)

Spec == Init /\ [][Next]_vars
-----------------------------------------------------------------------------
(* "Versions are immutable", with no server-side draft: whatever publishes  *)
(* and clones overlap or crash, the stages and gates of a version are those *)
(* of one payload, never the first half of one and the second of another.   *)
(* And "a retry lands on a free version instead of colliding with the       *)
(* debris forever" (highest_config_version): a publish is refused only if   *)
(* another publish of that configuration overlapped it.                     *)
VersionOfOnePublish == ~ mixed /\ ~ blocked

(* A project runs a machine that is whole: the version it pinned, and the   *)
(* one the next project would pin, have all their stages and gates, however *)
(* many publishes, crashes and deletions came between the read of the       *)
(* configuration and the pin.  Except in a clone whose creation crashed, or *)
(* is not over, which is live before it is written.                         *)
PinnedWhole ==
  /\ \A c \in Live \ partial : Whole(c, current[c])
  /\ \A x \in pins : x[1] \in partial \/ Whole(x[1], x[2])

(* "Exactly one default, at least one active config" (patch_configuration), *)
(* after any sequence of changes, deletions and publishes; for changes of   *)
(* flags that do not overlap each other.                                    *)
OneDefault ==
  ~ contended /\ Managing = {} => \E c \in Live \cap active : default \cap Live = {c}
=============================================================================
