---------------------------- MODULE StageMachine ----------------------------
(***************************************************************************)
(* One project of modules/projects: its stages, the decision engine that   *)
(* places each of them, approvals, holds and recovery reports.             *)
(*                                                                         *)
(* The tail of an approval (_finalize_stage) is split where it awaits what *)
(* another approval may change; every other operation is one step.         *)
(***************************************************************************)
EXTENDS Integers, FiniteSets

CONSTANTS
  Req,         \* approvals that may be under way at once
  Last,        \* the order of the last stage
  Templates,   \* what depends on what, per workflow: [Stages -> SUBSET Stages]
  Documented,  \* stages with blocking document gates
  Gated,       \* stages with a blocking quality gate
  Checked,     \* stages with checks of another kind (release checklist, snags)
  Unattended,  \* stages that advance without an approver
  Recovery,    \* what a rejection of a stage leads to
  Target,      \* the stage that a "return" goes back to
  Reserving,   \* the stage whose approval reserves stock
  MaxReports,  \* bound on the open reports
  Ops,         \* what users ask for
  Faults,      \* "stock": the reservation is refused
  Overlap      \* TRUE if other requests come in while an approval is under way

Stages     == 1 .. Last
Recoveries == {"reopen", "hold", "return"}

ASSUME LastAssumption      == Last \in Nat \ {0}
ASSUME TemplatesAssumption ==
  Templates \subseteq {d \in [Stages -> SUBSET Stages] : \A s \in Stages : d[s] \subseteq 1 .. s - 1}
ASSUME KindsAssumption     ==
  /\ Documented \subseteq Stages /\ Gated \subseteq Stages
  /\ Checked \subseteq Stages /\ Unattended \subseteq Stages /\ Reserving \in Stages
ASSUME RecoveryAssumption  ==
  /\ Recovery \in [Stages -> Recoveries] /\ Target \in [Stages -> Stages]
  /\ \A s \in Stages : Recovery[s] = "return" => Target[s] < s
ASSUME OpsAssumption       ==
  Ops \subseteq {"document", "task", "gate", "check", "submit", "reject", "status", "report"}
ASSUME BoundsAssumption    == MaxReports \in Nat /\ Overlap \in BOOLEAN

VARIABLES
  deps,                  \* the pinned template
  status, hold, cursor,  \* the project: status, hold.source, current_stage_order
  stage,                 \* status of each stage instance, "absent" before entry
  docs,                  \* stages whose documents are supplied
  gate,                  \* latest result of each stage's gate
  unmet,                 \* those of Checked that are not met
  approval,              \* each stage's open approval, or "none" ("draft" until review)
  others, issues,        \* open reports: how many plain, which deduplicated
  fin,                   \* per request: the approval under way
  passed                 \* history: stages that were approved at some time

projectVars == <<deps, status, hold, cursor>>
stageVars   == <<stage, docs, gate, unmet, approval>>
reportVars  == <<others, issues>>
vars == <<projectVars, stageVars, reportVars, fin, passed>>

StageStates  == {"absent", "waiting", "blocked", "in_progress", "validation",
                 "pending_approval", "approved", "rejected", "on_hold"}
ProjectStates == {"active", "on_hold", "completed", "archived"}
Readings     == {"open", "pass", "severe"}   \* "open": failed, or no result yet
Phases       == {"idle", "validated", "integrated", "marked", "entered", "pointed"}
NotUnderWay  == [phase |-> "idle", at |-> 0, rep |-> 0]
DedupKinds   == {"issue", "missing"}

UnderWay(r) == fin[r].phase # "idle"
Alone       == \A r \in Req : ~ UnderWay(r)
Entered     == {s \in Stages : stage[s] # "absent"}
-----------------------------------------------------------------------------
(* The decision engine: evaluate_stage and next_status, on the statuses f,  *)
(* the gate results g and the supplied documents D.                         *)
Severe(s, g)    == s \in Gated /\ g[s] = "severe"
BlockedBy(s, f) == {d \in deps[s] : f[d] # "approved"}
WaitsOn(s, D)   == s \in Documented \ D

NextStatus(s, f, g, D) ==
  IF f[s] = "on_hold" \/ Severe(s, g) THEN "on_hold"
  ELSE IF BlockedBy(s, f) # {} THEN "blocked"
  ELSE IF WaitsOn(s, D) THEN "waiting"
  ELSE "in_progress"

Engine(s, f, g, D) == [f EXCEPT ![s] = NextStatus(s, f, g, D)]

(* run_auto_validation *)
Valid(s) ==
  /\ BlockedBy(s, stage) = {}
  /\ ~ WaitsOn(s, docs)
  /\ s \in Gated => gate[s] = "pass"
  /\ s \notin unmet
-----------------------------------------------------------------------------
(* create_project has entered the first stage.                              *)
Init ==
  /\ deps \in Templates
  /\ status = "active" /\ hold = "none" /\ cursor = 1
  /\ gate = [s \in Stages |-> "open"]
  /\ docs = {} /\ unmet = Checked
  /\ stage = [s \in Stages |-> IF s # 1 THEN "absent"
                               ELSE IF 1 \in Documented THEN "waiting" ELSE "in_progress"]
  /\ approval = [s \in Stages |-> "none"]
  /\ others = 0 /\ issues = {}
  /\ fin = [r \in Req |-> NotUnderWay]
  /\ passed = {}

(* An archived project refuses every change; a stage that was not reached   *)
(* has no instance.                                                         *)
Open       == status # "archived" /\ (Overlap \/ Alone)
Reached(s) == Open /\ s \in Entered

SupplyDocument(s) ==
  /\ Reached(s) /\ s \in Documented
  /\ docs' = docs \cup {s}
  /\ stage' = Engine(s, stage, gate, docs')
  /\ UNCHANGED <<projectVars, gate, unmet, approval, reportVars, fin, passed>>

(* run_task; a first stage starved of documents raises a deduplicated report. *)
RunTask(s) ==
  /\ Reached(s)
  /\ stage' = Engine(s, stage, gate, docs)
  /\ issues' = IF s = 1 /\ WaitsOn(s, docs) THEN issues \cup {<<"missing", s>>} ELSE issues
  /\ UNCHANGED <<projectVars, docs, gate, unmet, approval, others, fin, passed>>

WaiveGate(s) ==
  /\ Reached(s) /\ s \in Gated
  /\ gate' = [gate EXCEPT ![s] = "pass"]
  /\ stage' = Engine(s, stage, gate', docs)
  /\ UNCHANGED <<projectVars, docs, unmet, approval, reportVars, fin, passed>>

(* The checks that are neither documents, gates nor dependencies: a section *)
(* of the release checklist, an open snag, the budget.                      *)
TurnCheck(s) ==
  /\ Reached(s) /\ s \in Checked
  /\ unmet' = IF s \in unmet THEN unmet \ {s} ELSE unmet \cup {s}
  /\ UNCHANGED <<projectVars, stage, docs, gate, approval, reportVars, fin, passed>>

OpenReport == others' = others + 1

(* _rollback_to: the stage is given up, its target reopened, the project off *)
(* its hold (hold itself stays).                                            *)
Rollback(s, f, g) ==
  LET t == Target[s]
      given == [f EXCEPT ![s] = "rejected"]
  IN  /\ status' = "active" /\ cursor' = t
      /\ stage' = IF f[t] = "absent" THEN given
                  ELSE Engine(t, [given EXCEPT ![t] = "in_progress"], g, docs)
      /\ UNCHANGED <<deps, hold>>

EngineHold(f) ==
  /\ status' = "on_hold" /\ hold' = "engine" /\ stage' = f
  /\ UNCHANGED <<deps, cursor>>

(* A reading that is not severe only places the stage anew. *)
RecordGate(s, v) ==
  /\ Reached(s) /\ s \in Gated /\ v # "severe"
  /\ gate' = [gate EXCEPT ![s] = v]
  /\ stage' = Engine(s, stage, gate', docs)
  /\ UNCHANGED <<projectVars, docs, unmet, approval, reportVars, fin, passed>>

(* Mutant of RecordSevere: the project is held and no report raised. *)
RecordSevereSilently(s) ==
  /\ Reached(s) /\ s \in Gated
  /\ gate' = [gate EXCEPT ![s] = "severe"]
  /\ LET f == Engine(s, stage, gate', docs)
     IN  IF Recovery[s] = "return" THEN Rollback(s, f, gate') ELSE EngineHold(f)
  /\ UNCHANGED <<docs, unmet, approval, reportVars, fin, passed>>

(* A severe breach opens a report, and returns the project to an earlier    *)
(* stage or halts it.                                                       *)
RecordSevere(s) ==
  /\ Reached(s) /\ s \in Gated
  /\ gate' = [gate EXCEPT ![s] = "severe"]
  /\ LET f == Engine(s, stage, gate', docs)
     IN  IF Recovery[s] = "return" THEN Rollback(s, f, gate') ELSE EngineHold(f)
  /\ OpenReport
  /\ UNCHANGED <<docs, unmet, approval, issues, fin, passed>>

(* submit_stage: automated validation, then the approver's desk - or, for a *)
(* stage without an approver, its own approval.                             *)
Submittable(s) == Reached(s) /\ stage[s] \notin {"approved", "on_hold"}

SubmitFails(s) ==
  /\ Submittable(s) /\ ~ Valid(s)
  /\ approval' = [approval EXCEPT ![s] = "draft"]
  /\ issues' = issues \cup {<<"issue", s>>}
  /\ stage' = Engine(s, [stage EXCEPT ![s] = "validation"], gate, docs)
  /\ UNCHANGED <<projectVars, docs, gate, unmet, others, fin, passed>>

(* Mutant of SubmitForReview: an approval that is open is taken as it is.   *)
SubmitReusesApproval(s) ==
  /\ Submittable(s) /\ Valid(s) /\ s \notin Unattended
  /\ approval' = [approval EXCEPT ![s] = IF @ = "none" THEN "manager_review" ELSE @]
  /\ stage' = [stage EXCEPT ![s] = "pending_approval"]
  /\ UNCHANGED <<projectVars, docs, gate, unmet, reportVars, fin, passed>>

SubmitForReview(s) ==
  /\ Submittable(s) /\ Valid(s) /\ s \notin Unattended
  /\ approval' = [approval EXCEPT ![s] = "manager_review"]
  /\ stage' = [stage EXCEPT ![s] = "pending_approval"]
  /\ UNCHANGED <<projectVars, docs, gate, unmet, reportVars, fin, passed>>

Begin(r, s) == fin' = [fin EXCEPT ![r] = [phase |-> "validated", at |-> s, rep |-> 0]]

AutoAdvance(r, s) ==
  /\ Submittable(s) /\ Valid(s) /\ s \in Unattended /\ ~ UnderWay(r)
  /\ approval' = [approval EXCEPT ![s] = "draft"]
  /\ stage' = [stage EXCEPT ![s] = "validation"]
  /\ Begin(r, s)
  /\ UNCHANGED <<projectVars, docs, gate, unmet, reportVars, passed>>

(* Mutant of Approve: the validation made at the submission is trusted.     *)
ApproveAsSubmitted(r, s) ==
  /\ Reached(s) /\ stage[s] = "pending_approval" /\ s \notin Unattended
  /\ ~ UnderWay(r)
  /\ Begin(r, s)
  /\ UNCHANGED <<projectVars, stageVars, reportVars, passed>>

(* approve_stage up to _finalize_stage: only reads. *)
Approve(r, s) ==
  /\ Reached(s) /\ stage[s] = "pending_approval" /\ s \notin Unattended /\ Valid(s)
  /\ ~ UnderWay(r)
  /\ Begin(r, s)
  /\ UNCHANGED <<projectVars, stageVars, reportVars, passed>>

(* reject_stage: a report, the approval closed, and the stage's recovery.   *)
Reject(s) ==
  /\ Reached(s) /\ s \notin Unattended /\ stage[s] \in {"pending_approval", "validation"}
  /\ approval' = [approval EXCEPT ![s] = "none"]
  /\ CASE Recovery[s] = "return" -> Rollback(s, stage, gate)
       [] Recovery[s] = "hold"   -> EngineHold([stage EXCEPT ![s] = "on_hold"])
       [] Recovery[s] = "reopen" ->
            /\ stage' = Engine(s, [stage EXCEPT ![s] = "in_progress"], gate, docs)
            /\ UNCHANGED projectVars
  /\ OpenReport
  /\ UNCHANGED <<docs, gate, unmet, issues, fin, passed>>
-----------------------------------------------------------------------------
(* change_status *)
Transitions ==
  [active |-> {"on_hold", "archived"}, on_hold |-> {"active", "archived"},
   completed |-> {"active", "archived"}, archived |-> {"active", "on_hold"}]

ChangeStatus(t) ==
  /\ Overlap \/ Alone
  /\ \/ t \in Transitions[status]
     \/ t = "on_hold" /\ status = "on_hold" /\ hold # "manual"
  /\ status' = t
  /\ hold' = IF t = "on_hold" THEN "manual" ELSE IF status = "on_hold" THEN "none" ELSE hold
  /\ UNCHANGED <<deps, cursor, stageVars, reportVars, fin, passed>>

(* create_report, or patch_report putting one back to open.                 *)
CreateReport ==
  /\ Open /\ OpenReport
  /\ UNCHANGED <<projectVars, stageVars, issues, fin, passed>>

(* _maybe_clear_hold, on the reports left open.                             *)
MaybeClearHold ==
  LET clears == status = "on_hold" /\ hold # "manual" /\ others' = 0 /\ issues' = {}
  IN  /\ status' = IF clears THEN "active" ELSE status
      /\ hold' = IF clears THEN "none" ELSE hold
      /\ stage' = IF clears /\ stage[cursor] = "on_hold"
                  THEN [stage EXCEPT ![cursor] = "in_progress"] ELSE stage

(* patch_report with status resolved or closed *)
ResolveReport ==
  /\ Open
  /\ \/ others > 0 /\ others' = others - 1 /\ issues' = issues
     \/ \E i \in issues : issues' = issues \ {i} /\ others' = others
  /\ MaybeClearHold
  /\ UNCHANGED <<deps, cursor, docs, gate, unmet, approval, fin, passed>>
-----------------------------------------------------------------------------
(* _finalize_stage: integrations, the stage, then the project.              *)
In(r, p)  == fin[r].phase = p
Goto(r, p) == fin' = [fin EXCEPT ![r].phase = p]
Done(r)   == fin' = [fin EXCEPT ![r] = NotUnderWay]

Integrate(r) ==
  /\ In(r, "validated")
  /\ Goto(r, "integrated")
  /\ UNCHANGED <<projectVars, stageVars, reportVars, passed>>

IntegrationFails(r) ==
  /\ In(r, "validated") /\ fin[r].at = Reserving /\ "stock" \in Faults
  /\ Done(r)
  /\ UNCHANGED <<projectVars, stageVars, reportVars, passed>>

MarkApproved(r) ==
  LET s == fin[r].at
  IN  /\ In(r, "integrated")
      /\ approval' = [approval EXCEPT ![s] = "none"]
      /\ stage' = [stage EXCEPT ![s] = "approved"]
      /\ passed' = passed \cup {s}
      /\ Goto(r, "marked")
      /\ UNCHANGED <<projectVars, docs, gate, unmet, reportVars>>

Complete(r) ==
  /\ In(r, "marked") /\ fin[r].at = Last
  /\ status' = "completed"
  /\ Done(r)
  /\ UNCHANGED <<deps, hold, cursor, stageVars, reportVars, passed>>

(* Mutant of Unlocked: one approved dependency is enough. *)
UnlockedByOne == {s \in Stages \ Entered : deps[s] \ BlockedBy(s, stage) # {}}

(* _enter_unlocked_stages.  Mutant of EnterUnlocked: only the next stage is *)
(* looked at.                                                               *)
Unlocked == {s \in Stages \ Entered : BlockedBy(s, stage) = {}}

EnterNext(r) ==
  LET new == Unlocked \cap {fin[r].at + 1}
  IN  /\ In(r, "marked") /\ fin[r].at # Last
      /\ stage' = [s \in Stages |-> IF s \in new THEN NextStatus(s, stage, gate, docs) ELSE stage[s]]
      /\ Goto(r, "entered")
      /\ UNCHANGED <<projectVars, docs, gate, unmet, approval, reportVars, passed>>

EnterUnlocked(r) ==
  /\ In(r, "marked") /\ fin[r].at # Last
  /\ stage' = [s \in Stages |->
                 IF s \in Unlocked THEN NextStatus(s, stage, gate, docs) ELSE stage[s]]
  /\ Goto(r, "entered")
  /\ UNCHANGED <<projectVars, docs, gate, unmet, approval, reportVars, passed>>

(* The cursor goes to the lowest stage in flight, computed in one read and  *)
(* written in the next step.                                                *)
InFlight == {s \in Entered : stage[s] # "approved"}
Lowest(S) == CHOOSE s \in S : \A t \in S : s <= t

ReadInFlight(r) ==
  /\ In(r, "entered")
  /\ fin' = [fin EXCEPT ![r] =
               [phase |-> "pointed", at |-> fin[r].at,
                rep |-> IF InFlight = {} THEN fin[r].at ELSE Lowest(InFlight)]]
  /\ UNCHANGED <<projectVars, stageVars, reportVars, passed>>

WriteCursor(r) ==
  /\ In(r, "pointed")
  /\ cursor' = fin[r].rep
  /\ Done(r)
  /\ UNCHANGED <<deps, status, hold, stageVars, reportVars, passed>>

Finalize(r) ==
  \/ Integrate(r) \/ IntegrationFails(r) \/ MarkApproved(r) \/ Complete(r)
  \/ EnterUnlocked(r) \/ ReadInFlight(r) \/ WriteCursor(r)

StageRequest(s) ==
  \/ "document" \in Ops /\ SupplyDocument(s)
  \/ "task" \in Ops /\ RunTask(s)
  \/ "gate" \in Ops /\ (WaiveGate(s) \/ RecordSevere(s) \/ \E v \in Readings : RecordGate(s, v))
  \/ "check" \in Ops /\ TurnCheck(s)
  \/ "submit" \in Ops /\ (SubmitFails(s) \/ SubmitForReview(s))
  \/ "reject" \in Ops /\ Reject(s)

ProjectRequest ==
  \/ "status" \in Ops /\ \E t \in ProjectStates : ChangeStatus(t)
  \/ "report" \in Ops /\ (CreateReport \/ ResolveReport)

Bounded == others' + Cardinality(issues') <= MaxReports

Next ==
  /\ \/ \E s \in Stages : StageRequest(s) \/ \E r \in Req : AutoAdvance(r, s) \/ Approve(r, s)
     \/ ProjectRequest
     \/ \E r \in Req : Finalize(r)
  /\ Bounded

Spec == Init /\ [][Next]_vars
-----------------------------------------------------------------------------
TypeOK ==
  /\ deps \in Templates
  /\ status \in ProjectStates /\ hold \in {"none", "manual", "engine"}
  /\ cursor \in Stages
  /\ stage \in [Stages -> StageStates]
  /\ docs \subseteq Documented /\ unmet \subseteq Checked
  /\ gate \in [Stages -> Readings]
  /\ approval \in [Stages -> {"none", "draft", "manager_review"}]
  /\ others \in 0 .. MaxReports /\ issues \subseteq DedupKinds \X Stages
  /\ fin \in [Req -> [phase : Phases, at : 0 .. Last, rep : 0 .. Last]]
  /\ passed \subseteq Stages

(* "Advancement needs blocking gates passed, automated validation passed    *)
(* and an approver" (engines.py): at the moment a stage becomes approved    *)
(* its documents are there, its gate's latest result passes, its checks are *)
(* met and its dependencies are approved.  For requests that do not overlap. *)
ApprovedOnEvidence ==
  [][\A s \in Stages : stage[s] # "approved" /\ stage'[s] = "approved" => Valid(s)]_vars

(* A project the engine put on hold can be released: as _maybe_clear_hold   *)
(* needs a report to be resolved, one is open, whatever was resolved, held  *)
(* again, archived, rolled back or approved meanwhile.                      *)
EngineHoldHasReport ==
  status = "on_hold" /\ hold # "manual" => hold = "engine" /\ (others > 0 \/ issues # {})

(* A stage on an approver's desk has an approval to decide on, and one that *)
(* is approved has none left open, whatever gates, rollbacks and rejections *)
(* came in between.                                                         *)
ApprovalFollowsStage ==
  \A s \in Stages :
    /\ stage[s] = "pending_approval" => approval[s] = "manager_review"
    /\ stage[s] = "approved" => approval[s] = "none"

(* Approvals under way at once unlock what they unlock together: as soon as *)
(* no approved stage is still to look, every stage whose dependencies are   *)
(* approved was entered - stage 9 of the concurrent workflow too, when the  *)
(* last two of stages 2..8 are approved at the same time.                   *)
NoStageStranded ==
  (\A r \in Req : ~ In(r, "marked")) => Unlocked = {}
-----------------------------------------------------------------------------
(* The workflow promises that stages are entered and approved in the order  *)
(* of their dependencies.                                                   *)
Promise == INSTANCE Pipeline WITH opened <- Entered

ImplementsPipeline == Promise!Spec
=============================================================================
