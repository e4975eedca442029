--------------------------- MODULE WorkflowProofs ---------------------------
(***************************************************************************)
(* Proofs about the two components whose requests write several records of *)
(* a workflow in turn.                                                     *)
(*                                                                         *)
(* StageMachine, for any template, number of stages, gates and overlapping *)
(* approvals: its type; that it implements Pipeline - stages open and are  *)
(* approved in the order of their dependencies; that no stage is stranded, *)
(* no engine hold is without a report and no desk without an approval;     *)
(* and, for requests one at a time, that stages are approved on the        *)
(* evidence required.                                                      *)
(*                                                                         *)
(* CrmImports, for any leads, accounts, deals, files and requests under    *)
(* way: that conversions are whole, that the inbox can be decided, and     *)
(* that imports do not double what they made.                              *)
(***************************************************************************)
EXTENDS StageMachine, CrmImports, FiniteSetTheorems, WellFoundedInduction, TLAPS

LEMMA LeastNatural ==
  ASSUME NEW S \in SUBSET Nat, S # {}
  PROVE  \E m \in S : \A n \in S : m <= n
<1> DEFINE R == OpToRel(<, Nat)
<1>1. IsWellFoundedOn(R, Nat)
  BY NatLessThanWellFounded
<1>2. \A y, z \in Nat : y < z => <<y, z>> \in R
  BY DEF OpToRel
<1> HIDE DEF R
<1>3. PICK x \in S : \A y \in S : ~ (<<y, x>> \in R)
  BY <1>1, WFMin
<1>4. \A n \in S : ~ (n < x)
  <2> TAKE n \in S
  <2>1. n \in Nat /\ x \in Nat
    OBVIOUS
  <2>2. ~ (<<n, x>> \in R)
    BY <1>3
  <2>3. QED BY ONLY <1>2, <2>1, <2>2, Zenon
<1>5. x \in Nat /\ \A n \in S : n \in Nat
  OBVIOUS
<1>6. \A n \in S : x <= n
  BY <1>4, <1>5
<1>7. QED BY <1>6

(* An approval under way is about a stage, and the cursor it is about to    *)
(* write names one.                                                         *)
OnStage ==
  \A r \in Req :
    /\ UnderWay(r) => fin[r].at \in Stages
    /\ In(r, "pointed") => fin[r].rep \in Stages

TypeInv == TypeOK /\ OnStage

(* Where the engine may place a stage. *)
Placed == {"on_hold", "blocked", "waiting", "in_progress"}

LEMMA EngineType ==
  ASSUME NEW f \in [Stages -> StageStates], NEW s, NEW g, NEW D
  PROVE  /\ NextStatus(s, f, g, D) \in Placed
         /\ Engine(s, f, g, D) \in [Stages -> StageStates]
         /\ \A q \in Stages : Engine(s, f, g, D)[q] =
              IF q = s THEN NextStatus(s, f, g, D) ELSE f[q]
<1>1. NextStatus(s, f, g, D) \in Placed
  BY DEF NextStatus, Placed
<1>2. QED BY <1>1 DEF Engine, Placed, StageStates

(* What most steps make of the stages: they take no stage's entry back and  *)
(* approve none.                                                            *)
Keeps(f) ==
  /\ f \in [Stages -> StageStates]
  /\ \A s \in Stages : /\ f[s] = "absent" <=> stage[s] = "absent"
                       /\ f[s] = "approved" => stage[s] = "approved"

LEMMA PlaceKeeps ==
  ASSUME NEW f, Keeps(f), NEW s \in Entered, NEW v \in StageStates \ {"absent", "approved"}
  PROVE  Keeps([f EXCEPT ![s] = v])
BY DEF Keeps, Entered

LEMMA EngineKeeps ==
  ASSUME NEW f, Keeps(f), NEW s \in Entered, NEW g, NEW D
  PROVE  Keeps(Engine(s, f, g, D))
<1>1. NextStatus(s, f, g, D) \in StageStates \ {"absent", "approved"}
  BY EngineType DEF Keeps, Placed, StageStates
<1>2. QED BY <1>1, PlaceKeeps DEF Engine

(* A rollback and an engine hold, on stages that were kept so far.          *)
LEMMA RollbackKeeps ==
  ASSUME TypeOK, NEW s \in Entered, Recovery[s] = "return", NEW f, Keeps(f), NEW g,
         Rollback(s, f, g)
  PROVE  /\ Keeps(stage')
         /\ deps' = deps /\ hold' = hold
         /\ status' \in ProjectStates /\ cursor' \in Stages
<1> DEFINE t == Target[s]
           given == [f EXCEPT ![s] = "rejected"]
<1>1. t \in Stages
  BY RecoveryAssumption DEF Entered
<1>2. Keeps(given)
  BY PlaceKeeps DEF StageStates
<1>3. Keeps(stage')
  <2>1. CASE f[t] = "absent"
    BY <1>2, <2>1 DEF Rollback
  <2>2. CASE f[t] # "absent"
    <3>1. t \in Entered
      BY <1>1, <2>2 DEF Keeps, Entered
    <3>2. Keeps([given EXCEPT ![t] = "in_progress"])
      BY <1>2, <3>1, PlaceKeeps DEF StageStates
    <3>3. Keeps(Engine(t, [given EXCEPT ![t] = "in_progress"], g, docs))
      BY <3>1, <3>2, EngineKeeps
    <3>4. QED BY <2>2, <3>3 DEF Rollback
  <2>3. QED BY <2>1, <2>2
<1>4. QED BY <1>1, <1>3 DEF Rollback, ProjectStates

(* The requests that start or end no approval and report on no stage.       *)
Kept ==
  /\ Keeps(stage') /\ deps' = deps /\ passed' = passed
  /\ status' \in ProjectStates /\ hold' \in {"none", "manual", "engine"}
  /\ cursor' \in Stages
  /\ docs' \subseteq Documented /\ unmet' \subseteq Checked
  /\ gate' \in [Stages -> Readings]
  /\ approval' \in [Stages -> {"none", "draft", "manager_review"}]
  /\ others' \in Nat /\ issues' \subseteq DedupKinds \X Stages

LEMMA SelfKeeps == TypeOK => Keeps(stage)
BY DEF TypeOK, Keeps

LEMMA StageRequestKept ==
  ASSUME TypeOK, NEW s \in Stages, StageRequest(s)
  PROVE  Kept /\ fin' = fin
<1> USE DEF Reached, projectVars, stageVars, reportVars
<1>1. Keeps(stage) /\ others \in Nat
  BY SelfKeeps, BoundsAssumption DEF TypeOK
<1>2. CASE SupplyDocument(s)
  BY <1>1, <1>2, EngineKeeps DEF SupplyDocument, TypeOK, Kept
<1>3. CASE RunTask(s)
  BY <1>1, <1>3, EngineKeeps DEF RunTask, TypeOK, Kept, DedupKinds
<1>4. CASE WaiveGate(s)
  BY <1>1, <1>4, EngineKeeps DEF WaiveGate, TypeOK, Kept, Readings
<1>5. CASE \E v \in Readings : RecordGate(s, v)
  BY <1>1, <1>5, EngineKeeps DEF RecordGate, TypeOK, Kept
<1>6. CASE TurnCheck(s)
  BY <1>1, <1>6 DEF TurnCheck, TypeOK, Kept
<1>7. CASE RecordSevere(s)
  <2> DEFINE f == Engine(s, stage, gate', docs)
  <2>1. s \in Entered /\ Keeps(f)
    BY <1>1, <1>7, EngineKeeps DEF RecordSevere
  <2>2. /\ gate' \in [Stages -> Readings] /\ others' \in Nat
        /\ UNCHANGED <<docs, unmet, approval, issues, passed, fin>>
    BY <1>1, <1>7 DEF RecordSevere, OpenReport, TypeOK, Readings
  <2>3. CASE Recovery[s] = "return"
    <3>1. Rollback(s, f, gate')
      BY <1>7, <2>3 DEF RecordSevere
    <3>2. QED BY <2>1, <2>2, <2>3, <3>1, RollbackKeeps DEF TypeOK, Kept
  <2>4. CASE Recovery[s] # "return"
    <3>1. EngineHold(f)
      BY <1>7, <2>4 DEF RecordSevere
    <3>2. QED BY <2>1, <2>2, <3>1 DEF EngineHold, TypeOK, Kept, ProjectStates
  <2>5. QED BY <2>3, <2>4
<1>8. CASE SubmitFails(s)
  <2>1. s \in Entered /\ Keeps([stage EXCEPT ![s] = "validation"])
    BY <1>1, <1>8, PlaceKeeps DEF SubmitFails, Submittable, StageStates
  <2>2. QED BY <1>1, <1>8, <2>1, EngineKeeps DEF SubmitFails, TypeOK, Kept, DedupKinds
<1>9. CASE SubmitForReview(s)
  <2>1. s \in Entered /\ Keeps([stage EXCEPT ![s] = "pending_approval"])
    BY <1>1, <1>9, PlaceKeeps DEF SubmitForReview, Submittable, StageStates
  <2>2. QED BY <1>1, <1>9, <2>1 DEF SubmitForReview, TypeOK, Kept
<1>10. CASE Reject(s)
  <2>1. s \in Entered /\ Recovery[s] \in Recoveries
    BY <1>10, RecoveryAssumption DEF Reject
  <2>2. /\ approval' \in [Stages -> {"none", "draft", "manager_review"}] /\ others' \in Nat
        /\ UNCHANGED <<docs, gate, unmet, issues, fin, passed>>
    BY <1>1, <1>10 DEF Reject, OpenReport, TypeOK
  <2>3. CASE Recovery[s] = "return"
    <3>1. Rollback(s, stage, gate)
      BY <1>10, <2>3 DEF Reject
    <3>2. QED BY <1>1, <2>1, <2>2, <2>3, <3>1, RollbackKeeps DEF TypeOK, Kept
  <2>4. CASE Recovery[s] = "hold"
    <3>1. EngineHold([stage EXCEPT ![s] = "on_hold"])
      BY <1>10, <2>4 DEF Reject
    <3>2. Keeps([stage EXCEPT ![s] = "on_hold"])
      BY <1>1, <2>1, PlaceKeeps DEF StageStates
    <3>3. QED BY <2>2, <3>1, <3>2 DEF EngineHold, TypeOK, Kept, ProjectStates
  <2>5. CASE Recovery[s] = "reopen"
    <3>1. /\ stage' = Engine(s, [stage EXCEPT ![s] = "in_progress"], gate, docs)
          /\ UNCHANGED projectVars
      BY <1>10, <2>5 DEF Reject
    <3>2. Keeps([stage EXCEPT ![s] = "in_progress"])
      BY <1>1, <2>1, PlaceKeeps DEF StageStates
    <3>3. QED BY <2>1, <2>2, <3>1, <3>2, EngineKeeps DEF TypeOK, Kept
  <2>6. QED BY <2>1, <2>3, <2>4, <2>5 DEF Recoveries
<1>11. QED
  BY <1>2, <1>3, <1>4, <1>5, <1>6, <1>7, <1>8, <1>9, <1>10 DEF StageRequest

LEMMA ProjectRequestKept ==
  ASSUME TypeOK, ProjectRequest
  PROVE  Kept /\ fin' = fin
<1> USE DEF projectVars, stageVars, reportVars
<1>1. Keeps(stage) /\ others \in Nat
  BY SelfKeeps, BoundsAssumption DEF TypeOK
<1>2. CASE \E t \in ProjectStates : ChangeStatus(t)
  BY <1>1, <1>2 DEF ChangeStatus, TypeOK, Kept
<1>3. CASE CreateReport
  BY <1>1, <1>3 DEF CreateReport, OpenReport, TypeOK, Kept
<1>4. CASE ResolveReport
  <2>1. others' \in Nat /\ issues' \subseteq DedupKinds \X Stages
    BY <1>1, <1>4 DEF ResolveReport, TypeOK
  <2>2. Keeps(stage')
    <3>1. CASE stage' = stage
      BY <1>1, <3>1
    <3>2. CASE stage[cursor] = "on_hold" /\ stage' = [stage EXCEPT ![cursor] = "in_progress"]
      <4>1. cursor \in Entered
        BY <3>2 DEF TypeOK, Entered
      <4>2. QED BY <1>1, <3>2, <4>1, PlaceKeeps DEF StageStates
    <3>3. QED BY <1>4, <3>1, <3>2 DEF ResolveReport, MaybeClearHold
  <2>3. status' \in ProjectStates /\ hold' \in {"none", "manual", "engine"}
    BY <1>4 DEF ResolveReport, MaybeClearHold, TypeOK, ProjectStates
  <2>4. QED BY <1>4, <2>1, <2>2, <2>3 DEF ResolveReport, TypeOK, Kept
<1>5. QED BY <1>2, <1>3, <1>4 DEF ProjectRequest

(* The beginning of an approval: its stage was entered and validated.       *)
LEMMA BeginKept ==
  ASSUME TypeOK, NEW r \in Req, NEW s \in Stages, AutoAdvance(r, s) \/ Approve(r, s)
  PROVE  /\ Kept
         /\ fin' = [fin EXCEPT ![r] = [phase |-> "validated", at |-> s, rep |-> 0]]
         /\ s \in Entered /\ BlockedBy(s, stage) = {}
<1> USE DEF projectVars, stageVars, reportVars, Begin, Reached
<1>1. Keeps(stage) /\ others \in Nat
  BY SelfKeeps, BoundsAssumption DEF TypeOK
<1>2. CASE Approve(r, s)
  BY <1>1, <1>2 DEF Approve, Valid, TypeOK, Kept
<1>3. CASE AutoAdvance(r, s)
  <2>1. s \in Entered /\ BlockedBy(s, stage) = {}
    BY <1>3 DEF AutoAdvance, Submittable, Valid
  <2>2. Keeps([stage EXCEPT ![s] = "validation"])
    BY <1>1, <2>1, PlaceKeeps DEF StageStates
  <2>3. QED BY <1>1, <1>3, <2>1, <2>2 DEF AutoAdvance, TypeOK, Kept
<1>4. QED BY <1>2, <1>3

(* The steps of an approval that neither mark a stage nor enter one.        *)
QuietTail(r) ==
  Integrate(r) \/ IntegrationFails(r) \/ Complete(r) \/ ReadInFlight(r) \/ WriteCursor(r)

LEMMA LowestInFlight == InFlight # {} => Lowest(InFlight) \in Entered
<1>1. InFlight \in SUBSET Nat /\ InFlight \subseteq Entered
  BY DEF InFlight, Entered, Stages
<1>2. QED BY <1>1, LeastNatural DEF Lowest

LEMMA TailKept ==
  ASSUME TypeInv, NEW r \in Req, QuietTail(r)
  PROVE  /\ Kept /\ stage' = stage
         /\ \/ fin' = [fin EXCEPT ![r] = NotUnderWay]
            \/ /\ In(r, "validated")
               /\ fin' = [fin EXCEPT ![r].phase = "integrated"]
            \/ /\ In(r, "entered")
               /\ \E s \in Stages :
                    fin' = [fin EXCEPT ![r] = [phase |-> "pointed", at |-> fin[r].at, rep |-> s]]
<1> USE DEF projectVars, stageVars, reportVars, Done, Goto
<1>1. Keeps(stage) /\ others \in Nat /\ TypeOK
  BY SelfKeeps, BoundsAssumption DEF TypeOK, TypeInv
<1>2. CASE Integrate(r)
  BY <1>1, <1>2 DEF Integrate, TypeOK, Kept
<1>3. CASE IntegrationFails(r)
  BY <1>1, <1>3 DEF IntegrationFails, TypeOK, Kept
<1>4. CASE Complete(r)
  BY <1>1, <1>4 DEF Complete, TypeOK, Kept, ProjectStates
<1>5. CASE ReadInFlight(r)
  <2> DEFINE s == IF InFlight = {} THEN fin[r].at ELSE Lowest(InFlight)
  <2>1. s \in Stages
    BY <1>5, LowestInFlight DEF ReadInFlight, TypeInv, OnStage, UnderWay, In, Entered
  <2>2. fin' = [fin EXCEPT ![r] = [phase |-> "pointed", at |-> fin[r].at, rep |-> s]] /\ In(r, "entered")
    BY <1>5 DEF ReadInFlight
  <2>3. Kept /\ stage' = stage
    BY <1>1, <1>5 DEF ReadInFlight, TypeOK, Kept
  <2>4. QED BY <2>1, <2>2, <2>3
<1>6. CASE WriteCursor(r)
  <2>1. fin[r].rep \in Stages
    BY <1>6 DEF WriteCursor, TypeInv, OnStage
  <2>2. QED BY <1>1, <1>6, <2>1 DEF WriteCursor, TypeOK, Kept
<1>7. QED BY <1>2, <1>3, <1>4, <1>5, <1>6 DEF QuietTail

(* What an approval does to its own record: it ends, begins or goes on.     *)
FinStep(r) ==
  \/ fin' = fin
  \/ fin' = [fin EXCEPT ![r] = NotUnderWay]
  \/ \E s \in Stages : fin' = [fin EXCEPT ![r] = [phase |-> "validated", at |-> s, rep |-> 0]]
  \/ /\ UnderWay(r)
     /\ \/ \E q \in {"integrated", "marked", "entered"} : fin' = [fin EXCEPT ![r].phase = q]
        \/ \E s \in Stages :
             fin' = [fin EXCEPT ![r] = [phase |-> "pointed", at |-> fin[r].at, rep |-> s]]

LEMMA FinType ==
  ASSUME TypeInv, NEW r \in Req, FinStep(r)
  PROVE  /\ fin' \in [Req -> [phase : Phases, at : 0 .. Last, rep : 0 .. Last]]
         /\ OnStage'
<1> USE DEF TypeInv, TypeOK, OnStage, UnderWay, In, Phases, NotUnderWay, Stages
<1>1. Last \in Nat /\ 0 \in 0 .. Last /\ Stages \subseteq 0 .. Last
  BY LastAssumption
<1>2. CASE fin' = fin
  BY <1>2
<1>3. CASE fin' = [fin EXCEPT ![r] = NotUnderWay]
  BY <1>1, <1>3
<1>4. CASE \E s \in Stages : fin' = [fin EXCEPT ![r] = [phase |-> "validated", at |-> s, rep |-> 0]]
  BY <1>1, <1>4
<1>5. CASE UnderWay(r) /\ \E q \in {"integrated", "marked", "entered"} : fin' = [fin EXCEPT ![r].phase = q]
  BY <1>1, <1>5
<1>6. CASE UnderWay(r) /\ \E s \in Stages :
             fin' = [fin EXCEPT ![r] = [phase |-> "pointed", at |-> fin[r].at, rep |-> s]]
  BY <1>1, <1>6
<1>7. QED BY <1>2, <1>3, <1>4, <1>5, <1>6 DEF FinStep

(* The bound on the reports, for any step that keeps their kinds.           *)
LEMMA ReportBound ==
  ASSUME Bounded, others' \in Nat, issues' \subseteq DedupKinds \X Stages
  PROVE  others' \in 0 .. MaxReports
<1>1. IsFiniteSet(Stages)
  BY LastAssumption, FS_Interval DEF Stages
<1>2. IsFiniteSet(DedupKinds)
  <2>1. IsFiniteSet({"issue"}) /\ DedupKinds = {"issue"} \cup {"missing"}
    BY FS_Singleton DEF DedupKinds
  <2>2. QED BY <2>1, FS_AddElement
<1>3. IsFiniteSet(DedupKinds \X Stages)
  BY <1>1, <1>2, FS_Product
<1>4. IsFiniteSet(issues')
  BY <1>3, FS_Subset
<1>5. Cardinality(issues') \in Nat
  BY <1>4, FS_CardinalityType
<1>6. QED BY <1>5, BoundsAssumption DEF Bounded

LEMMA KeptType ==
  ASSUME TypeInv, Bounded, Kept, NEW r \in Req, FinStep(r)
  PROVE  TypeInv'
BY FinType, ReportBound DEF TypeInv, TypeOK, Kept, Keeps

(* The two steps of an approval that change the stages for good.            *)
LEMMA MarkStep ==
  ASSUME TypeInv, NEW r \in Req, MarkApproved(r)
  PROVE  /\ fin[r].at \in Stages
         /\ stage' = [stage EXCEPT ![fin[r].at] = "approved"]
         /\ stage' \in [Stages -> StageStates]
         /\ approval' \in [Stages -> {"none", "draft", "manager_review"}]
         /\ passed' = passed \cup {fin[r].at}
         /\ In(r, "integrated")
         /\ fin' = [fin EXCEPT ![r].phase = "marked"]
         /\ UNCHANGED <<projectVars, docs, gate, unmet, reportVars>>
<1>1. fin[r].at \in Stages /\ In(r, "integrated")
  BY DEF MarkApproved, TypeInv, OnStage, UnderWay, In
<1>2. QED BY <1>1 DEF MarkApproved, Goto, TypeInv, TypeOK, StageStates

LEMMA EnterStep ==
  ASSUME TypeInv, NEW r \in Req, EnterUnlocked(r)
  PROVE  /\ stage' \in [Stages -> StageStates]
         /\ \A s \in Unlocked : stage'[s] \in Placed
         /\ \A s \in Stages \ Unlocked : stage'[s] = stage[s]
         /\ In(r, "marked")
         /\ fin' = [fin EXCEPT ![r].phase = "entered"]
         /\ UNCHANGED <<projectVars, docs, gate, unmet, approval, reportVars, passed>>
<1>1. stage \in [Stages -> StageStates]
  BY DEF TypeInv, TypeOK
<1>2. \A s \in Stages : NextStatus(s, stage, gate, docs) \in Placed
  BY <1>1, EngineType
<1>3. Placed \subseteq StageStates
  BY DEF Placed, StageStates
<1>4. QED BY <1>1, <1>2, <1>3 DEF EnterUnlocked, Goto, Unlocked

LEMMA InitType == Init => TypeInv
<1> SUFFICES ASSUME Init PROVE TypeInv
  OBVIOUS
<1>1. 1 \in Stages /\ 0 \in 0 .. Last /\ 0 \in 0 .. MaxReports
  BY LastAssumption, BoundsAssumption DEF Stages
<1>2. OnStage
  BY DEF Init, OnStage, UnderWay, In, NotUnderWay
<1>3. /\ deps \in Templates /\ status \in ProjectStates /\ hold \in {"none", "manual", "engine"}
      /\ cursor \in Stages /\ stage \in [Stages -> StageStates]
      /\ docs \subseteq Documented /\ unmet \subseteq Checked
  BY <1>1 DEF Init, ProjectStates, StageStates
<1>4. /\ gate \in [Stages -> Readings]
      /\ approval \in [Stages -> {"none", "draft", "manager_review"}]
      /\ others \in 0 .. MaxReports /\ issues \subseteq DedupKinds \X Stages
      /\ fin \in [Req -> [phase : Phases, at : 0 .. Last, rep : 0 .. Last]]
      /\ passed \subseteq Stages
  BY <1>1 DEF Init, Readings, NotUnderWay, Phases
<1>5. QED BY <1>2, <1>3, <1>4 DEF TypeInv, TypeOK

(* Every step of Next is of one of three kinds: it keeps the stages, marks  *)
(* one approved, or enters those it unlocks.                                *)
LEMMA StepsOfNext ==
  ASSUME TypeInv, Next
  PROVE  /\ Bounded
         /\ \/ Kept /\ fin' = fin
            \/ \E r \in Req, s \in Stages : AutoAdvance(r, s) \/ Approve(r, s)
            \/ \E r \in Req : QuietTail(r)
            \/ \E r \in Req : MarkApproved(r)
            \/ \E r \in Req : EnterUnlocked(r)
<1>1. TypeOK
  BY DEF TypeInv
<1>2. QED BY <1>1, StageRequestKept, ProjectRequestKept DEF Next, Finalize, QuietTail

LEMMA NextType == TypeInv /\ [Next]_vars => TypeInv'
<1> SUFFICES ASSUME TypeInv, [Next]_vars PROVE TypeInv'
  OBVIOUS
<1>1. TypeOK
  BY DEF TypeInv
<1>2. CASE UNCHANGED vars
  BY <1>2 DEF vars, projectVars, stageVars, reportVars, TypeInv, TypeOK, OnStage, UnderWay, In
<1>3. CASE Next
  <2>1. Bounded
    BY <1>3, StepsOfNext
  <2>2. CASE Kept /\ fin' = fin
    <3>1. OnStage' /\ fin' \in [Req -> [phase : Phases, at : 0 .. Last, rep : 0 .. Last]]
      BY <2>2 DEF TypeInv, TypeOK, OnStage, UnderWay, In
    <3>2. QED BY <2>1, <2>2, <3>1, ReportBound DEF TypeInv, TypeOK, Kept, Keeps
  <2>3. ASSUME NEW r \in Req, NEW s \in Stages, AutoAdvance(r, s) \/ Approve(r, s)
        PROVE  TypeInv'
    <3>1. Kept /\ FinStep(r)
      BY <1>1, <2>3, BeginKept DEF FinStep
    <3>2. QED BY <2>1, <3>1, KeptType
  <2>4. ASSUME NEW r \in Req, QuietTail(r) PROVE TypeInv'
    <3>1. Kept /\ FinStep(r)
      BY <2>4, TailKept DEF FinStep, UnderWay, In
    <3>2. QED BY <2>1, <3>1, KeptType
  <2>5. ASSUME NEW r \in Req, MarkApproved(r) PROVE TypeInv'
    <3>1. FinStep(r)
      BY <2>5, MarkStep DEF FinStep, UnderWay, In
    <3>2. OnStage' /\ fin' \in [Req -> [phase : Phases, at : 0 .. Last, rep : 0 .. Last]]
      BY <3>1, FinType
    <3>3. QED BY <2>5, <3>2, MarkStep DEF TypeInv, TypeOK, projectVars, reportVars
  <2>6. ASSUME NEW r \in Req, EnterUnlocked(r) PROVE TypeInv'
    <3>1. FinStep(r)
      BY <2>6, EnterStep DEF FinStep, UnderWay, In
    <3>2. OnStage' /\ fin' \in [Req -> [phase : Phases, at : 0 .. Last, rep : 0 .. Last]]
      BY <3>1, FinType
    <3>3. QED BY <2>6, <3>2, EnterStep DEF TypeInv, TypeOK, projectVars, reportVars
  <2>7. QED BY <1>3, <2>2, <2>3, <2>4, <2>5, <2>6, StepsOfNext
<1>4. QED BY <1>2, <1>3

(* Type correctness, with the cursor: whatever approvals overlap, it names  *)
(* a stage, although each of them computes it from an earlier read.         *)
THEOREM TypeCorrect == Spec => []TypeOK
<1>1. TypeInv => TypeOK
  BY DEF TypeInv
<1>2. QED BY <1>1, InitType, NextType, PTL DEF Spec
-----------------------------------------------------------------------------
(* Why the order is kept although the engine may reopen, reject or hold any *)
(* stage: what is approved now was approved at some time, and an approval   *)
(* under way is about a stage whose dependencies were approved before it.   *)
OrderInv ==
  /\ \A s \in Stages : stage[s] = "approved" => s \in passed
  /\ \A r \in Req : In(r, "validated") \/ In(r, "integrated") =>
       fin[r].at \in Entered /\ deps[fin[r].at] \subseteq passed

LEMMA DepsAreStages ==
  ASSUME TypeOK, NEW s \in Stages
  PROVE  deps[s] \subseteq Stages
BY TemplatesAssumption DEF TypeOK

LEMMA UnblockedPassed ==
  ASSUME TypeOK, OrderInv, NEW s \in Stages, BlockedBy(s, stage) = {}
  PROVE  deps[s] \subseteq passed
BY DepsAreStages DEF BlockedBy, OrderInv

(* A step that keeps the stages is no step of Pipeline.                     *)
LEMMA KeptStutters ==
  ASSUME TypeOK, Kept
  PROVE  UNCHANGED Promise!vars
BY DEF Kept, Keeps, Entered, Promise!vars

LEMMA OrderStep ==
  ASSUME TypeInv, OrderInv, Next
  PROVE  OrderInv' /\ [Promise!Next]_Promise!vars
<1> USE DEF OrderInv, In
<1>1. TypeOK /\ fin \in [Req -> [phase : Phases, at : 0 .. Last, rep : 0 .. Last]]
      /\ stage \in [Stages -> StageStates]
  BY DEF TypeInv, TypeOK
<1>2. CASE Kept /\ fin' = fin
  <2>1. OrderInv'
    BY <1>2 DEF Kept, Keeps, Entered
  <2>2. QED BY <1>1, <1>2, <2>1, KeptStutters
<1>3. ASSUME NEW r \in Req, NEW s \in Stages, AutoAdvance(r, s) \/ Approve(r, s)
      PROVE  OrderInv' /\ [Promise!Next]_Promise!vars
  <2>1. /\ Kept /\ s \in Entered /\ deps[s] \subseteq passed
        /\ fin' = [fin EXCEPT ![r] = [phase |-> "validated", at |-> s, rep |-> 0]]
    BY <1>1, <1>3, BeginKept, UnblockedPassed
  <2>2. OrderInv'
    BY <1>1, <2>1 DEF Kept, Keeps, Entered
  <2>3. QED BY <1>1, <2>1, <2>2, KeptStutters
<1>4. ASSUME NEW r \in Req, QuietTail(r)
      PROVE  OrderInv' /\ [Promise!Next]_Promise!vars
  <2>1. Kept
    BY <1>4, TailKept
  <2>2. \A q \in Req : fin'[q].phase \in {"validated", "integrated"} =>
          /\ fin[q].phase \in {"validated", "integrated"}
          /\ fin'[q].at = fin[q].at
    BY <1>1, <1>4, TailKept DEF NotUnderWay
  <2>3. OrderInv'
    BY <2>1, <2>2 DEF Kept, Keeps, Entered
  <2>4. QED BY <1>1, <2>1, <2>3, KeptStutters
<1>5. ASSUME NEW r \in Req, MarkApproved(r)
      PROVE  OrderInv' /\ [Promise!Next]_Promise!vars
  <2> DEFINE s == fin[r].at
  <2>1. /\ s \in Entered /\ deps[s] \subseteq passed
        /\ stage' = [stage EXCEPT ![s] = "approved"]
        /\ passed' = passed \cup {s} /\ deps' = deps
        /\ fin' = [fin EXCEPT ![r].phase = "marked"]
    BY <1>5, MarkStep DEF projectVars
  <2>2. Entered' = Entered
    BY <1>1, <2>1 DEF Entered
  <2>3. OrderInv'
    BY <1>1, <2>1, <2>2
  <2>4. Promise!Approve(s) /\ s \in Promise!Stages
    BY <2>1, <2>2 DEF Promise!Approve, Promise!Stages, Entered, Stages
  <2>5. QED BY <2>3, <2>4 DEF Promise!Next
<1>6. ASSUME NEW r \in Req, EnterUnlocked(r)
      PROVE  OrderInv' /\ [Promise!Next]_Promise!vars
  <2>1. /\ UNCHANGED <<deps, passed>>
        /\ fin' = [fin EXCEPT ![r].phase = "entered"]
        /\ \A s \in Unlocked : stage'[s] \notin {"absent", "approved"}
        /\ \A s \in Stages \ Unlocked : stage'[s] = stage[s]
    BY <1>6, EnterStep DEF projectVars, Placed
  <2>2. Entered' = Entered \cup Unlocked
    BY <2>1 DEF Entered, Unlocked
  <2>3. OrderInv'
    BY <1>1, <2>1, <2>2 DEF Unlocked
  <2>4. Promise!Open(Unlocked)
    BY <1>1, <2>1, <2>2, UnblockedPassed DEF Promise!Open, Unlocked
  <2>5. Unlocked \in SUBSET Promise!Stages
    BY DEF Unlocked, Promise!Stages, Stages
  <2>6. QED BY <2>3, <2>4, <2>5 DEF Promise!Next
<1>7. QED BY <1>2, <1>3, <1>4, <1>5, <1>6, StepsOfNext

(* Stages are entered and approved in the order of their dependencies, for  *)
(* any workflow and any overlap of approvals: every step of StageMachine is *)
(* a step of Pipeline or none.                                              *)
THEOREM PipelineImplemented == Spec => ImplementsPipeline
<1>1. Init => OrderInv /\ Promise!Init
  <2> SUFFICES ASSUME Init PROVE OrderInv /\ Promise!Init
    OBVIOUS
  <2>1. 1 \in Stages
    BY LastAssumption DEF Stages
  <2>2. Entered = {1}
    BY <2>1 DEF Init, Entered
  <2>3. \A s \in Stages : stage[s] # "approved"
    BY DEF Init
  <2>4. \A r \in Req : fin[r].phase = "idle"
    BY DEF Init, NotUnderWay
  <2>5. QED BY <2>2, <2>3, <2>4 DEF Init, OrderInv, In, Promise!Init
<1>2. TypeInv /\ OrderInv /\ [Next]_vars => OrderInv' /\ [Promise!Next]_Promise!vars
  <2> SUFFICES ASSUME TypeInv, OrderInv, [Next]_vars
               PROVE  OrderInv' /\ [Promise!Next]_Promise!vars
    OBVIOUS
  <2>1. CASE UNCHANGED vars
    BY <2>1 DEF vars, projectVars, stageVars, OrderInv, In, Entered, Promise!vars
  <2>2. QED BY <2>1, OrderStep
<1>3. QED BY <1>1, <1>2, InitType, NextType, PTL DEF Spec, ImplementsPipeline, Promise!Spec
-----------------------------------------------------------------------------
(* Stages that became enterable wait for an approval that is still to look; *)
(* the approval of the last stage looks for none, as nothing depends on it. *)
Awaited == Unlocked # {} => \E r \in Req : In(r, "marked") /\ fin[r].at # Last

(* A step that approves nothing unlocks nothing.                            *)
LEMMA KeptUnlocks ==
  ASSUME TypeOK, Kept
  PROVE  Unlocked' \subseteq Unlocked
<1>1. /\ deps' = deps /\ \A s \in Stages : deps[s] \subseteq Stages
      /\ \A s \in Stages : stage'[s] = "absent" => stage[s] = "absent"
      /\ \A s \in Stages : stage'[s] = "approved" => stage[s] = "approved"
  BY DepsAreStages DEF Kept, Keeps, TypeOK
<1>2. ASSUME NEW s \in Unlocked' PROVE s \in Unlocked
  <2>1. s \in Stages /\ stage'[s] = "absent" /\ \A d \in deps[s] : stage'[d] = "approved"
    BY <1>1, <1>2 DEF Unlocked, Entered, BlockedBy
  <2>2. stage[s] = "absent" /\ \A d \in deps[s] : stage[d] = "approved"
    BY <1>1, <2>1
  <2>3. QED BY <2>1, <2>2 DEF Unlocked, Entered, BlockedBy
<1>3. QED BY <1>2

LEMMA AwaitedStep ==
  ASSUME TypeInv, Awaited, Next
  PROVE  Awaited'
<1> USE DEF Awaited, In
<1>1. TypeOK /\ fin \in [Req -> [phase : Phases, at : 0 .. Last, rep : 0 .. Last]]
      /\ stage \in [Stages -> StageStates] /\ Last \in Nat
  BY LastAssumption DEF TypeInv, TypeOK
<1>2. CASE Kept /\ fin' = fin
  BY <1>1, <1>2, KeptUnlocks
<1>3. ASSUME NEW r \in Req, NEW s \in Stages, AutoAdvance(r, s) \/ Approve(r, s)
      PROVE  Awaited'
  <2>1. /\ Kept /\ fin' = [fin EXCEPT ![r] = [phase |-> "validated", at |-> s, rep |-> 0]]
        /\ fin[r].phase = "idle"
    BY <1>1, <1>3, BeginKept DEF AutoAdvance, Approve, UnderWay
  <2>2. QED BY <1>1, <2>1, KeptUnlocks
<1>4. ASSUME NEW r \in Req, QuietTail(r), ~ Complete(r)
      PROVE  Awaited'
  <2>1. /\ Kept /\ fin[r].phase # "marked"
        /\ \A q \in Req : q # r => fin'[q] = fin[q]
    BY <1>1, <1>4, TailKept
       DEF QuietTail, Integrate, IntegrationFails, ReadInFlight, WriteCursor
  <2>2. QED BY <1>1, <2>1, KeptUnlocks
<1>5. ASSUME NEW r \in Req, Complete(r)
      PROVE  Awaited'
  <2>1. Kept /\ fin[r].at = Last /\ fin' = [fin EXCEPT ![r] = NotUnderWay]
    BY <1>1, <1>5, TailKept DEF QuietTail, Complete, Done
  <2>2. \A q \in Req : q # r => fin'[q] = fin[q]
    BY <1>1, <2>1
  <2>3. QED BY <1>1, <2>1, <2>2, KeptUnlocks
<1>6. ASSUME NEW r \in Req, MarkApproved(r)
      PROVE  Awaited'
  <2> DEFINE s == fin[r].at
  <2>1. /\ s \in Stages /\ stage' = [stage EXCEPT ![s] = "approved"] /\ UNCHANGED deps
        /\ fin' = [fin EXCEPT ![r].phase = "marked"]
    BY <1>6, MarkStep DEF projectVars
  <2>2. CASE s # Last
    BY <1>1, <2>1, <2>2
  <2>3. CASE s = Last
    <3>1. \A t \in Stages : Last \notin deps[t] /\ deps[t] \subseteq Stages
      BY <1>1, TemplatesAssumption, DepsAreStages DEF TypeOK, Stages
    <3>2. Unlocked' \subseteq Unlocked
      BY <1>1, <2>1, <2>3, <3>1 DEF Unlocked, Entered, BlockedBy
    <3>3. \A q \in Req : q # r => fin'[q] = fin[q]
      BY <1>1, <2>1
    <3>4. fin[r].phase = "integrated"
      BY <1>6, MarkStep
    <3>5. QED BY <1>1, <3>2, <3>3, <3>4
  <2>4. QED BY <2>2, <2>3
<1>7. ASSUME NEW r \in Req, EnterUnlocked(r)
      PROVE  Awaited'
  <2>1. /\ UNCHANGED deps
        /\ \A s \in Unlocked : stage'[s] \notin {"absent", "approved"}
        /\ \A s \in Stages \ Unlocked : stage'[s] = stage[s]
    BY <1>7, EnterStep DEF projectVars, Placed
  <2>2. \A s \in Stages : deps[s] \subseteq Stages
    BY <1>1, DepsAreStages
  <2>3. Unlocked' = {}
    <3>1. ASSUME NEW s \in Unlocked' PROVE FALSE
      <4>1. s \in Stages /\ stage'[s] = "absent" /\ \A d \in deps[s] : stage'[d] = "approved"
        BY <2>1 DEF Unlocked, Entered, BlockedBy
      <4>2. s \notin Unlocked /\ stage[s] = "absent"
        BY <2>1, <4>1
      <4>3. \A d \in deps[s] : stage[d] = "approved"
        <5>1. TAKE d \in deps[s]
        <5>2. d \in Stages /\ stage'[d] = "approved"
          BY <2>2, <4>1
        <5>3. QED BY <2>1, <5>2
      <4>4. QED BY <4>1, <4>2, <4>3 DEF Unlocked, Entered, BlockedBy
    <3>2. QED BY <3>1
  <2>4. QED BY <2>3
<1>8. QED
  <2>1. ASSUME NEW r \in Req, QuietTail(r) PROVE Awaited'
    BY <1>4, <1>5, <2>1
  <2>2. QED BY <1>2, <1>3, <1>6, <1>7, <2>1, StepsOfNext

(* However approvals overlap, a stage whose dependencies are approved is    *)
(* entered by the time no approval is still to look - in any workflow all   *)
(* of whose stages but the first depend on some, as both of this one's do.  *)
THEOREM NobodyStranded ==
  ASSUME \A d \in Templates : \A s \in 2 .. Last : d[s] # {}
  PROVE  Spec => []NoStageStranded
<1>1. Init => Awaited
  <2> SUFFICES ASSUME Init PROVE Unlocked = {}
    BY DEF Awaited
  <2>1. ASSUME NEW s \in Stages, s # 1 PROVE BlockedBy(s, stage) # {}
    <3>1. s \in 2 .. Last /\ deps[s] # {} /\ deps[s] \subseteq 1 .. s - 1
      <4>1. s \in 2 .. Last
        BY <2>1, LastAssumption DEF Stages
      <4>2. deps \in Templates
        BY DEF Init
      <4>3. QED BY <2>1, <4>1, <4>2, TemplatesAssumption
    <3>2. PICK d \in deps[s] : TRUE
      BY <3>1
    <3>3. d \in Stages /\ stage[d] # "approved"
      BY <3>1, <3>2, LastAssumption DEF Init, Stages
    <3>4. QED BY <3>2, <3>3 DEF BlockedBy
  <2>2. 1 \in Entered
    BY LastAssumption DEF Init, Entered, Stages
  <2>3. QED BY <2>1, <2>2 DEF Unlocked
<1>2. TypeInv /\ Awaited /\ [Next]_vars => Awaited'
  <2> SUFFICES ASSUME TypeInv, Awaited, [Next]_vars PROVE Awaited'
    OBVIOUS
  <2>1. CASE UNCHANGED vars
    BY <2>1 DEF vars, projectVars, stageVars, Awaited, In, Unlocked, Entered, BlockedBy
  <2>2. QED BY <2>1, AwaitedStep
<1>3. Awaited => NoStageStranded
  BY DEF Awaited, NoStageStranded
<1>4. QED BY <1>1, <1>2, <1>3, InitType, NextType, PTL DEF Spec
-----------------------------------------------------------------------------
(* A project the engine holds has a report whose resolution can release it: *)
(* the property is inductive as it stands, given the types.                 *)
LEMMA HeldStep ==
  ASSUME TypeInv, EngineHoldHasReport, Next
  PROVE  EngineHoldHasReport'
<1> USE DEF EngineHoldHasReport, projectVars, stageVars, reportVars
<1>1. others \in Nat
  BY BoundsAssumption DEF TypeInv, TypeOK
<1>2. ASSUME NEW s \in Stages, StageRequest(s) PROVE EngineHoldHasReport'
  <2>1. CASE RecordSevere(s)
    BY <1>1, <2>1 DEF RecordSevere, OpenReport, Rollback, EngineHold
  <2>2. CASE Reject(s)
    <3>1. Recovery[s] \in Recoveries /\ others' = others + 1 /\ UNCHANGED issues
      BY <2>2, RecoveryAssumption DEF Reject, OpenReport
    <3>2. CASE Recovery[s] = "return"
      BY <2>2, <3>2 DEF Reject, Rollback
    <3>3. CASE Recovery[s] = "hold"
      BY <1>1, <2>2, <3>1, <3>3 DEF Reject, EngineHold
    <3>4. CASE Recovery[s] = "reopen"
      BY <1>1, <2>2, <3>1, <3>4 DEF Reject
    <3>5. QED BY <3>1, <3>2, <3>3, <3>4 DEF Recoveries
  <2>3. CASE UNCHANGED projectVars /\ UNCHANGED others /\ issues \subseteq issues'
    BY <2>3
  <2>4. QED
    BY <1>2, <2>1, <2>2, <2>3 DEF StageRequest, SupplyDocument, RunTask, WaiveGate, RecordGate,
       TurnCheck, SubmitFails, SubmitForReview
<1>3. ASSUME ProjectRequest PROVE EngineHoldHasReport'
  <2>1. CASE \E t \in ProjectStates : ChangeStatus(t)
    BY <2>1 DEF ChangeStatus
  <2>2. CASE CreateReport
    BY <1>1, <2>2 DEF CreateReport, OpenReport
  <2>3. CASE ResolveReport
    <3>1. others' \in Nat
      BY <1>1, <2>3 DEF ResolveReport
    <3>2. QED BY <2>3, <3>1 DEF ResolveReport, MaybeClearHold
  <2>4. QED BY <1>3, <2>1, <2>2, <2>3 DEF ProjectRequest
<1>4. ASSUME NEW r \in Req, NEW s \in Stages, AutoAdvance(r, s) \/ Approve(r, s)
      PROVE  EngineHoldHasReport'
  BY <1>4 DEF AutoAdvance, Approve
<1>5. ASSUME NEW r \in Req, Finalize(r) PROVE EngineHoldHasReport'
  BY <1>5 DEF Finalize, Integrate, IntegrationFails, MarkApproved, Complete, EnterUnlocked,
     ReadInFlight, WriteCursor
<1>6. QED BY <1>2, <1>3, <1>4, <1>5 DEF Next

(* Whatever is resolved, held again, archived, rolled back or approved, a   *)
(* project that the engine put on hold has an open report.                  *)
THEOREM HoldsHaveReports == Spec => []EngineHoldHasReport
<1>1. Init => EngineHoldHasReport
  BY DEF Init, EngineHoldHasReport
<1>2. TypeInv /\ EngineHoldHasReport /\ [Next]_vars => EngineHoldHasReport'
  BY HeldStep DEF EngineHoldHasReport, vars, projectVars, reportVars
<1>3. QED BY <1>1, <1>2, InitType, NextType, PTL DEF Spec
-----------------------------------------------------------------------------
(* What a step may do to a stage and its approval together.                 *)
Together(s) ==
  \/ stage'[s] = stage[s] /\ approval'[s] = approval[s]
  \/ stage'[s] \notin {"pending_approval", "approved"}
  \/ stage'[s] = "pending_approval" /\ approval'[s] = "manager_review"
  \/ stage'[s] = "approved" /\ approval'[s] = "none"

(* What the engine makes of stages f, of which only those in S differ from  *)
(* the ones before and none of these is on a desk or approved.              *)
Placing(f) ==
  /\ f \in [Stages -> StageStates]
  /\ \A s \in Stages : f[s] = stage[s] \/ f[s] \notin {"pending_approval", "approved"}

LEMMA PlacingEngine ==
  ASSUME NEW f, Placing(f), NEW s \in Stages, NEW g, NEW D
  PROVE  /\ Placing(Engine(s, f, g, D))
         /\ Engine(s, f, g, D)[s] \notin {"pending_approval", "approved"}
<1>1. f \in [Stages -> StageStates]
  BY DEF Placing
<1>2. NextStatus(s, f, g, D) \notin {"pending_approval", "approved"}
  BY <1>1, EngineType DEF Placed
<1>3. QED BY <1>1, <1>2, EngineType DEF Placing

LEMMA PlacingRollback ==
  ASSUME NEW s \in Stages, NEW f, Placing(f), NEW g, Recovery[s] = "return", Rollback(s, f, g)
  PROVE  /\ Placing(stage')
         /\ stage'[s] \notin {"pending_approval", "approved"}
<1> DEFINE t == Target[s]
           given == [f EXCEPT ![s] = "rejected"]
           back == [given EXCEPT ![t] = "in_progress"]
<1>1. t \in Stages /\ t < s /\ t # s
  BY RecoveryAssumption DEF Stages
<1>2. Placing(given) /\ given[s] = "rejected"
  BY DEF Placing, StageStates
<1>3. Placing(back) /\ back[s] = "rejected"
  BY <1>1, <1>2 DEF Placing, StageStates
<1>4. stage' = given \/ stage' = Engine(t, back, g, docs)
  BY DEF Rollback
<1> HIDE DEF given, back
<1>5. Placing(Engine(t, back, g, docs)) /\ Engine(t, back, g, docs)[s] = back[s]
  <2>1. back \in [Stages -> StageStates]
    BY <1>3 DEF Placing
  <2>2. QED BY <1>1, <1>3, <2>1, PlacingEngine, EngineType
<1>6. QED BY <1>2, <1>3, <1>4, <1>5

LEMMA DeskStep ==
  ASSUME TypeInv, Next
  PROVE  \A s \in Stages : Together(s)
<1> USE DEF projectVars, stageVars, reportVars
<1>1. stage \in [Stages -> StageStates] /\ approval \in [Stages -> {"none", "draft", "manager_review"}]
      /\ Placing(stage)
  BY DEF TypeInv, TypeOK, Placing
<1>2. ASSUME Placing(stage'), UNCHANGED approval PROVE \A s \in Stages : Together(s)
  BY <1>2 DEF Placing, Together
<1>3. ASSUME NEW s \in Stages, StageRequest(s) PROVE \A q \in Stages : Together(q)
  <2>1. CASE SupplyDocument(s)
    BY <1>1, <1>2, <2>1, PlacingEngine DEF SupplyDocument
  <2>2. CASE RunTask(s)
    BY <1>1, <1>2, <2>2, PlacingEngine DEF RunTask
  <2>3. CASE WaiveGate(s)
    BY <1>1, <1>2, <2>3, PlacingEngine DEF WaiveGate
  <2>4. CASE \E v \in Readings : RecordGate(s, v)
    BY <1>1, <1>2, <2>4, PlacingEngine DEF RecordGate
  <2>5. CASE TurnCheck(s)
    BY <1>1, <1>2, <2>5 DEF TurnCheck
  <2>6. CASE RecordSevere(s)
    <3>1. UNCHANGED approval
      BY <2>6 DEF RecordSevere
    <3>2. Placing(Engine(s, stage, gate', docs))
      BY <1>1, PlacingEngine
    <3>3. CASE Recovery[s] = "return"
      <4>1. Rollback(s, Engine(s, stage, gate', docs), gate')
        BY <2>6, <3>3 DEF RecordSevere
      <4>2. QED BY <1>2, <3>1, <3>2, <3>3, <4>1, PlacingRollback
    <3>4. CASE Recovery[s] # "return"
      BY <1>2, <2>6, <3>1, <3>2, <3>4 DEF RecordSevere, EngineHold
    <3>5. QED BY <3>3, <3>4
  <2>7. CASE SubmitFails(s)
    <3> DEFINE f == [stage EXCEPT ![s] = "validation"]
    <3>1. Placing(f)
      BY <1>1 DEF Placing, StageStates
    <3>2. stage' = Engine(s, f, gate, docs) /\ approval' = [approval EXCEPT ![s] = "draft"]
      BY <2>7 DEF SubmitFails
    <3> HIDE DEF f
    <3>3. Placing(stage') /\ stage'[s] \notin {"pending_approval", "approved"}
      BY <3>1, <3>2, PlacingEngine
    <3>4. QED BY <1>1, <3>2, <3>3 DEF Placing, Together
  <2>8. CASE SubmitForReview(s)
    BY <1>1, <2>8 DEF SubmitForReview, Together
  <2>9. CASE Reject(s)
    <3>1. Recovery[s] \in Recoveries /\ approval' = [approval EXCEPT ![s] = "none"]
      BY <2>9, RecoveryAssumption DEF Reject
    <3>2. Placing(stage') /\ stage'[s] \notin {"pending_approval", "approved"}
      <4>1. CASE Recovery[s] = "return"
        BY <1>1, <2>9, <4>1, PlacingRollback DEF Reject
      <4>2. CASE Recovery[s] = "hold"
        BY <1>1, <2>9, <4>2 DEF Reject, EngineHold, Placing, StageStates
      <4>3. CASE Recovery[s] = "reopen"
        <5> DEFINE f == [stage EXCEPT ![s] = "in_progress"]
        <5>1. Placing(f)
          BY <1>1 DEF Placing, StageStates
        <5>2. stage' = Engine(s, f, gate, docs)
          BY <2>9, <4>3 DEF Reject
        <5> HIDE DEF f
        <5>3. QED BY <5>1, <5>2, PlacingEngine
      <4>4. QED BY <3>1, <4>1, <4>2, <4>3 DEF Recoveries
    <3>3. QED BY <1>1, <3>1, <3>2 DEF Placing, Together
  <2>10. QED
    BY <1>3, <2>1, <2>2, <2>3, <2>4, <2>5, <2>6, <2>7, <2>8, <2>9 DEF StageRequest
<1>4. ASSUME ProjectRequest PROVE \A q \in Stages : Together(q)
  <2>1. UNCHANGED approval
    BY <1>4 DEF ProjectRequest, ChangeStatus, CreateReport, ResolveReport
  <2>2. stage' = stage \/ stage' = [stage EXCEPT ![cursor] = "in_progress"]
    BY <1>4 DEF ProjectRequest, ChangeStatus, CreateReport, ResolveReport, MaybeClearHold
  <2>3. Placing(stage')
    BY <1>1, <2>2 DEF Placing, StageStates
  <2>4. QED BY <1>2, <2>1, <2>3
<1>5. ASSUME NEW r \in Req, NEW s \in Stages, AutoAdvance(r, s) \/ Approve(r, s)
      PROVE  \A q \in Stages : Together(q)
  BY <1>1, <1>5 DEF AutoAdvance, Approve, Together
<1>6. ASSUME NEW r \in Req, QuietTail(r) PROVE \A q \in Stages : Together(q)
  BY <1>6 DEF QuietTail, Integrate, IntegrationFails, Complete, ReadInFlight, WriteCursor, Together
<1>7. ASSUME NEW r \in Req, MarkApproved(r) PROVE \A q \in Stages : Together(q)
  BY <1>1, <1>7, MarkStep DEF MarkApproved, Together
<1>8. ASSUME NEW r \in Req, EnterUnlocked(r) PROVE \A q \in Stages : Together(q)
  <2>1. Placing(stage') /\ UNCHANGED approval
    BY <1>1, <1>8, EnterStep DEF Placing, Placed
  <2>2. QED BY <1>2, <2>1
<1>9. QED BY <1>3, <1>4, <1>5, <1>6, <1>7, <1>8 DEF Next, Finalize, QuietTail

(* A stage is on an approver's desk with an approval to decide on, and none *)
(* is left open when it is approved, in any interleaving.                   *)
THEOREM DesksHaveApprovals == Spec => []ApprovalFollowsStage
<1>1. Init => ApprovalFollowsStage
  BY DEF Init, ApprovalFollowsStage
<1>2. TypeInv /\ ApprovalFollowsStage /\ [Next]_vars => ApprovalFollowsStage'
  <2> SUFFICES ASSUME TypeInv, ApprovalFollowsStage, [Next]_vars PROVE ApprovalFollowsStage'
    OBVIOUS
  <2>1. CASE UNCHANGED vars
    BY <2>1 DEF vars, stageVars, ApprovalFollowsStage
  <2>2. CASE Next
    BY <2>2, DeskStep DEF ApprovalFollowsStage, Together
  <2>3. QED BY <2>1, <2>2
<1>3. QED BY <1>1, <1>2, InitType, NextType, PTL DEF Spec
-----------------------------------------------------------------------------
(* One approval at a time, and until it marks its stage nothing changes the *)
(* evidence it was validated on.                                            *)
Evidenced ==
  /\ \A r, q \in Req : UnderWay(r) /\ UnderWay(q) => r = q
  /\ \A r \in Req : In(r, "validated") \/ In(r, "integrated") => Valid(fin[r].at)

LEMMA EvidenceStep ==
  ASSUME TypeInv, Evidenced, Next, ~ Overlap
  PROVE  Evidenced'
<1> USE DEF projectVars, stageVars, reportVars
<1>1. TypeOK /\ fin \in [Req -> [phase : Phases, at : 0 .. Last, rep : 0 .. Last]]
  BY DEF TypeInv, TypeOK
<1>2. ASSUME Alone, fin' = fin PROVE Evidenced'
  BY <1>2 DEF Evidenced, Alone, UnderWay, In
<1>3. ASSUME NEW s \in Stages, StageRequest(s) PROVE Evidenced'
  <2>1. Alone /\ fin' = fin
    BY <1>1, <1>3, StageRequestKept
       DEF StageRequest, SupplyDocument, RunTask, WaiveGate, RecordGate, TurnCheck, RecordSevere,
           SubmitFails, SubmitForReview, Reject, Submittable, Reached, Open
  <2>2. QED BY <1>2, <2>1
<1>4. ASSUME ProjectRequest PROVE Evidenced'
  <2>1. Alone /\ fin' = fin
    BY <1>1, <1>4, ProjectRequestKept
       DEF ProjectRequest, ChangeStatus, CreateReport, ResolveReport, Open
  <2>2. QED BY <1>2, <2>1
<1>5. ASSUME NEW r \in Req, NEW s \in Stages, AutoAdvance(r, s) \/ Approve(r, s)
      PROVE  Evidenced'
  <2>1. /\ Alone /\ Valid(s)
        /\ fin' = [fin EXCEPT ![r] = [phase |-> "validated", at |-> s, rep |-> 0]]
        /\ UNCHANGED <<deps, docs, gate, unmet>>
        /\ \A q \in Stages \ {s} : stage'[q] = stage[q]
    BY <1>1, <1>5 DEF AutoAdvance, Approve, Submittable, Reached, Open, Begin, TypeOK
  <2>2. deps[s] \subseteq Stages \ {s}
    <3>1. deps[s] \subseteq 1 .. s - 1 /\ deps[s] \subseteq Stages
      BY <1>1, DepsAreStages, TemplatesAssumption DEF TypeOK
    <3>2. \A q \in Stages : q \in 1 .. s - 1 => q # s
      BY DEF Stages
    <3>3. QED BY <3>1, <3>2
  <2>3. Valid(s)'
    BY <2>1, <2>2 DEF Valid, BlockedBy, WaitsOn
  <2>4. /\ fin'[r] = [phase |-> "validated", at |-> s, rep |-> 0]
        /\ \A q \in Req \ {r} : fin'[q] = fin[q] /\ fin[q].phase = "idle"
    BY <1>1, <2>1 DEF Alone, UnderWay
  <2>5. QED BY <2>3, <2>4 DEF Evidenced, UnderWay, In
<1>6. ASSUME NEW r \in Req, Finalize(r) PROVE Evidenced'
  <2>1. /\ UnderWay(r)
        /\ \A q \in Req \ {r} : fin'[q] = fin[q]
    BY <1>1, <1>6
       DEF Finalize, Integrate, IntegrationFails, MarkApproved, Complete, EnterUnlocked,
           ReadInFlight, WriteCursor, In, Goto, Done, UnderWay
  <2>2. \A q \in Req \ {r} : fin[q].phase = "idle"
    BY <2>1 DEF Evidenced, UnderWay
  <2>3. CASE Integrate(r)
    <3>1. /\ fin'[r].at = fin[r].at /\ In(r, "validated")
          /\ UNCHANGED <<deps, stage, docs, gate, unmet>>
      BY <1>1, <2>3 DEF Integrate, Goto
    <3>2. Valid(fin[r].at) /\ (Valid(fin[r].at))'
      BY <3>1 DEF Evidenced, Valid, BlockedBy, WaitsOn
    <3>3. QED BY <2>1, <2>2, <3>2 DEF Evidenced, UnderWay, In
  <2>4. CASE fin'[r].phase \notin {"validated", "integrated"}
    BY <2>1, <2>2, <2>4 DEF Evidenced, UnderWay, In
  <2>5. QED
    BY <1>1, <1>6, <2>3, <2>4
       DEF Finalize, IntegrationFails, MarkApproved, Complete, EnterUnlocked,
           ReadInFlight, WriteCursor, Goto, Done, NotUnderWay
<1>7. QED BY <1>3, <1>4, <1>5, <1>6 DEF Next

(* For requests that do not overlap a stage becomes approved only while its *)
(* documents, its gate, its checks and its dependencies are as required.    *)
THEOREM EvidenceBeforeApproval ==
  ASSUME ~ Overlap
  PROVE  Spec => ApprovedOnEvidence
<1>1. Init => Evidenced
  BY DEF Init, Evidenced, UnderWay, In, NotUnderWay
<1>2. TypeInv /\ Evidenced /\ [Next]_vars => Evidenced'
  <2> SUFFICES ASSUME TypeInv, Evidenced, [Next]_vars PROVE Evidenced'
    OBVIOUS
  <2>1. CASE UNCHANGED vars
    BY <2>1 DEF vars, projectVars, stageVars, Evidenced, UnderWay, In, Valid, BlockedBy, WaitsOn
  <2>2. QED BY <2>1, EvidenceStep
<1>3. TypeInv /\ Evidenced /\ [Next]_vars =>
        [\A s \in Stages : stage[s] # "approved" /\ stage'[s] = "approved" => Valid(s)]_vars
  <2> SUFFICES ASSUME TypeInv, Evidenced, Next, NEW s \in Stages,
                      stage[s] # "approved", stage'[s] = "approved"
               PROVE  Valid(s)
    OBVIOUS
  <2>1. TypeOK
    BY DEF TypeInv
  <2>2. ~ Kept
    BY DEF Kept, Keeps
  <2>3. ASSUME NEW r \in Req, EnterUnlocked(r) PROVE FALSE
    BY <2>3, EnterStep DEF Placed
  <2>4. PICK r \in Req : MarkApproved(r)
    BY <2>1, <2>2, <2>3, StepsOfNext, BeginKept, TailKept
  <2>5. s = fin[r].at /\ In(r, "integrated")
    <3>1. stage \in [Stages -> StageStates]
      BY <2>1 DEF TypeOK
    <3>2. QED BY <2>4, <3>1, MarkStep
  <2>6. QED BY <2>5 DEF Evidenced
<1>4. QED BY <1>1, <1>2, <1>3, InitType, NextType, PTL DEF Spec, ApprovedOnEvidence
-----------------------------------------------------------------------------
(***************************************************************************)
(* The CRM and its imports.                                                *)
(***************************************************************************)
(* The steps at which a conversion has its account.                         *)
Linking == {"contact", "deal", "stamp", "read"}

(* What a request is about, whatever it does.                               *)
CrmOps    == {"patch_lead", "convert", "delete_account", "create_deal", "patch_deal", "stage"}
TicketOps == {"submit", "approve", "reject", "unstage"}

IsRequest(q) ==
  q = [op |-> q.op, step |-> q.step, lead |-> q.lead, deal |-> q.deal, acc |-> q.acc, closed |-> q.closed,
       job |-> [ticket |-> q.job.ticket, file |-> q.job.file, refs |-> q.job.refs, plan |-> q.job.plan]]

Knows(q) ==
  /\ IsRequest(q)
  /\ q.op \in {"idle", "import"} \cup CrmOps \cup TicketOps
  /\ q.op \in {"patch_lead", "convert"} => q.lead \in Lead /\ lead[q.lead].state # "none"
  /\ q.op = "convert" => /\ q.deal \in Conv /\ q.acc \in Account
                         /\ q.step \in {"account", "undo"} \cup Linking
  /\ q.op = "delete_account" => q.acc \in Account /\ account[q.acc] # "none"
  /\ q.op = "create_deal" => q.deal \in Posted /\ q.acc \in Account /\ q.closed \in BOOLEAN
  /\ q.op = "patch_deal" => q.deal \in Deal /\ q.acc \in Account /\ deal[q.deal].state # "none"
  /\ q.op = "stage" => q.deal \in Deal /\ q.closed \in BOOLEAN /\ deal[q.deal].state # "none"
  /\ IF q.op \in TicketOps THEN q.job.ticket \in Ticket
     ELSE IF q.op = "import" THEN q.job.ticket \in Ticket \cup {"none"} ELSE q.job.ticket = "none"

DealRecords == [state : States, acc : Account \cup {"none"}, closed : BOOLEAN, made : BOOLEAN]
LeadRecords == [state : {"none", "live", "deleted"}, converted : BOOLEAN,
                to : Conv \cup {"none"}, acc : Account \cup {"none"}]

CrmTypes ==
  /\ account \in [Account -> States]
  /\ contact \in [Conv -> {"none", "live", "gone"}]
  /\ deal \in [Deal -> DealRecords]
  /\ lead \in [Lead -> LeadRecords]
  /\ req = [r \in Handler |-> req[r]]
  /\ \A r \in Handler : Knows(req[r])

(* What stands of conversion k, whose request is q.                         *)
Halfway(q, k) ==
  /\ q.step \in {"account", "contact"} => contact[k] = "none"
  /\ q.step \in {"account", "contact", "deal"} => deal[k].state = "none"
  /\ q.step = "account" => ~ There(account[k])
  /\ q.step \in Linking => There(account[q.acc]) \/ q.acc \in early \ {k}
  /\ q.step \in {"deal", "stamp", "read"} => contact[k] = "live"
  /\ q.step \in {"stamp", "read"} => There(deal[k].state)
  /\ There(deal[k].state) => contact[k] = "live"
  /\ contact[k] = "live" /\ q.acc = k => There(account[k])
  /\ q.acc # k => ~ There(account[k])
  /\ k \in torn \/ \A l \in Lead : LiveLead(l) /\ lead[l].to = k => q.step = "read" /\ l = q.lead

(* The account of conversion k is linked by no other conversion.            *)
LinkedBy(r, k) ==
  req[r].op = "convert" /\ req[r].step \in Linking /\ req[r].acc = k /\ req[r].deal # k
NamedBy(l, k)  == LiveLead(l) /\ lead[l].to \notin torn \cup {"none", k} /\ lead[l].acc = k
Apart(k) == (\A r \in Handler : ~ LinkedBy(r, k)) /\ \A l \in Lead : ~ NamedBy(l, k)

CrmInv ==
  /\ CrmTypes
  /\ \A r \in Handler, k \in Conv : Converts(r, k) => Halfway(req[r], k)
  /\ \A r, x \in Handler, k \in Conv : Converts(r, k) /\ Converts(x, k) => r = x
  /\ \A r \in Handler, k \in Conv : Converts(r, k) => k \in early \/ Apart(k)
  /\ \A l \in Lead : /\ lead[l].state = "none" => lead[l].to = "none"
                     /\ lead[l].to # "none" => lead[l].acc \in Account
  /\ ConversionWhole
-----------------------------------------------------------------------------
(* The requests of the inbox.                                               *)
Statuses == {"none", "pending", "approved", "rejected"}

InboxTypes ==
  /\ inbox \in [Ticket -> [status : Statuses, stored : BOOLEAN, file : Files \cup {<<>>}]]
  /\ {applied, contended} \subseteq SUBSET Ticket /\ crowded \in BOOLEAN

OnTicket(r, t) == req[r].job.ticket = t
Decides(r, t)  == OnTicket(r, t) /\ req[r].op # "submit"

TicketInv(t) ==
  /\ inbox[t].status = "pending" => inbox[t].stored
  /\ \A r \in Handler : OnTicket(r, t) =>
       /\ req[r].op = "submit" => /\ inbox[t].status = "none" /\ req[r].step \in {"save", "ask"}
                                  /\ req[r].step = "ask" => inbox[t].stored
       /\ req[r].op # "submit" => inbox[t].status # "none"
       /\ req[r].op = "unstage" => inbox[t].status \in {"approved", "rejected"}
  /\ \A r, x \in Handler : OnTicket(r, t) /\ req[r].op = "submit" /\ OnTicket(x, t) => r = x

DecidedOnce(t) ==
  /\ \A r, x \in Handler : Decides(r, t) /\ Decides(x, t) => r = x
  /\ \A r \in Handler : OnTicket(r, t) /\ req[r].op \in {"approve", "import", "reject"} => Pending(t)
  /\ t \in applied => \/ inbox[t].status = "approved"
                      \/ \E r \in Handler : OnTicket(r, t) /\ req[r].op = "import"

InboxInv == /\ InboxTypes
            /\ \A t \in Ticket : TicketInv(t) /\ (t \in contended \/ DecidedOnce(t))
-----------------------------------------------------------------------------
(* The deals imports made.                                                  *)
Made(a) == {d \in Posted : LiveDeal(d) /\ deal[d].made /\ deal[d].acc = a}

Lines(f) == f = [i \in DOMAIN f |-> f[i]] /\ DOMAIN f \subseteq Nat

PlanOK(plan) ==
  /\ Lines(plan)
  /\ \A i \in DOMAIN plan :
       /\ plan[i] = [acc |-> plan[i].acc, stage |-> plan[i].stage, target |-> plan[i].target]
       /\ plan[i].acc \in Account /\ plan[i].target \in Posted \cup {"none"}
       /\ plan[i].target # "none" => deal[plan[i].target].state # "none"

Fits(plan) ==
  \A i \in DOMAIN plan :
    IF plan[i].target = "none" THEN Made(plan[i].acc) = {}
    ELSE deal[plan[i].target].made => deal[plan[i].target].acc = plan[i].acc

JobOK(q) ==
  q.op = "import" =>
    /\ q.step \in {"refs", "match", "apply"}
    /\ q.job.file \in Files \cup {<<>>} /\ q.job.refs \subseteq Account
    /\ PlanOK(q.job.plan)

ImportInv ==
  /\ \A r \in Handler : JobOK(req[r])
  /\ \A r \in Handler : req[r].op = "submit" => req[r].job.file \in Files
  /\ ~ crowded =>
       /\ \A r, x \in Importing : r = x
       /\ \A a \in Account : \A d, e \in Made(a) : d = e
       /\ \A r \in Importing : Fits(req[r].job.plan)

ImportsInv == CrmInv /\ InboxInv /\ ImportInv
-----------------------------------------------------------------------------
LEMMA CrmStart == ImportsInit => CrmInv
<1> SUFFICES ASSUME ImportsInit PROVE CrmInv
  OBVIOUS
<1> USE DEF ImportsInit, CrmInit, States, NoDeal, Idle, NoJob
<1>1. CrmTypes
  <2>1. account \in [Account -> States] /\ contact \in [Conv -> {"none", "live", "gone"}]
    OBVIOUS
  <2>2. deal \in [Deal -> DealRecords]
    BY DEF DealRecords
  <2>3. lead \in [Lead -> LeadRecords]
    BY DEF LeadRecords
  <2>4. \A r \in Handler : Knows(req[r])
    BY DEF Knows, IsRequest, CrmOps, TicketOps
  <2>5. QED BY <2>1, <2>2, <2>3, <2>4 DEF CrmTypes
<1>2. \A r \in Handler, k \in Conv : ~ Converts(r, k)
  BY DEF Converts
<1>3. \A l \in Lead : lead[l].to = "none" /\ ~ LiveLead(l)
  BY DEF LiveLead
<1>4. \A k \in Conv : account[k] = "none" /\ contact[k] = "none" /\ deal[k].state = "none"
  BY DEF Account, Deal
<1>5. ConversionWhole
  BY <1>3, <1>4 DEF ConversionWhole, There
<1>6. QED BY <1>1, <1>2, <1>3, <1>5 DEF CrmInv

(* A step of one request, of which the others know as much as before.       *)
LEMMA KnownKept ==
  ASSUME CrmTypes, NEW r \in Handler, NEW q, req' = [req EXCEPT ![r] = q], Knows(q)',
         account' \in [Account -> States], contact' \in [Conv -> {"none", "live", "gone"}],
         deal' \in [Deal -> DealRecords], lead' \in [Lead -> LeadRecords],
         \A a \in Account : account[a] # "none" => account'[a] # "none",
         \A d \in Deal : deal[d].state # "none" => deal'[d].state # "none",
         \A l \in Lead : lead[l].state # "none" => lead'[l].state # "none"
  PROVE  CrmTypes'
<1>1. req' = [x \in Handler |-> req'[x]] /\ req'[r] = q /\ \A x \in Handler : x # r => req'[x] = req[x]
  BY DEF CrmTypes
<1>2. \A x \in Handler : Knows(req[x])'
  <2> TAKE x \in Handler
  <2>1. CASE x = r
    BY <1>1, <2>1
  <2>2. CASE x # r
    <3>1. PICK p : p = req[x]
      OBVIOUS
    <3>2. Knows(p)
      BY <3>1 DEF CrmTypes
    <3>3. IsRequest(p)'
      BY <3>2 DEF Knows, IsRequest
    <3>4. Knows(p)'
      BY <3>2, <3>3 DEF Knows
    <3>5. QED BY <1>1, <2>2, <3>1, <3>4
  <2>3. QED BY <2>1, <2>2
<1>3. QED BY <1>1, <1>2 DEF CrmTypes

(* A step that neither belongs to a conversion nor takes anything of one    *)
(* away.                                                                    *)
LEMMA QuietKept ==
  ASSUME CrmInv, CrmTypes', contact' = contact, broken \subseteq broken', torn' = torn, early' = early,
         \A k \in Conv : There(deal'[k].state) = There(deal[k].state),
         \A k \in Conv : deal[k].state = "none" => deal'[k].state = "none",
         \A k \in Conv : There(account'[k]) = There(account[k]),
         \A a \in Account : There(account[a]) => There(account'[a]),
         \A l \in Lead : /\ lead'[l].to = lead[l].to /\ lead'[l].acc = lead[l].acc
                         /\ lead'[l].state = "none" => lead[l].state = "none"
                         /\ lead'[l].state = "live" => lead[l].state = "live" \/ lead[l].to = "none",
         \A x \in Handler, k \in Conv :
           /\ Converts(x, k)' => req'[x] = req[x]
           /\ Converts(x, k) => Converts(x, k)' \/ k \in broken'
  PROVE  CrmInv'
<1>1. \A x \in Handler, k \in Conv : Converts(x, k)' => Converts(x, k) /\ req'[x] = req[x]
  BY DEF Converts
<1>2. \A x \in Handler, k \in Conv : Converts(x, k)' => Halfway(req[x], k)'
  <2> SUFFICES ASSUME NEW x \in Handler, NEW k \in Conv, Converts(x, k)'
               PROVE  Halfway(req[x], k)'
    OBVIOUS
  <2>1. PICK q : q = req[x]
    OBVIOUS
  <2>2. Halfway(q, k) /\ Converts(x, k) /\ req'[x] = q
    BY <1>1, <2>1 DEF CrmInv
  <2>3. q.acc \in Account
    BY <2>1, <2>2 DEF CrmInv, CrmTypes, Knows, Converts
  <2>4. "none" # k
    BY NameAssumption
  <2>5. k \in torn' \/ \A l \in Lead : LiveLead(l)' /\ lead'[l].to = k => q.step = "read" /\ l = q.lead
    BY <2>2, <2>4 DEF Halfway, LiveLead
  <2>6. There(account[q.acc]) => There(account'[q.acc])
    BY <2>3
  <2>7. Halfway(q, k)'
    BY <2>2, <2>5, <2>6 DEF Halfway
  <2>8. QED BY <2>2, <2>7
<1>3. \A x, y \in Handler, k \in Conv : Converts(x, k)' /\ Converts(y, k)' => x = y
  BY <1>1 DEF CrmInv
<1>4. \A x \in Handler, k \in Conv : Converts(x, k)' => k \in early' \/ Apart(k)'
  <2> SUFFICES ASSUME NEW x \in Handler, NEW k \in Conv, Converts(x, k)', k \notin early
               PROVE  Apart(k)'
    OBVIOUS
  <2>1. Apart(k)
    BY <1>1 DEF CrmInv
  <2>2. ASSUME NEW r \in Handler, LinkedBy(r, k)' PROVE FALSE
    <3>1. req'[r].op = "convert" /\ req'[r].deal \in Conv
      BY <2>2 DEF LinkedBy, CrmTypes, Knows
    <3>2. req'[r] = req[r]
      BY <3>1 DEF Converts
    <3>3. QED BY <2>1, <2>2, <3>2 DEF Apart, LinkedBy
  <2>3. ASSUME NEW l \in Lead, NamedBy(l, k)' PROVE FALSE
    BY <2>1, <2>3 DEF Apart, NamedBy, LiveLead
  <2>4. QED BY <2>2, <2>3 DEF Apart
<1>5. \A l \in Lead : /\ lead'[l].state = "none" => lead'[l].to = "none"
                      /\ lead'[l].to # "none" => lead'[l].acc \in Account
  BY DEF CrmInv
<1>6. \A l \in Lead : LiveLead(l)' /\ lead'[l].to \notin torn' \cup {"none"} => Points(l)'
  <2> SUFFICES ASSUME NEW l \in Lead, LiveLead(l)', lead'[l].to \notin torn' \cup {"none"}
               PROVE  Points(l)'
    OBVIOUS
  <2>1. lead[l].to \in Conv /\ lead[l].acc \in Account
    BY DEF CrmInv, CrmTypes, LeadRecords
  <2>2. LiveLead(l)
    BY DEF LiveLead
  <2>3. Points(l)
    BY <2>2 DEF CrmInv, ConversionWhole
  <2>4. QED BY <2>1, <2>3 DEF Points
<1>7. \A k \in Conv \ broken' :
        (\A x \in Handler : ~ Converts(x, k)')
          => /\ There(contact'[k]) <=> There(deal'[k].state)
             /\ There(account'[k]) => There(contact'[k])
  <2> SUFFICES ASSUME NEW k \in Conv \ broken', \A x \in Handler : ~ Converts(x, k)'
               PROVE  /\ There(contact'[k]) <=> There(deal'[k].state)
                      /\ There(account'[k]) => There(contact'[k])
    OBVIOUS
  <2>1. \A x \in Handler : ~ Converts(x, k)
    OBVIOUS
  <2>2. /\ There(contact[k]) <=> There(deal[k].state)
        /\ There(account[k]) => There(contact[k])
    BY <2>1 DEF CrmInv, ConversionWhole
  <2>3. QED BY <2>2
<1>8. ConversionWhole'
  BY <1>6, <1>7 DEF ConversionWhole
<1>9. QED BY <1>2, <1>3, <1>4, <1>5, <1>8 DEF CrmInv

(* A step of conversion k, whose request r becomes q.                       *)
Unmade(a) == \A x \in Handler : ~ Converts(x, a)

ConvertMove(r, k, q) ==
  /\ req' = [req EXCEPT ![r] = q] /\ broken' = broken
  /\ early \subseteq early' /\ torn \subseteq torn'
  /\ \A x \in Handler : x # r => ~ Converts(x, k)
  /\ req[r].op = "convert" => req[r].deal = k
  /\ req[r].op = "convert" \/ k \in early \/ Apart(k)
  /\ There(account[k]) => There(account'[k]) \/ req[r].op = "convert"
  /\ q.op = "convert" => /\ q.deal = k /\ Halfway(q, k)'
                         /\ q.step \in Linking => q.acc \in early' \cup {k} \/ Unmade(q.acc)
  /\ q.op # "convert" => /\ There(contact'[k]) <=> There(deal'[k].state)
                         /\ There(account'[k]) => There(contact'[k])
  /\ \A j \in Conv : j # k => contact'[j] = contact[j] /\ deal'[j] = deal[j] /\ account'[j] = account[j]
  /\ \A a \in House : account'[a] = account[a]
  /\ \A l \in Lead : /\ lead'[l].state = lead[l].state
                     /\ \/ lead'[l] = lead[l]
                        \/ /\ lead'[l].to = k /\ lead'[l].acc \in Account /\ lead[l].state # "none"
                           /\ lead'[l].acc \in early' \cup {k} \/ Unmade(lead'[l].acc)
                     /\ lead'[l].state = "live" /\ lead'[l].to = k /\ k \notin torn' => Points(l)'

LEMMA ConvertKept ==
  ASSUME CrmInv, CrmTypes', NEW r \in Handler, NEW k \in Conv, NEW q, ConvertMove(r, k, q)
  PROVE  CrmInv'
<1> USE DEF ConvertMove
<1>1. req'[r] = q /\ \A x \in Handler : x # r => req'[x] = req[x]
  BY DEF CrmInv, CrmTypes
<1>2. \A x \in Handler, j \in Conv : Converts(x, j)' => \/ (x = r /\ j = k /\ q.op = "convert")
                                                     \/ (x # r /\ j # k /\ Converts(x, j))
  <2> SUFFICES ASSUME NEW x \in Handler, NEW j \in Conv, Converts(x, j)'
               PROVE  \/ (x = r /\ j = k /\ q.op = "convert")
                      \/ (x # r /\ j # k /\ Converts(x, j))
    OBVIOUS
  <2>1. CASE x = r
    BY <1>1, <2>1 DEF Converts
  <2>2. CASE x # r
    BY <1>1, <2>2 DEF Converts
  <2>3. QED BY <2>1, <2>2
<1>3. req[r].op = "convert" /\ k \notin early => Apart(k)
  BY DEF CrmInv, Converts
<1>4. \A x \in Handler, j \in Conv : Converts(x, j)' => Halfway(req[x], j)'
  <2> SUFFICES ASSUME NEW x \in Handler, NEW j \in Conv, Converts(x, j)'
               PROVE  Halfway(req[x], j)'
    OBVIOUS
  <2>1. CASE x = r /\ j = k /\ q.op = "convert"
    BY <1>1, <2>1
  <2>2. CASE x # r /\ j # k /\ Converts(x, j)
    <3>1. PICK p : p = req[x]
      OBVIOUS
    <3>2. Halfway(p, j) /\ req'[x] = p
      BY <1>1, <2>2, <3>1 DEF CrmInv
    <3>3. p.acc \in Account
      BY <2>2, <3>1 DEF CrmInv, CrmTypes, Knows, Converts
    <3>4. account'[j] = account[j] /\ contact'[j] = contact[j] /\ deal'[j] = deal[j]
      BY <2>2
    <3>5. j \in torn' \/ \A l \in Lead : LiveLead(l)' /\ lead'[l].to = j => p.step = "read" /\ l = p.lead
      BY <2>2, <3>2 DEF Halfway, LiveLead
    <3>6. p.step \in Linking => There(account'[p.acc]) \/ p.acc \in early' \ {j}
      <4>1. CASE p.acc # k
        <5>1. account'[p.acc] = account[p.acc]
          BY <3>3, <4>1 DEF Account
        <5>2. QED BY <3>2, <5>1 DEF Halfway
      <4>2. CASE p.acc = k /\ p.step \in Linking
        <5>1. ~ Apart(k)
          BY <2>2, <3>1, <4>2 DEF Apart, LinkedBy, Converts
        <5>2. There(account[k]) \/ k \in early
          BY <3>2, <4>2 DEF Halfway
        <5>3. There(account'[k]) \/ k \in early
          BY <1>3, <5>1, <5>2
        <5>4. QED BY <2>2, <4>2, <5>3
      <4>3. QED BY <4>1, <4>2
    <3>7. Halfway(p, j)'
      BY <3>2, <3>4, <3>5, <3>6 DEF Halfway
    <3>8. QED BY <3>2, <3>7
  <2>3. QED BY <1>2, <2>1, <2>2
<1>5. \A x, y \in Handler, j \in Conv : Converts(x, j)' /\ Converts(y, j)' => x = y
  BY <1>2 DEF CrmInv
<1>6. \A x \in Handler, j \in Conv : Converts(x, j)' => j \in early' \/ Apart(j)'
  <2> SUFFICES ASSUME NEW x \in Handler, NEW j \in Conv, Converts(x, j)', j \notin early'
               PROVE  Apart(j)'
    OBVIOUS
  <2>1. j \notin early
    OBVIOUS
  <2>2. Apart(j)
    BY <1>2, <1>3, <2>1 DEF CrmInv
  <2>3. j # k => ~ Unmade(j)
    BY <1>2 DEF Unmade
  <2>4. ASSUME NEW y \in Handler, LinkedBy(y, j)' PROVE FALSE
    <3>1. CASE y # r
      BY <1>1, <2>2, <2>4, <3>1 DEF Apart, LinkedBy
    <3>2. CASE y = r
      <4>1. q.op = "convert" /\ q.step \in Linking /\ q.acc = j /\ q.deal # j
        BY <1>1, <2>4, <3>2 DEF LinkedBy
      <4>2. QED BY <2>3, <4>1
    <3>3. QED BY <3>1, <3>2
  <2>5. ASSUME NEW l \in Lead, NamedBy(l, j)' PROVE FALSE
    <3>1. LiveLead(l)' /\ lead'[l].to \notin torn' \cup {"none", j} /\ lead'[l].acc = j
      BY <2>5 DEF NamedBy
    <3>2. CASE lead'[l] = lead[l]
      BY <2>2, <3>1, <3>2 DEF Apart, NamedBy, LiveLead
    <3>3. CASE lead'[l] # lead[l]
      <4>1. lead'[l].to = k /\ (lead'[l].acc \in early' \cup {k} \/ Unmade(lead'[l].acc))
        BY <3>3
      <4>2. QED BY <2>3, <3>1, <4>1
    <3>4. QED BY <3>2, <3>3
  <2>6. QED BY <2>4, <2>5 DEF Apart
<1>7. \A l \in Lead : /\ lead'[l].state = "none" => lead'[l].to = "none"
                      /\ lead'[l].to # "none" => lead'[l].acc \in Account
  BY DEF CrmInv
<1>8. \A l \in Lead : LiveLead(l)' /\ lead'[l].to \notin torn' \cup {"none"} => Points(l)'
  <2> SUFFICES ASSUME NEW l \in Lead, LiveLead(l)', lead'[l].to \notin torn' \cup {"none"}
               PROVE  Points(l)'
    OBVIOUS
  <2>1. CASE lead'[l].to = k
    BY <2>1 DEF LiveLead
  <2>2. CASE lead'[l].to # k
    <3>1. /\ lead'[l] = lead[l] /\ lead[l].to \in Conv /\ lead[l].acc \in Account /\ LiveLead(l)
          /\ lead[l].to \notin torn \cup {"none", k}
      BY <2>2 DEF CrmInv, CrmTypes, LeadRecords, LiveLead
    <3>2. Points(l)
      BY <3>1 DEF CrmInv, ConversionWhole
    <3>3. lead[l].acc \notin early' => There(account'[lead[l].acc])
      <4>1. CASE lead[l].acc # k
        <5>1. account'[lead[l].acc] = account[lead[l].acc]
          BY <3>1, <4>1 DEF Account
        <5>2. QED BY <3>2, <5>1 DEF Points
      <4>2. CASE lead[l].acc = k
        <5>1. ~ Apart(k)
          BY <3>1, <4>2 DEF Apart, NamedBy
        <5>2. QED BY <1>3, <3>2, <4>2, <5>1 DEF Points
      <4>3. QED BY <4>1, <4>2
    <3>4. QED BY <2>2, <3>1, <3>2, <3>3 DEF Points
  <2>3. QED BY <2>1, <2>2
<1>9. \A j \in Conv \ broken' :
        (\A x \in Handler : ~ Converts(x, j)')
          => /\ There(contact'[j]) <=> There(deal'[j].state)
             /\ There(account'[j]) => There(contact'[j])
  <2> SUFFICES ASSUME NEW j \in Conv \ broken', \A x \in Handler : ~ Converts(x, j)'
               PROVE  /\ There(contact'[j]) <=> There(deal'[j].state)
                      /\ There(account'[j]) => There(contact'[j])
    OBVIOUS
  <2>1. CASE j = k
    <3>1. q.op # "convert"
      BY <1>1, <2>1 DEF Converts
    <3>2. QED BY <2>1, <3>1
  <2>2. CASE j # k
    <3>1. \A x \in Handler : ~ Converts(x, j)
      BY <1>1, <2>2 DEF Converts
    <3>2. /\ There(contact[j]) <=> There(deal[j].state)
          /\ There(account[j]) => There(contact[j])
      BY <3>1 DEF CrmInv, ConversionWhole
    <3>3. QED BY <2>2, <3>2
  <2>3. QED BY <2>1, <2>2
<1>10. ConversionWhole'
  BY <1>8, <1>9 DEF ConversionWhole
<1>11. QED BY <1>4, <1>5, <1>6, <1>7, <1>10 DEF CrmInv
-----------------------------------------------------------------------------
(* The steps that do not belong to a conversion.                            *)
LEMMA OfCrm ==
  ASSUME CrmInv
  PROVE  /\ account \in [Account -> States] /\ contact \in [Conv -> {"none", "live", "gone"}]
         /\ deal \in [Deal -> DealRecords] /\ lead \in [Lead -> LeadRecords]
         /\ req = [r \in Handler |-> req[r]] /\ CrmTypes
         /\ \A r \in Handler : Knows(req[r]) /\ IsRequest(req[r])
         /\ House \subseteq Account /\ Conv \subseteq Account /\ Conv \subseteq Deal /\ Posted \subseteq Deal
BY DEF CrmInv, CrmTypes, Knows, Account, Deal

(* A request that is not a conversion takes or answers a step.              *)
LEMMA NotConverting ==
  ASSUME CrmInv, NEW r \in Handler, NEW q, req' = [req EXCEPT ![r] = q],
         q.op # "convert", req[r].op # "convert" \/ req[r].deal \in broken'
  PROVE  /\ \A x \in Handler : x # r => req'[x] = req[x]
         /\ \A x \in Handler, k \in Conv :
              /\ Converts(x, k)' => req'[x] = req[x]
              /\ Converts(x, k) => Converts(x, k)' \/ k \in broken'
<1>1. req'[r] = q /\ \A x \in Handler : x # r => req'[x] = req[x]
  BY DEF CrmInv, CrmTypes
<1>2. QED BY <1>1 DEF Converts

(* Nothing but the request itself changes.                                  *)
LEMMA OnlyRequest ==
  ASSUME CrmInv, NEW r \in Handler, NEW q, req' = [req EXCEPT ![r] = q], Knows(q),
         q.op # "convert", req[r].op # "convert" \/ req[r].deal \in broken',
         account' = account, contact' = contact, deal' = deal, lead' = lead, broken \subseteq broken',
         torn' = torn, early' = early
  PROVE  CrmInv'
<1>1. Knows(q)'
  <2>1. IsRequest(q)'
    BY DEF Knows, IsRequest
  <2>2. QED BY <2>1 DEF Knows
<1>2. CrmTypes'
  BY <1>1, KnownKept, OfCrm
<1>3. QED BY <1>2, NotConverting, QuietKept

LEMMA IdleKnows == Knows(Idle) /\ Idle.op = "idle" /\ Idle.deal = "none" /\ Idle.job.ticket = "none"
BY DEF Knows, IsRequest, Idle, NoJob, CrmOps, TicketOps

LEMMA CreateLeadStep == ASSUME CrmInv, NEW l \in Lead, CreateLead(l) PROVE CrmInv'
<1> USE DEF CreateLead, marks
<1>1. lead' \in [Lead -> LeadRecords] /\ lead'[l].state = "live" /\ lead'[l].to = lead[l].to /\ lead'[l].acc = lead[l].acc
      /\ \A m \in Lead : m # l => lead'[m] = lead[m]
  BY OfCrm DEF LeadRecords
<1>2. CrmTypes'
  <2>1. \A x \in Handler : Knows(req[x])'
    <3> TAKE x \in Handler
    <3>1. Knows(req[x])
      BY OfCrm
    <3>2. QED BY <1>1, <3>1 DEF Knows, IsRequest
  <2>2. QED BY <1>1, <2>1, OfCrm DEF CrmTypes
<1>3. lead[l].to = "none"
  BY DEF CrmInv
<1>4. QED BY <1>1, <1>2, <1>3, QuietKept DEF Converts

LEMMA DeleteLeadStep == ASSUME CrmInv, NEW l \in Lead, DeleteLead(l) PROVE CrmInv'
<1> USE DEF DeleteLead, marks
<1>1. lead' \in [Lead -> LeadRecords] /\ lead'[l].state = "deleted" /\ lead'[l].to = lead[l].to /\ lead'[l].acc = lead[l].acc
      /\ \A m \in Lead : m # l => lead'[m] = lead[m]
  BY OfCrm DEF LeadRecords
<1>2. CrmTypes'
  <2>1. \A x \in Handler : Knows(req[x])'
    <3> TAKE x \in Handler
    <3>1. Knows(req[x])
      BY OfCrm
    <3>2. QED BY <1>1, <3>1 DEF Knows, IsRequest
  <2>2. QED BY <1>1, <2>1, OfCrm DEF CrmTypes
<1>3. QED BY <1>1, <1>2, QuietKept DEF Converts

LEMMA CreateAccountStep == ASSUME CrmInv, NEW a \in House, CreateAccount(a) PROVE CrmInv'
<1> USE DEF CreateAccount, marks
<1>1. account' \in [Account -> States] /\ account'[a] = "live" /\ \A b \in Account : b # a => account'[b] = account[b]
  BY OfCrm DEF States
<1>2. CrmTypes'
  <2>1. \A x \in Handler : Knows(req[x])'
    <3> TAKE x \in Handler
    <3>1. Knows(req[x])
      BY OfCrm
    <3>2. QED BY <1>1, <3>1 DEF Knows, IsRequest
  <2>2. QED BY <1>1, <2>1, OfCrm DEF CrmTypes
<1>3. \A k \in Conv : k # a
  BY NameAssumption
<1>4. There(account'[a])
  BY <1>1 DEF There
<1>5. QED BY <1>1, <1>2, <1>3, <1>4, OfCrm, QuietKept DEF Converts

LEMMA DeleteDealStep == ASSUME CrmInv, NEW d \in Deal, DeleteDeal(d) PROVE CrmInv'
<1> USE DEF DeleteDeal, marks
<1>1. deal' \in [Deal -> DealRecords] /\ deal'[d].state = "deleted" /\ deal[d].state = "live"
      /\ \A e \in Deal : e # d => deal'[e] = deal[e]
  BY OfCrm DEF DealRecords, States, LiveDeal
<1>2. CrmTypes'
  <2>1. \A x \in Handler : Knows(req[x])'
    <3> TAKE x \in Handler
    <3>1. Knows(req[x])
      BY OfCrm
    <3>2. QED BY <1>1, <3>1 DEF Knows, IsRequest
  <2>2. QED BY <1>1, <2>1, OfCrm DEF CrmTypes
<1>3. \A e \in Deal : There(deal'[e].state) = There(deal[e].state)
  BY <1>1 DEF There
<1>4. QED BY <1>1, <1>2, <1>3, OfCrm, QuietKept DEF Converts

(* Requests that are received: what they ask for was there.                 *)
LEMMA AskStep ==
  ASSUME CrmInv, NEW r \in Handler, NEW q, Receive(r, q), Knows(q), q.op # "convert", UNCHANGED crmVars
  PROVE  CrmInv'
<1>1. req[r].op # "convert" /\ req' = [req EXCEPT ![r] = q]
  BY DEF Receive
<1>2. account' = account /\ contact' = contact /\ deal' = deal /\ lead' = lead
      /\ broken' = broken /\ torn' = torn /\ early' = early
  BY DEF crmVars, marks
<1>3. QED BY <1>1, <1>2, OnlyRequest

LEMMA RequestStep ==
  ASSUME CrmInv, NEW r \in Handler,
         \/ \E l \in Lead : PatchLead(r, l)
         \/ \E a \in Account : \/ DeleteAccount(r, a)
                               \/ \E d \in Deal : \/ PatchDeal(r, d, a)
                                                  \/ \E c \in BOOLEAN : CreateDeal(r, d, a, c)
         \/ \E d \in Deal, c \in BOOLEAN : ChangeDealStage(r, d, c)
  PROVE  CrmInv'
<1>1. ASSUME NEW l \in Lead, PatchLead(r, l) PROVE CrmInv'
  <2>1. PICK q : q = Ask("patch_lead", l, "none", "none", FALSE)
    OBVIOUS
  <2>2. Knows(q) /\ q.op # "convert"
    <3>1. IsRequest(q) /\ q.op = "patch_lead" /\ q.job.ticket = "none"
      BY <2>1 DEF Ask, IsRequest, NoJob
    <3>2. q.lead \in Lead /\ lead[q.lead].state # "none"
      BY <1>1, <2>1 DEF Ask, PatchLead, LiveLead
    <3>3. QED BY <3>1, <3>2 DEF Knows, CrmOps, TicketOps
  <2>3. QED BY <1>1, <2>1, <2>2, AskStep DEF PatchLead
<1>2. ASSUME NEW a \in Account, DeleteAccount(r, a) PROVE CrmInv'
  <2>1. PICK q : q = Ask("delete_account", "none", "none", a, FALSE)
    OBVIOUS
  <2>2. Knows(q) /\ q.op # "convert"
    <3>1. IsRequest(q) /\ q.op = "delete_account" /\ q.job.ticket = "none"
      BY <2>1 DEF Ask, IsRequest, NoJob
    <3>2. q.acc \in Account /\ account[q.acc] # "none"
      BY <1>2, <2>1 DEF Ask, DeleteAccount, LiveAccount
    <3>3. QED BY <3>1, <3>2 DEF Knows, CrmOps, TicketOps
  <2>3. QED BY <1>2, <2>1, <2>2, AskStep DEF DeleteAccount
<1>3. ASSUME NEW a \in Account, NEW d \in Deal, PatchDeal(r, d, a) PROVE CrmInv'
  <2>1. PICK q : q = Ask("patch_deal", "none", d, a, FALSE)
    OBVIOUS
  <2>2. Knows(q) /\ q.op # "convert"
    <3>1. IsRequest(q) /\ q.op = "patch_deal" /\ q.job.ticket = "none"
      BY <2>1 DEF Ask, IsRequest, NoJob
    <3>2. q.deal \in Deal /\ q.acc \in Account /\ deal[q.deal].state # "none"
      BY <1>3, <2>1 DEF Ask, PatchDeal, LiveDeal
    <3>3. QED BY <3>1, <3>2 DEF Knows, CrmOps, TicketOps
  <2>3. QED BY <1>3, <2>1, <2>2, AskStep DEF PatchDeal
<1>4. ASSUME NEW a \in Account, NEW d \in Deal, NEW c \in BOOLEAN, CreateDeal(r, d, a, c) PROVE CrmInv'
  <2>1. PICK q : q = Ask("create_deal", "none", d, a, c)
    OBVIOUS
  <2>2. Knows(q) /\ q.op # "convert"
    <3>1. IsRequest(q) /\ q.op = "create_deal" /\ q.job.ticket = "none"
      BY <2>1 DEF Ask, IsRequest, NoJob
    <3>2. q.deal \in Posted /\ q.acc \in Account /\ q.closed \in BOOLEAN
      BY <1>4, <2>1 DEF Ask, CreateDeal
    <3>3. QED BY <3>1, <3>2 DEF Knows, CrmOps, TicketOps
  <2>3. QED BY <1>4, <2>1, <2>2, AskStep DEF CreateDeal
<1>5. ASSUME NEW d \in Deal, NEW c \in BOOLEAN, ChangeDealStage(r, d, c) PROVE CrmInv'
  <2>1. PICK q : q = Ask("stage", "none", d, "none", c)
    OBVIOUS
  <2>2. Knows(q) /\ q.op # "convert"
    <3>1. IsRequest(q) /\ q.op = "stage" /\ q.job.ticket = "none"
      BY <2>1 DEF Ask, IsRequest, NoJob
    <3>2. q.deal \in Deal /\ q.closed \in BOOLEAN /\ deal[q.deal].state # "none"
      BY <1>5, <2>1 DEF Ask, ChangeDealStage, LiveDeal
    <3>3. QED BY <3>1, <3>2 DEF Knows, CrmOps, TicketOps
  <2>3. QED BY <1>5, <2>1, <2>2, AskStep DEF ChangeDealStage
<1>6. QED BY <1>1, <1>2, <1>3, <1>4, <1>5

(* Their writes.                                                            *)
LEMMA AnswerStep ==
  ASSUME CrmInv, NEW r \in Handler, Answer(r), req[r].op # "convert",
         account' \in [Account -> States], deal' \in [Deal -> DealRecords], lead' \in [Lead -> LeadRecords],
         contact' = contact, UNCHANGED marks,
         \A a \in Account : /\ There(account[a]) = There(account'[a])
                            /\ account[a] # "none" => account'[a] # "none",
         \A d \in Deal : deal[d].state # "none" => deal'[d].state # "none",
         \A k \in Conv : deal'[k].state = deal[k].state,
         \A l \in Lead : lead'[l].to = lead[l].to /\ lead'[l].acc = lead[l].acc /\ lead'[l].state = lead[l].state
  PROVE  CrmInv'
<1>1. PICK q : q = Idle
  OBVIOUS
<1>2. req' = [req EXCEPT ![r] = q]
  BY <1>1 DEF Answer, Become
<1>3. Knows(q)'
  BY <1>1 DEF Knows, IsRequest, Idle, NoJob, CrmOps, TicketOps
<1>4. CrmTypes'
  BY <1>2, <1>3, OfCrm, KnownKept
<1>5. q.op # "convert"
  BY <1>1 DEF Idle
<1>6. broken' = broken /\ torn' = torn /\ early' = early
  BY DEF marks
<1>7. QED BY <1>2, <1>4, <1>5, <1>6, OfCrm, NotConverting, QuietKept

LEMMA PatchLeadWriteStep == ASSUME CrmInv, NEW r \in Handler, PatchLeadWrite(r) PROVE CrmInv'
<1> USE DEF PatchLeadWrite
<1>1. req[r].lead \in Lead
  BY OfCrm DEF Knows
<1>2. /\ lead' \in [Lead -> LeadRecords]
      /\ \A l \in Lead : lead'[l].to = lead[l].to /\ lead'[l].acc = lead[l].acc /\ lead'[l].state = lead[l].state
  <2>1. PICK k : k = req[r].lead
    OBVIOUS
  <2>2. PICK e : e = [lead[k] EXCEPT !.converted = FALSE]
    OBVIOUS
  <2>3. k \in Lead /\ lead[k] \in LeadRecords
    BY <1>1, <2>1, OfCrm
  <2>4. e \in LeadRecords /\ e.to = lead[k].to /\ e.acc = lead[k].acc /\ e.state = lead[k].state
    BY <2>2, <2>3 DEF LeadRecords
  <2>5. lead' = [lead EXCEPT ![k] = e]
    BY <2>1, <2>2
  <2>6. QED BY <2>3, <2>4, <2>5, OfCrm
<1>3. QED BY <1>2, OfCrm, AnswerStep

LEMMA DeleteAccountWriteStep == ASSUME CrmInv, NEW r \in Handler, DeleteAccountWrite(r) PROVE CrmInv'
<1> USE DEF DeleteAccountWrite
<1>1. req[r].acc \in Account /\ account[req[r].acc] # "none"
  BY OfCrm DEF Knows
<1>2. /\ account' \in [Account -> States]
      /\ \A a \in Account : /\ There(account[a]) = There(account'[a])
                            /\ account[a] # "none" => account'[a] # "none"
  BY <1>1, OfCrm DEF States, There
<1>3. QED BY <1>2, OfCrm, AnswerStep

LEMMA CreateDealWriteStep == ASSUME CrmInv, NEW r \in Handler, CreateDealWrite(r) PROVE CrmInv'
<1> USE DEF CreateDealWrite
<1>1. req[r].deal \in Posted /\ req[r].acc \in Account /\ req[r].closed \in BOOLEAN
  BY OfCrm DEF Knows
<1>2. /\ deal' \in [Deal -> DealRecords]
      /\ \A d \in Deal : deal[d].state # "none" => deal'[d].state # "none"
      /\ \A k \in Conv : deal'[k].state = deal[k].state
  BY <1>1, OfCrm, NameAssumption DEF DealRecords, States
<1>3. QED BY <1>2, OfCrm, AnswerStep

LEMMA PatchDealWriteStep == ASSUME CrmInv, NEW r \in Handler, PatchDealWrite(r) PROVE CrmInv'
<1> USE DEF PatchDealWrite
<1>1. req[r].deal \in Deal /\ req[r].acc \in Account
  BY OfCrm DEF Knows
<1>2. /\ deal' \in [Deal -> DealRecords]
      /\ \A d \in Deal : deal'[d].state = deal[d].state
  BY <1>1, OfCrm DEF DealRecords
<1>3. QED BY <1>2, OfCrm, AnswerStep

LEMMA ChangeDealStageWriteStep == ASSUME CrmInv, NEW r \in Handler, ChangeDealStageWrite(r) PROVE CrmInv'
<1> USE DEF ChangeDealStageWrite
<1>1. req[r].deal \in Deal /\ req[r].closed \in BOOLEAN
  BY OfCrm DEF Knows
<1>2. /\ deal' \in [Deal -> DealRecords]
      /\ \A d \in Deal : deal'[d].state = deal[d].state
  <2>1. PICK d, c : d = req[r].deal /\ c = req[r].closed
    OBVIOUS
  <2>2. PICK e : e = [deal[d] EXCEPT !.closed = c]
    OBVIOUS
  <2>3. d \in Deal /\ deal[d] \in DealRecords /\ c \in BOOLEAN
    BY <1>1, <2>1, OfCrm
  <2>4. e \in DealRecords /\ e.state = deal[d].state
    BY <2>2, <2>3 DEF DealRecords
  <2>5. deal' = deal \/ deal' = [deal EXCEPT ![d] = e]
    BY <2>1, <2>2
  <2>6. QED BY <2>3, <2>4, <2>5, OfCrm
<1>3. QED BY <1>2, OfCrm, AnswerStep

LEMMA CrashStep == ASSUME CrmInv, NEW r \in Handler, Crash(r) PROVE CrmInv'
<1> USE DEF Crash
<1>1. PICK q : q = Idle
  OBVIOUS
<1>2. req' = [req EXCEPT ![r] = q] /\ Knows(q) /\ q.op # "convert"
  BY <1>1, IdleKnows DEF Answer, Become
<1>3. req[r].op # "convert" \/ req[r].deal \in broken'
  OBVIOUS
<1>4. broken \subseteq broken' /\ account' = account /\ contact' = contact /\ deal' = deal /\ lead' = lead
      /\ torn' = torn /\ early' = early
  OBVIOUS
<1>5. QED BY <1>2, <1>3, <1>4, OnlyRequest
-----------------------------------------------------------------------------
(* The steps of a conversion.                                               *)
LEMMA ConvertLeadStep ==
  ASSUME CrmInv, NEW r \in Handler, NEW l \in Lead, NEW k \in Conv, NEW a \in Account,
         ConvertLead(r, l, k, a)
  PROVE  CrmInv'
<1>1. PICK q : q = [Ask("convert", l, k, a, FALSE) EXCEPT !.step = "account"]
  OBVIOUS
<1>2. /\ q.op = "convert" /\ q.step = "account" /\ q.lead = l /\ q.deal = k /\ q.acc = a
      /\ q.job.ticket = "none" /\ IsRequest(q)
  BY <1>1 DEF Ask, IsRequest, NoJob
<1>3. /\ LiveLead(l) /\ Fresh(k) /\ k \notin broken /\ contact[k] = "none" /\ req[r].op = "idle"
      /\ req' = [req EXCEPT ![r] = q] /\ UNCHANGED crmVars
  BY <1>1 DEF ConvertLead, Receive
<1>4. /\ account' = account /\ contact' = contact /\ deal' = deal /\ lead' = lead
      /\ broken' = broken /\ torn' = torn /\ early' = early
  BY <1>3 DEF crmVars, marks
<1>5. Knows(q)'
  <2>1. Knows(q)
    BY <1>2, <1>3 DEF Knows, LiveLead, CrmOps, TicketOps
  <2>2. IsRequest(q)'
    BY <1>2 DEF IsRequest
  <2>3. QED BY <1>4, <2>1, <2>2 DEF Knows
<1>6. CrmTypes'
  BY <1>3, <1>4, <1>5, OfCrm, KnownKept
<1>7. \A x \in Handler : ~ Converts(x, k)
  BY <1>3 DEF Fresh, Converts
<1>8. deal[k].state = "none" /\ ~ There(account[k]) /\ ~ There(contact[k]) /\ ~ There(deal[k].state)
  BY <1>3, <1>7 DEF CrmInv, ConversionWhole, There, Fresh
<1>9. k \in torn \/ \A m \in Lead : LiveLead(m) => lead[m].to # k
  BY <1>8, NameAssumption DEF CrmInv, ConversionWhole, Points
<1>10. Halfway(q, k)
  BY <1>2, <1>3, <1>8, <1>9 DEF Halfway, Linking
<1>11. Halfway(q, k)'
  BY <1>4, <1>10 DEF Halfway, LiveLead
<1>12. k \in early \/ Apart(k)
  <2> SUFFICES ASSUME k \notin early PROVE Apart(k)
    OBVIOUS
  <2>1. ASSUME NEW x \in Handler, LinkedBy(x, k) PROVE FALSE
    <3>1. PICK j : j = req[x].deal
      OBVIOUS
    <3>2. j \in Conv /\ Converts(x, j)
      BY <2>1, <3>1, OfCrm DEF LinkedBy, Knows, Converts
    <3>3. Halfway(req[x], j)
      BY <3>2 DEF CrmInv
    <3>4. QED BY <1>8, <2>1, <3>3 DEF Halfway, LinkedBy
  <2>2. ASSUME NEW m \in Lead, NamedBy(m, k) PROVE FALSE
    BY <1>8, <2>2 DEF NamedBy, CrmInv, ConversionWhole, Points
  <2>3. QED BY <2>1, <2>2 DEF Apart
<1>13. /\ q.op = "convert" => /\ q.deal = k /\ Halfway(q, k)'
                              /\ q.step \in Linking => q.acc \in early' \cup {k} \/ Unmade(q.acc)
       /\ q.op # "convert" => /\ There(contact'[k]) <=> There(deal'[k].state)
                              /\ There(account'[k]) => There(contact'[k])
       /\ \A x \in Handler : x # r => ~ Converts(x, k)
       /\ req[r].op = "convert" => req[r].deal = k
       /\ req[r].op = "convert" \/ k \in early \/ Apart(k)
  BY <1>2, <1>3, <1>7, <1>11, <1>12 DEF Linking
<1>14. /\ \A j \in Conv : j # k => contact'[j] = contact[j] /\ deal'[j] = deal[j] /\ account'[j] = account[j]
       /\ \A b \in House : account'[b] = account[b]
       /\ There(account[k]) => There(account'[k]) \/ req[r].op = "convert"
       /\ \A m \in Lead : /\ lead'[m].state = lead[m].state /\ lead'[m] = lead[m]
                          /\ lead'[m].state = "live" /\ lead'[m].to = k /\ k \notin torn' => Points(m)'
  BY <1>4, <1>9 DEF LiveLead
<1>15. ConvertMove(r, k, q)
  BY <1>3, <1>4, <1>13, <1>14 DEF ConvertMove
<1>16. QED BY <1>15, <1>6, ConvertKept

(* What is known when conversion k takes a step.                            *)
LEMMA OfConversion ==
  ASSUME CrmInv, NEW r \in Handler, req[r].op = "convert"
  PROVE  /\ req[r].deal \in Conv /\ req[r].acc \in Account /\ req[r].lead \in Lead
         /\ lead[req[r].lead].state # "none"
         /\ Halfway(req[r], req[r].deal)
         /\ \A x \in Handler : x # r => ~ Converts(x, req[r].deal)
         /\ req[r].deal \notin House /\ req[r].deal \notin Posted /\ req[r].deal # "none"
         /\ req[r].step \in {"account", "undo"} \cup Linking
         /\ req[r].step \in Linking => req[r].acc \in early \cup {req[r].deal} \/ Unmade(req[r].acc)
<1>1. Knows(req[r])
  BY OfCrm
<1>2. /\ req[r].deal \in Conv /\ req[r].acc \in Account /\ req[r].lead \in Lead
      /\ lead[req[r].lead].state # "none" /\ req[r].step \in {"account", "undo"} \cup Linking
  BY <1>1 DEF Knows
<1>3. Converts(r, req[r].deal)
  BY DEF Converts
<1>4. ASSUME req[r].step \in Linking, req[r].acc \notin early \cup {req[r].deal},
             NEW x \in Handler, Converts(x, req[r].acc)
      PROVE  FALSE
  <2>1. PICK j : j = req[r].acc
    OBVIOUS
  <2>2. j \in Conv
    BY <1>4, <2>1, OfCrm DEF Knows, Converts
  <2>3. Apart(j)
    BY <1>4, <2>1, <2>2 DEF CrmInv
  <2>4. LinkedBy(r, j)
    BY <1>4, <2>1 DEF LinkedBy
  <2>5. QED BY <2>3, <2>4 DEF Apart
<1>5. QED BY <1>2, <1>3, <1>4, NameAssumption DEF CrmInv, Unmade

(* A step of a conversion that only goes on, and changes no lead.           *)
LEMMA MoveOn ==
  ASSUME CrmInv, NEW r \in Handler, req[r].op = "convert", NEW k \in Conv, k = req[r].deal,
         NEW q, req' = [req EXCEPT ![r] = q], broken' = broken, early' = early, torn \subseteq torn',
         lead' = lead,
         q.op = "convert" => /\ q.deal = k /\ q.acc = req[r].acc /\ Halfway(q, k)'
                             /\ q.step \in Linking => req[r].step \in Linking,
         q.op # "convert" => /\ There(contact'[k]) <=> There(deal'[k].state)
                             /\ There(account'[k]) => There(contact'[k]),
         \A j \in Conv : j # k => contact'[j] = contact[j] /\ deal'[j] = deal[j] /\ account'[j] = account[j],
         \A a \in House : account'[a] = account[a],
         \A l \in Lead : LiveLead(l) /\ lead[l].to = k /\ k \notin torn'
           => contact'[k] = contact[k] /\ deal'[k] = deal[k] /\ account'[k] = account[k]
  PROVE  ConvertMove(r, k, q)
<1>1. /\ \A x \in Handler : x # r => ~ Converts(x, k)
      /\ req[r].step \in Linking => req[r].acc \in early \cup {k} \/ Unmade(req[r].acc)
  BY OfConversion
<1>2. \A l \in Lead : lead'[l].state = "live" /\ lead'[l].to = k /\ k \notin torn' => Points(l)'
  <2> SUFFICES ASSUME NEW l \in Lead, lead'[l].state = "live", lead'[l].to = k, k \notin torn'
               PROVE  Points(l)'
    OBVIOUS
  <2>1. LiveLead(l) /\ lead[l].to = k /\ lead[l].acc \in Account
    BY NameAssumption DEF LiveLead, CrmInv
  <2>2. Points(l)
    BY <2>1, NameAssumption DEF CrmInv, ConversionWhole
  <2>3. contact'[k] = contact[k] /\ deal'[k] = deal[k] /\ account'[lead[l].acc] = account[lead[l].acc]
    BY <2>1 DEF Account
  <2>4. QED BY <2>1, <2>2, <2>3 DEF Points
<1>3. QED BY <1>1, <1>2 DEF ConvertMove

(* A conversion that goes on.                                               *)
LEMMA GoStep ==
  ASSUME CrmInv, NEW r \in Handler, req[r].op = "convert", NEW s \in {"undo"} \cup Linking, Go(r, s),
         account' \in [Account -> States], contact' \in [Conv -> {"none", "live", "gone"}],
         deal' \in [Deal -> DealRecords], lead' \in [Lead -> LeadRecords],
         \A l \in Lead : lead'[l].state = lead[l].state
  PROVE  \E q : /\ q.op = "convert" /\ q.step = s /\ q.deal = req[r].deal /\ q.acc = req[r].acc
               /\ q.lead = req[r].lead /\ req' = [req EXCEPT ![r] = q] /\ Knows(q)'
<1>1. PICK q : q = [req[r] EXCEPT !.step = s]
  OBVIOUS
<1>2. Knows(req[r]) /\ IsRequest(req[r])
  BY OfCrm
<1>3. /\ q.op = "convert" /\ q.step = s /\ q.deal = req[r].deal /\ q.acc = req[r].acc
      /\ q.lead = req[r].lead /\ q.job = req[r].job
  BY <1>1, <1>2 DEF IsRequest
<1>4. IsRequest(q)
  BY <1>1, <1>2 DEF IsRequest
<1>5. IsRequest(q)'
  BY <1>4 DEF IsRequest
<1>6. Knows(q)'
  BY <1>2, <1>3, <1>5 DEF Knows, CrmOps, TicketOps
<1>7. req' = [req EXCEPT ![r] = q]
  BY <1>1 DEF Go, Become
<1>8. QED BY <1>3, <1>6, <1>7

LEMMA AnswerIs ==
  ASSUME NEW r \in Handler, Answer(r)
  PROVE  \E q : q = Idle /\ req' = [req EXCEPT ![r] = q] /\ Knows(q)' /\ q.op = "idle"
<1>1. PICK q : q = Idle
  OBVIOUS
<1>2. Knows(q)' /\ q.op = "idle"
  BY <1>1 DEF Knows, IsRequest, Idle, NoJob, CrmOps, TicketOps
<1>3. QED BY <1>1, <1>2 DEF Answer, Become

LEMMA ConvertAccountStep == ASSUME CrmInv, NEW r \in Handler, ConvertAccount(r) PROVE CrmInv'
<1> USE DEF ConvertAccount
<1>1. PICK k : k = req[r].deal
  OBVIOUS
<1>2. PICK a : a = req[r].acc
  OBVIOUS
<1>3. At(r, "convert", "account") /\ req[r].op = "convert" /\ req[r].step = "account"
  BY DEF At
<1>4. /\ k \in Conv /\ a \in Account /\ Halfway(req[r], k) /\ k \notin House
      /\ \A x \in Handler : x # r => ~ Converts(x, k)
  BY <1>1, <1>2, <1>3, OfConversion
<1>5. /\ contact' = contact /\ deal' = deal /\ lead' = lead /\ broken' = broken /\ torn' = torn
      /\ early \subseteq early' /\ (a \in early' \cup {k} \/ Unmade(a))
  BY <1>1, <1>2 DEF Unmade
<1>6. /\ contact[k] = "none" /\ deal[k].state = "none" /\ ~ There(account[k])
      /\ k \in torn \/ \A l \in Lead : LiveLead(l) => lead[l].to # k
  BY <1>3, <1>4 DEF Halfway
<1>7. CASE a = k
  <2>1. account' = [account EXCEPT ![k] = "live"] /\ Go(r, "contact")
    BY <1>1, <1>2, <1>7
  <2>2. account' \in [Account -> States] /\ account'[k] = "live" /\ \A b \in Account : b # k => account'[b] = account[b]
    BY <1>4, <2>1, OfCrm DEF States
  <2>3. PICK q : /\ q.op = "convert" /\ q.step = "contact" /\ q.deal = k /\ q.acc = a
                 /\ req' = [req EXCEPT ![r] = q] /\ Knows(q)'
    BY <1>1, <1>2, <1>3, <1>5, <2>1, <2>2, GoStep, OfCrm DEF Linking
  <2>4. CrmTypes'
    BY <1>5, <2>2, <2>3, OfCrm, KnownKept
  <2>5. Halfway(q, k)'
    BY <1>5, <1>6, <1>7, <2>2, <2>3 DEF Halfway, There, LiveLead, Linking
  <2>6. /\ \A j \in Conv : j # k => account'[j] = account[j]
        /\ \A b \in House : account'[b] = account[b]
    BY <1>4, <2>2, OfCrm
  <2>7. \A l \in Lead : lead'[l].state = "live" /\ lead'[l].to = k => k \in torn'
    BY <1>5, <1>6 DEF LiveLead
  <2>8. ConvertMove(r, k, q)
    BY <1>1, <1>3, <1>4, <1>5, <1>6, <2>3, <2>5, <2>6, <2>7 DEF ConvertMove
  <2>9. QED BY <1>4, <2>8, <2>4, ConvertKept
<1>8. CASE a # k /\ LiveAccount(a)
  <2>1. account' = account /\ Go(r, "contact")
    BY <1>1, <1>2, <1>8
  <2>2. PICK q : /\ q.op = "convert" /\ q.step = "contact" /\ q.deal = k /\ q.acc = a
                 /\ req' = [req EXCEPT ![r] = q] /\ Knows(q)'
    BY <1>1, <1>2, <1>3, <1>5, <2>1, GoStep, OfCrm DEF Linking
  <2>3. CrmTypes'
    BY <1>5, <2>1, <2>2, OfCrm, KnownKept
  <2>4. Halfway(q, k)'
    BY <1>5, <1>6, <1>8, <2>1, <2>2 DEF Halfway, There, LiveLead, LiveAccount, Linking
  <2>5. \A l \in Lead : lead'[l].state = "live" /\ lead'[l].to = k => k \in torn'
    BY <1>5, <1>6 DEF LiveLead
  <2>6. ConvertMove(r, k, q)
    BY <1>1, <1>3, <1>4, <1>5, <1>6, <2>1, <2>2, <2>4, <2>5 DEF ConvertMove
  <2>7. QED BY <1>4, <2>6, <2>3, ConvertKept
<1>9. CASE a # k /\ ~ LiveAccount(a)
  <2>1. account' = account /\ Answer(r)
    BY <1>1, <1>2, <1>9
  <2>2. PICK q : req' = [req EXCEPT ![r] = q] /\ Knows(q)' /\ q.op = "idle"
    BY <2>1, AnswerIs
  <2>3. CrmTypes'
    BY <1>5, <2>1, <2>2, OfCrm, KnownKept
  <2>4. \A l \in Lead : lead'[l].state = "live" /\ lead'[l].to = k => k \in torn'
    BY <1>5, <1>6 DEF LiveLead
  <2>5. ~ There(contact'[k]) /\ ~ There(deal'[k].state) /\ ~ There(account'[k])
    BY <1>5, <1>6, <2>1 DEF There
  <2>6. /\ There(contact'[k]) <=> There(deal'[k].state)
        /\ There(account'[k]) => There(contact'[k])
    BY <2>5
  <2>7. /\ \A j \in Conv : contact'[j] = contact[j] /\ deal'[j] = deal[j] /\ account'[j] = account[j]
        /\ \A b \in House : account'[b] = account[b]
        /\ \A l \in Lead : lead'[l] = lead[l]
    BY <1>5, <2>1
  <2>8. q.op # "convert"
    BY <2>2
  <2>9. ConvertMove(r, k, q)
    BY <1>1, <1>3, <1>4, <1>5, <1>6, <2>2, <2>4, <2>6, <2>7, <2>8 DEF ConvertMove
  <2>10. QED BY <1>4, <2>9, <2>3, ConvertKept
<1>10. QED BY <1>7, <1>8, <1>9

LEMMA ConvertContactStep == ASSUME CrmInv, NEW r \in Handler, ConvertContact(r) PROVE CrmInv'
<1> USE DEF ConvertContact
<1>1. PICK k : k = req[r].deal
  OBVIOUS
<1>2. req[r].op = "convert" /\ req[r].step = "contact"
  BY DEF At
<1>3. /\ k \in Conv /\ Halfway(req[r], k)
      /\ \A x \in Handler : x # r => ~ Converts(x, k)
  BY <1>1, <1>2, OfConversion
<1>4. account' = account /\ deal' = deal /\ lead' = lead /\ broken' = broken /\ torn' = torn /\ early' = early
  BY DEF marks
<1>5. /\ contact' \in [Conv -> {"none", "live", "gone"}] /\ contact'[k] = "live"
      /\ \A j \in Conv : j # k => contact'[j] = contact[j]
  BY <1>1, <1>3, OfCrm
<1>6. PICK q : /\ q.op = "convert" /\ q.step = "deal" /\ q.deal = k /\ q.acc = req[r].acc
               /\ req' = [req EXCEPT ![r] = q] /\ Knows(q)'
  BY <1>1, <1>2, <1>4, <1>5, GoStep, OfCrm DEF Linking
<1>7. CrmTypes'
  <2>1. /\ account' \in [Account -> States] /\ contact' \in [Conv -> {"none", "live", "gone"}]
        /\ deal' \in [Deal -> DealRecords] /\ lead' \in [Lead -> LeadRecords] /\ CrmTypes
    BY <1>4, <1>5, OfCrm
  <2>2. /\ \A a \in Account : account[a] # "none" => account'[a] # "none"
        /\ \A d \in Deal : deal[d].state # "none" => deal'[d].state # "none"
        /\ \A l \in Lead : lead[l].state # "none" => lead'[l].state # "none"
    BY <1>4
  <2>3. QED BY <1>6, <2>1, <2>2, KnownKept
<1>8. \A l \in Lead : LiveLead(l) /\ lead[l].to = k => k \in torn'
  BY <1>2, <1>3, <1>4 DEF Halfway
<1>9. Halfway(q, k)'
  BY <1>2, <1>3, <1>4, <1>5, <1>6, <1>8 DEF Halfway, There, LiveLead, Linking
<1>10. ConvertMove(r, k, q)
  BY <1>1, <1>2, <1>3, <1>4, <1>5, <1>6, <1>8, <1>9, MoveOn DEF Linking
<1>11. QED BY <1>3, <1>10, <1>7, ConvertKept

LEMMA ConvertDealStep == ASSUME CrmInv, NEW r \in Handler, ConvertDeal(r) PROVE CrmInv'
<1> USE DEF ConvertDeal
<1>1. PICK k : k = req[r].deal
  OBVIOUS
<1>2. req[r].op = "convert" /\ req[r].step = "deal"
  BY DEF At
<1>3. /\ k \in Conv /\ Halfway(req[r], k) /\ req[r].acc \in Account
      /\ \A x \in Handler : x # r => ~ Converts(x, k)
  BY <1>1, <1>2, OfConversion
<1>4. account' = account /\ contact' = contact /\ lead' = lead /\ broken' = broken /\ torn' = torn /\ early' = early
  BY DEF marks
<1>5. /\ deal' \in [Deal -> DealRecords] /\ deal'[k].state = "live"
      /\ \A d \in Deal : d # k => deal'[d] = deal[d]
  BY <1>1, <1>3, OfCrm DEF DealRecords, States
<1>6. PICK q : /\ q.op = "convert" /\ q.step = "stamp" /\ q.deal = k /\ q.acc = req[r].acc
               /\ req' = [req EXCEPT ![r] = q] /\ Knows(q)'
  <2>1. /\ account' \in [Account -> States] /\ contact' \in [Conv -> {"none", "live", "gone"}]
        /\ lead' \in [Lead -> LeadRecords] /\ \A l \in Lead : lead'[l].state = lead[l].state
    BY <1>4, OfCrm
  <2>2. Go(r, "stamp") /\ "stamp" \in {"undo"} \cup Linking
    BY DEF Linking
  <2>3. QED BY ONLY CrmInv, r \in Handler, <1>1, <1>2, <1>5, <2>1, <2>2, GoStep
<1>7. CrmTypes'
  <2>1. /\ account' \in [Account -> States] /\ contact' \in [Conv -> {"none", "live", "gone"}]
        /\ deal' \in [Deal -> DealRecords] /\ lead' \in [Lead -> LeadRecords] /\ CrmTypes
    BY <1>4, <1>5, OfCrm
  <2>2. /\ \A a \in Account : account[a] # "none" => account'[a] # "none"
        /\ \A d \in Deal : deal[d].state # "none" => deal'[d].state # "none"
        /\ \A l \in Lead : lead[l].state # "none" => lead'[l].state # "none"
    BY <1>4, <1>5
  <2>3. QED BY <1>6, <2>1, <2>2, KnownKept
<1>8. \A l \in Lead : LiveLead(l) /\ lead[l].to = k => k \in torn'
  BY <1>2, <1>3, <1>4 DEF Halfway
<1>9. Halfway(q, k)'
  BY <1>2, <1>3, <1>4, <1>5, <1>6, <1>8 DEF Halfway, There, LiveLead, Linking
<1>10. ConvertMove(r, k, q)
  BY <1>1, <1>2, <1>3, <1>4, <1>5, <1>6, <1>8, <1>9, OfCrm, MoveOn DEF Linking
<1>11. QED BY <1>3, <1>10, <1>7, ConvertKept

LEMMA ConvertStampStep == ASSUME CrmInv, NEW r \in Handler, ConvertStamp(r) PROVE CrmInv'
<1> USE DEF ConvertStamp
<1>1. PICK k : k = req[r].deal
  OBVIOUS
<1>2. req[r].op = "convert" /\ req[r].step = "stamp" /\ req[r].step \in Linking
  BY DEF At, Linking
<1>3. PICK l : l = req[r].lead
  OBVIOUS
<1>4. /\ k \in Conv /\ Halfway(req[r], k) /\ req[r].acc \in Account /\ l \in Lead /\ lead[l].state # "none"
      /\ \A x \in Handler : x # r => ~ Converts(x, k)
      /\ req[r].acc \in early \cup {k} \/ Unmade(req[r].acc)
  BY <1>1, <1>2, <1>3, OfConversion
<1>5. account' = account /\ contact' = contact /\ deal' = deal /\ broken' = broken /\ torn' = torn /\ early' = early
  BY DEF marks
<1>6. /\ lead' \in [Lead -> LeadRecords] /\ lead'[l].state = lead[l].state
      /\ lead'[l].to = k /\ lead'[l].acc = req[r].acc
      /\ \A m \in Lead : m # l => lead'[m] = lead[m]
  BY <1>1, <1>3, <1>4, OfCrm DEF LeadRecords
<1>7. /\ There(contact[k]) /\ There(deal[k].state) /\ (There(account[req[r].acc]) \/ req[r].acc \in early \ {k})
      /\ k \in torn \/ \A m \in Lead : LiveLead(m) => lead[m].to # k
  BY <1>2, <1>4 DEF Halfway, There
<1>8. \A m \in Lead : /\ lead'[m].state = lead[m].state
                      /\ \/ lead'[m] = lead[m]
                         \/ /\ lead'[m].to = k /\ lead'[m].acc \in Account /\ lead[m].state # "none"
                            /\ lead'[m].acc \in early' \cup {k} \/ Unmade(lead'[m].acc)
                      /\ lead'[m].state = "live" /\ lead'[m].to = k /\ k \notin torn' => m = l /\ Points(m)'
  <2> TAKE m \in Lead
  <2>1. CASE m = l
    BY <1>4, <1>5, <1>6, <1>7, <2>1 DEF Points
  <2>2. CASE m # l
    BY <1>5, <1>6, <1>7, <2>2 DEF LiveLead
  <2>3. QED BY <2>1, <2>2
<1>9. PICK q : /\ q.op = "convert" /\ q.step = "read" /\ q.deal = k /\ q.acc = req[r].acc /\ q.lead = l
               /\ req' = [req EXCEPT ![r] = q] /\ Knows(q)'
  <2>1. /\ Go(r, "read") /\ \A m \in Lead : lead'[m].state = lead[m].state
        /\ account' \in [Account -> States] /\ contact' \in [Conv -> {"none", "live", "gone"}]
        /\ deal' \in [Deal -> DealRecords] /\ lead' \in [Lead -> LeadRecords]
    BY <1>5, <1>6, <1>8, OfCrm
  <2>2. "read" \in {"undo"} \cup Linking
    BY DEF Linking
  <2>3. QED BY <1>1, <1>2, <1>3, <2>1, <2>2, GoStep
<1>10. CrmTypes'
  BY <1>5, <1>8, <1>6, <1>9, OfCrm, KnownKept
<1>11. Halfway(q, k)'
  <2>1. k \in torn' \/ \A m \in Lead : LiveLead(m)' /\ lead'[m].to = k => q.step = "read" /\ m = q.lead
    BY <1>8, <1>9 DEF LiveLead
  <2>2. QED BY <1>2, <1>4, <1>5, <1>9, <2>1 DEF Halfway, Linking
<1>12. ConvertMove(r, k, q)
  BY <1>1, <1>2, <1>4, <1>5, <1>8, <1>9, <1>11 DEF ConvertMove
<1>13. QED BY <1>4, <1>12, <1>10, ConvertKept

LEMMA ConvertReadStep == ASSUME CrmInv, NEW r \in Handler, ConvertRead(r) PROVE CrmInv'
<1> USE DEF ConvertRead
<1>1. PICK k : k = req[r].deal
  OBVIOUS
<1>2. req[r].op = "convert" /\ req[r].step = "read"
  BY DEF At
<1>3. k \in Conv /\ Halfway(req[r], k)
  BY <1>1, <1>2, OfConversion
<1>4. /\ account' = account /\ contact' = contact /\ deal' = deal /\ lead' = lead
      /\ broken' = broken /\ torn' = torn /\ early' = early
  BY DEF crmVars, marks
<1>5. contact[k] = "live" /\ There(deal[k].state)
  BY <1>2, <1>3 DEF Halfway
<1>6. CASE LiveLead(req[r].lead)
  <2>1. PICK q : req' = [req EXCEPT ![r] = q] /\ Knows(q)' /\ q.op = "idle"
    BY <1>6, AnswerIs
  <2>2. CrmTypes'
    BY <1>4, <2>1, OfCrm, KnownKept
  <2>3. There(contact'[k]) /\ There(deal'[k].state)
    BY <1>4, <1>5 DEF There
  <2>4. ConvertMove(r, k, q)
    BY <1>1, <1>2, <1>3, <1>4, <2>1, <2>3, MoveOn
  <2>5. QED BY <1>3, <2>4, <2>2, ConvertKept
<1>7. CASE ~ LiveLead(req[r].lead)
  <2>1. PICK q : /\ q.op = "convert" /\ q.step = "undo" /\ q.deal = k /\ q.acc = req[r].acc
                 /\ req' = [req EXCEPT ![r] = q] /\ Knows(q)'
    BY <1>1, <1>2, <1>4, <1>7, GoStep, OfCrm
  <2>2. CrmTypes'
    BY <1>4, <2>1, OfCrm, KnownKept
  <2>3. k \in torn \/ \A l \in Lead : LiveLead(l) => lead[l].to # k
    BY <1>3, <1>7 DEF Halfway
  <2>4. Halfway(q, k)'
    BY <1>3, <1>4, <2>1, <2>3 DEF Halfway, LiveLead, Linking
  <2>5. ConvertMove(r, k, q)
    BY <1>1, <1>2, <1>3, <1>4, <2>1, <2>4, MoveOn DEF Linking
  <2>6. QED BY <1>3, <2>5, <2>2, ConvertKept
<1>8. QED BY <1>6, <1>7

LEMMA ConvertRaisesStep == ASSUME CrmInv, NEW r \in Handler, ConvertRaises(r) PROVE CrmInv'
<1> USE DEF ConvertRaises
<1>1. PICK k : k = req[r].deal
  OBVIOUS
<1>2. req[r].op = "convert"
  OBVIOUS
<1>3. k \in Conv /\ Halfway(req[r], k)
  BY <1>1, <1>2, OfConversion
<1>4. /\ account' = account /\ contact' = contact /\ deal' = deal /\ lead' = lead
      /\ broken' = broken /\ early' = early /\ torn \subseteq torn'
      /\ req[r].step = "read" => k \in torn'
  BY <1>1
<1>5. PICK q : /\ q.op = "convert" /\ q.step = "undo" /\ q.deal = k /\ q.acc = req[r].acc
               /\ req' = [req EXCEPT ![r] = q] /\ Knows(q)'
  BY <1>1, <1>2, <1>4, GoStep, OfCrm
<1>6. CrmTypes'
  BY <1>4, <1>5, OfCrm, KnownKept
<1>7. k \in torn' \/ \A l \in Lead : LiveLead(l) => lead[l].to # k
  BY <1>3, <1>4 DEF Halfway
<1>8. Halfway(q, k)'
  BY <1>3, <1>4, <1>5, <1>7 DEF Halfway, LiveLead, Linking
<1>9. ConvertMove(r, k, q)
  BY <1>1, <1>2, <1>3, <1>4, <1>5, <1>8, MoveOn DEF Linking
<1>10. QED BY <1>3, <1>9, <1>6, ConvertKept

LEMMA UndoStep == ASSUME CrmInv, NEW r \in Handler, Undo(r) PROVE CrmInv'
<1> USE DEF Undo
<1>1. PICK k : k = req[r].deal
  OBVIOUS
<1>2. PICK own \in BOOLEAN : own = (req[r].acc = k)
  OBVIOUS
<1>3. PICK x : x = Left(k, own)
  OBVIOUS
<1>4. req[r].op = "convert" /\ req[r].step = "undo"
  BY DEF At
<1>5. /\ k \in Conv /\ Halfway(req[r], k) /\ k \notin House
      /\ \A y \in Handler : y # r => ~ Converts(y, k)
  BY <1>1, <1>4, OfConversion
<1>6. lead' = lead /\ broken' = broken /\ torn' = torn /\ early' = early
  BY DEF marks
<1>7. /\ There(deal[k].state) => contact[k] = "live"
      /\ contact[k] = "live" /\ own => There(account[k])
      /\ ~ own => ~ There(account[k])
      /\ contact[k] \in {"none", "live", "gone"}
      /\ \A l \in Lead : LiveLead(l) /\ lead[l].to = k => k \in torn'
  BY <1>2, <1>4, <1>5, <1>6, OfCrm DEF Halfway
<1>8. /\ deal' = IF x = "deal" THEN [deal EXCEPT ![k].state = "gone"] ELSE deal
      /\ contact' = IF x = "contact" THEN [contact EXCEPT ![k] = "gone"] ELSE contact
      /\ account' = IF x = "account" THEN [account EXCEPT ![k] = "gone"] ELSE account
      /\ IF x = "nothing" THEN Answer(r) ELSE Go(r, "undo")
  BY <1>1, <1>2, <1>3
<1>9. /\ x = "deal" => There(deal[k].state)
      /\ x = "contact" => ~ There(deal[k].state) /\ contact[k] = "live"
      /\ x = "account" => ~ There(deal[k].state) /\ contact[k] # "live" /\ own
      /\ x = "nothing" => ~ There(deal[k].state) /\ contact[k] # "live" /\ (own => ~ There(account[k]))
  BY <1>3 DEF Left, There
<1>10. /\ deal' \in [Deal -> DealRecords] /\ contact' \in [Conv -> {"none", "live", "gone"}]
       /\ account' \in [Account -> States]
       /\ \A j \in Conv : j # k => contact'[j] = contact[j] /\ deal'[j] = deal[j] /\ account'[j] = account[j]
       /\ \A a \in House : account'[a] = account[a]
       /\ \A a \in Account : account[a] # "none" => account'[a] # "none"
       /\ \A d \in Deal : deal[d].state # "none" => deal'[d].state # "none"
  <2>1. /\ deal' \in [Deal -> DealRecords]
        /\ \A j \in Conv : j # k => deal'[j] = deal[j]
        /\ \A d \in Deal : deal[d].state # "none" => deal'[d].state # "none"
    <3>1. CASE x = "deal"
      <4>1. /\ deal' \in [Deal -> DealRecords] /\ deal'[k].state = "gone"
            /\ \A d \in Deal : d # k => deal'[d] = deal[d]
        <5>1. k \in Deal /\ deal' = [deal EXCEPT ![k].state = "gone"]
          BY <1>5, <1>8, <3>1, OfCrm
        <5>2. deal[k] \in DealRecords
          BY <5>1, OfCrm
        <5>3. PICK e : e = [deal[k] EXCEPT !.state = "gone"]
          OBVIOUS
        <5>4. e \in DealRecords /\ e.state = "gone"
          BY <5>2, <5>3 DEF DealRecords, States
        <5>5. deal' = [deal EXCEPT ![k] = e]
          BY <5>1, <5>3
        <5>6. QED BY <5>1, <5>4, <5>5, OfCrm
      <4>2. QED BY <4>1, OfCrm
    <3>2. CASE x # "deal"
      BY <1>8, <3>2, OfCrm
    <3>3. QED BY <3>1, <3>2
  <2>2. contact' \in [Conv -> {"none", "live", "gone"}] /\ \A j \in Conv : j # k => contact'[j] = contact[j]
    BY <1>5, <1>8, OfCrm
  <2>3. /\ account' \in [Account -> States]
        /\ \A a \in Account : a # k => account'[a] = account[a]
        /\ \A a \in Account : account[a] # "none" => account'[a] # "none"
    BY <1>5, <1>8, OfCrm DEF States
  <2>4. QED BY <1>5, <2>1, <2>2, <2>3, OfCrm
<1>11. /\ There(deal'[k].state) => There(deal[k].state) /\ x # "deal"
       /\ contact'[k] = "live" => contact[k] = "live" /\ x # "contact"
       /\ There(account'[k]) => There(account[k]) /\ x # "account"
       /\ x # "account" => account'[k] = account[k]
       /\ x = "nothing" => contact'[k] = contact[k] /\ deal'[k] = deal[k] /\ account'[k] = account[k]
  BY <1>5, <1>8, OfCrm DEF There, DealRecords
<1>12. CASE x # "nothing"
  <2>1. Go(r, "undo")
    BY <1>8, <1>12
  <2>2. PICK q : /\ q.op = "convert" /\ q.step = "undo" /\ q.deal = k /\ q.acc = req[r].acc
                 /\ req' = [req EXCEPT ![r] = q] /\ Knows(q)'
    BY <1>1, <1>4, <1>6, <1>10, <2>1, GoStep, OfCrm
  <2>3. CrmTypes'
    BY <1>6, <1>10, <2>2, OfCrm, KnownKept
  <2>4. (q.acc = k) = own
    BY <1>2, <2>2
  <2>5. /\ There(deal'[k].state) => contact'[k] = "live"
        /\ contact'[k] = "live" /\ q.acc = k => There(account'[k])
        /\ q.acc # k => ~ There(account'[k])
    <3>1. There(deal'[k].state) => contact'[k] = "live"
      BY <1>7, <1>8, <1>9, <1>11
    <3>2. contact'[k] = "live" /\ q.acc = k => There(account'[k])
      BY <1>7, <1>9, <1>11, <2>4
    <3>3. q.acc # k => ~ There(account'[k])
      BY <1>7, <1>11, <2>4
    <3>4. QED BY <3>1, <3>2, <3>3
  <2>6. Halfway(q, k)'
    BY <1>6, <1>7, <2>2, <2>5 DEF Halfway, LiveLead, Linking
  <2>7. ConvertMove(r, k, q)
    BY <1>1, <1>4, <1>5, <1>6, <1>7, <1>10, <2>2, <2>6, MoveOn DEF Linking
  <2>8. QED BY <1>5, <2>7, <2>3, ConvertKept
<1>13. CASE x = "nothing"
  <2>1. PICK q : req' = [req EXCEPT ![r] = q] /\ Knows(q)' /\ q.op = "idle"
    BY <1>8, <1>13, AnswerIs
  <2>2. CrmTypes'
    BY <1>6, <1>10, <2>1, OfCrm, KnownKept
  <2>3. ~ There(deal'[k].state) /\ ~ There(contact'[k]) /\ ~ There(account'[k])
    BY <1>7, <1>9, <1>11, <1>13 DEF There
  <2>4. /\ There(contact'[k]) <=> There(deal'[k].state)
        /\ There(account'[k]) => There(contact'[k])
    BY <2>3
  <2>5. ConvertMove(r, k, q)
    BY <1>1, <1>4, <1>5, <1>6, <1>7, <1>10, <2>1, <2>4, MoveOn
  <2>6. QED BY <1>5, <2>5, <2>2, ConvertKept
<1>14. QED BY <1>12, <1>13
-----------------------------------------------------------------------------
(* The steps of the CRM.                                                    *)
LEMMA CrmStepKept == ASSUME CrmInv, NEW r \in Handler, CrmStep(r) PROVE CrmInv'
BY PatchLeadWriteStep, DeleteAccountWriteStep, ConvertAccountStep, ConvertContactStep, ConvertDealStep,
   ConvertStampStep, ConvertReadStep, ConvertRaisesStep, UndoStep, CreateDealWriteStep, PatchDealWriteStep,
   ChangeDealStageWriteStep, CrashStep DEF CrmStep

LEMMA CrmRequestKept == ASSUME CrmInv, NEW r \in Handler, CrmRequest(r) PROVE CrmInv'
<1>1. ASSUME NEW l \in Lead, NEW k \in Conv, NEW a \in Account, ConvertLead(r, l, k, a) PROVE CrmInv'
  BY <1>1, ConvertLeadStep
<1>2. QED BY <1>1, RequestStep DEF CrmRequest

LEMMA CrmCallKept == ASSUME CrmInv, CrmCall PROVE CrmInv'
BY CreateLeadStep, DeleteLeadStep, CreateAccountStep, DeleteDealStep DEF CrmCall

(* The steps of imports.                                                    *)
LEMMA JobIs ==
  ASSUME NEW op, NEW step, NEW t, NEW file, NEW q, q = Job(op, step, t, file)
  PROVE  /\ IsRequest(q) /\ q.op = op /\ q.step = step /\ q.deal = "none" /\ q.job.ticket = t
         /\ q.job.file = file /\ q.job.refs = {} /\ q.job.plan = <<>>
BY DEF Job, Task, IsRequest

LEMMA JobStep ==
  ASSUME CrmInv, NEW r \in Handler, NEW q, req' = [req EXCEPT ![r] = q], IsRequest(q),
         \/ q.op \in TicketOps /\ q.job.ticket \in Ticket
         \/ q.op = "import" /\ q.job.ticket \in Ticket \cup {"none"}
         \/ q = Idle,
         req[r].op # "convert", UNCHANGED crmVars
  PROVE  CrmInv'
<1>1. Knows(q) /\ q.op # "convert"
  BY IdleKnows DEF Knows, CrmOps, TicketOps
<1>2. account' = account /\ contact' = contact /\ deal' = deal /\ lead' = lead
      /\ broken' = broken /\ torn' = torn /\ early' = early
  BY DEF crmVars, marks
<1>3. QED BY <1>1, <1>2, OnlyRequest

LEMMA ImportRequestKept == ASSUME CrmInv, NEW r \in Handler, ImportRequest(r) PROVE CrmInv'
<1>1. ASSUME NEW t \in Ticket, ApproveImport(r, t) PROVE CrmInv'
  <2>1. PICK q : q = Job("approve", "none", t, <<>>)
    OBVIOUS
  <2>2. IsRequest(q) /\ q.op \in TicketOps /\ q.job.ticket \in Ticket
    BY <2>1, JobIs DEF TicketOps
  <2>3. req' = [req EXCEPT ![r] = q] /\ req[r].op = "idle" /\ UNCHANGED crmVars
    BY <1>1, <2>1 DEF ApproveImport, Receive
  <2>4. QED BY <2>2, <2>3, JobStep
<1>2. ASSUME NEW t \in Ticket, RejectImport(r, t) PROVE CrmInv'
  <2>1. PICK q : q = Job("reject", "none", t, <<>>)
    OBVIOUS
  <2>2. IsRequest(q) /\ q.op \in TicketOps /\ q.job.ticket \in Ticket
    BY <2>1, JobIs DEF TicketOps
  <2>3. req' = [req EXCEPT ![r] = q] /\ req[r].op = "idle" /\ UNCHANGED crmVars
    BY <1>2, <2>1 DEF RejectImport, Receive
  <2>4. QED BY <2>2, <2>3, JobStep
<1>3. ASSUME NEW file \in Files, NEW role \in Sellers, NEW t \in Ticket \cup {"none"}, SubmitImport(r, file, role, t)
      PROVE  CrmInv'
  <2>1. CASE CanApprove(role, "deals")
    <3>1. PICK q : q = Job("import", "refs", "none", file)
      OBVIOUS
    <3>2. IsRequest(q) /\ q.op = "import" /\ q.job.ticket = "none"
      BY <3>1, JobIs
    <3>3. req' = [req EXCEPT ![r] = q] /\ req[r].op = "idle" /\ UNCHANGED crmVars
      BY <1>3, <2>1, <3>1 DEF SubmitImport, Receive
    <3>4. QED BY <3>2, <3>3, JobStep
  <2>2. CASE ~ CanApprove(role, "deals")
    <3>1. PICK q : q = Job("submit", "save", t, file)
      OBVIOUS
    <3>2. IsRequest(q) /\ q.op \in TicketOps /\ q.job.ticket = t
      BY <3>1, JobIs DEF TicketOps
    <3>3. req' = [req EXCEPT ![r] = q] /\ req[r].op = "idle" /\ UNCHANGED crmVars /\ t # "none"
      BY <1>3, <2>2, <3>1 DEF SubmitImport, Receive
    <3>4. QED BY <3>2, <3>3, JobStep
  <2>3. QED BY <2>1, <2>2
<1>4. QED BY <1>1, <1>2, <1>3 DEF ImportRequest

(* What is known of a request about a ticket, or of an import.              *)
LEMMA OfJob ==
  ASSUME CrmInv, NEW r \in Handler
  PROVE  /\ IsRequest(req[r])
         /\ req[r].op \in TicketOps => req[r].job.ticket \in Ticket
         /\ req[r].op = "import" => req[r].job.ticket \in Ticket \cup {"none"}
         /\ req[r].op \notin TicketOps \cup {"import"} => req[r].job.ticket = "none"
         /\ req[r].op \in {"idle", "import"} \cup CrmOps \cup TicketOps
BY OfCrm DEF Knows

(* The request that an import goes on with.                                 *)
LEMMA ImportGoesOn ==
  ASSUME CrmInv, NEW r \in Handler, req[r].op = "import", NEW s, NEW R, NEW P, NEW q,
         q = Onward(req[r], s, R, P)
  PROVE  /\ IsRequest(q) /\ q.op = "import" /\ q.step = s /\ q.deal = "none" /\ q.job.ticket = req[r].job.ticket
         /\ q.job.file = req[r].job.file /\ q.job.refs = R /\ q.job.plan = P
BY OfJob DEF IsRequest, Onward, Task
-----------------------------------------------------------------------------
(* What the steps of the CRM leave of the requests and of the deals.        *)
DealsKept ==
  \A d \in Posted :
    /\ deal[d].state # "none" => deal'[d].state # "none"
    /\ deal'[d].made => /\ deal[d].made /\ deal'[d].acc = deal[d].acc
                        /\ deal'[d].state = "live" => deal[d].state = "live"

LEMMA CrmStepFrame ==
  ASSUME CrmInv, NEW r \in Handler, CrmStep(r)
  PROVE  /\ \A x \in Handler : x # r => req'[x] = req[x]
         /\ req'[r].op \in {"idle", "convert"} /\ req'[r].job.ticket = "none"
         /\ req[r].op # "convert" => req'[r] = Idle
         /\ DealsKept
<1>1. \A d \in Posted : d \in Deal /\ d \notin Conv
  BY OfCrm, NameAssumption
<1>2. ASSUME req' = [req EXCEPT ![r] = Idle]
      PROVE  /\ \A x \in Handler : x # r => req'[x] = req[x]
             /\ req'[r].op \in {"idle", "convert"} /\ req'[r].job.ticket = "none" /\ req'[r] = Idle
  BY <1>2, OfCrm, IdleKnows
<1>3. ASSUME NEW s, Go(r, s), req[r].op = "convert"
      PROVE  /\ \A x \in Handler : x # r => req'[x] = req[x]
             /\ req'[r].op \in {"idle", "convert"} /\ req'[r].job.ticket = "none"
  <2>1. IsRequest(req[r]) /\ req[r].job.ticket = "none"
    BY <1>3, OfJob DEF TicketOps
  <2>2. /\ [req[r] EXCEPT !.step = s].op = "convert"
        /\ [req[r] EXCEPT !.step = s].job = req[r].job
    BY <1>3, <2>1 DEF IsRequest
  <2>3. QED BY <1>3, <2>1, <2>2, OfCrm DEF Go, Become
<1>4. ASSUME deal' = deal PROVE DealsKept
  BY <1>4 DEF DealsKept
<1>5. ASSUME NEW k \in Conv, \A d \in Deal : d # k => deal'[d] = deal[d] PROVE DealsKept
  BY <1>1, <1>5 DEF DealsKept
<1> USE DEF Answer, Become, At
<1>6. CASE PatchLeadWrite(r) \/ DeleteAccountWrite(r)
  BY <1>2, <1>4, <1>6 DEF PatchLeadWrite, DeleteAccountWrite
<1>7. CASE ConvertAccount(r) \/ ConvertContact(r) \/ ConvertStamp(r) \/ ConvertRead(r)
  BY <1>2, <1>3, <1>4, <1>7 DEF ConvertAccount, ConvertContact, ConvertStamp, ConvertRead, crmVars
<1>8. CASE ConvertRaises(r)
  BY <1>3, <1>4, <1>8 DEF ConvertRaises, crmVars
<1>9. CASE ConvertDeal(r)
  <2>1. req[r].deal \in Conv /\ \A d \in Deal : d # req[r].deal => deal'[d] = deal[d]
    BY <1>9, OfConversion, OfCrm DEF ConvertDeal
  <2>2. QED BY <1>3, <1>5, <1>9, <2>1 DEF ConvertDeal
<1>10. CASE Undo(r)
  <2>1. req[r].op = "convert" /\ req[r].deal \in Conv
    BY <1>10, OfConversion DEF Undo
  <2>2. \A d \in Deal : d # req[r].deal => deal'[d] = deal[d]
    BY <1>10, OfCrm DEF Undo
  <2>3. DealsKept
    BY <1>5, <2>1, <2>2
  <2>4. Go(r, "undo") \/ req' = [req EXCEPT ![r] = Idle]
    BY <1>10 DEF Undo
  <2>5. QED BY <1>2, <1>3, <2>1, <2>3, <2>4
<1>11. CASE CreateDealWrite(r)
  <2>1. req[r].deal \in Posted
    BY <1>11, OfCrm DEF CreateDealWrite, Knows
  <2>2. DealsKept
    BY <1>1, <1>11, <2>1, OfCrm DEF CreateDealWrite, DealsKept, DealRecords
  <2>3. QED BY <1>2, <1>11, <2>2 DEF CreateDealWrite
<1>12. CASE PatchDealWrite(r)
  <2>1. req[r].deal \in Deal
    BY <1>12, OfCrm DEF PatchDealWrite, Knows
  <2>2. DealsKept
    BY <1>1, <1>12, <2>1, OfCrm DEF PatchDealWrite, DealsKept, DealRecords
  <2>3. QED BY <1>2, <1>12, <2>2 DEF PatchDealWrite
<1>13. CASE ChangeDealStageWrite(r)
  <2>1. req[r].deal \in Deal
    BY <1>13, OfCrm DEF ChangeDealStageWrite, Knows
  <2>2. DealsKept
    BY <1>1, <1>13, <2>1, OfCrm DEF ChangeDealStageWrite, DealsKept, DealRecords
  <2>3. QED BY <1>2, <1>13, <2>2 DEF ChangeDealStageWrite
<1>14. CASE Crash(r)
  BY <1>2, <1>4, <1>14 DEF Crash
<1>15. QED BY <1>6, <1>7, <1>8, <1>9, <1>10, <1>11, <1>12, <1>13, <1>14 DEF CrmStep

LEMMA CrmRequestFrame ==
  ASSUME CrmInv, NEW r \in Handler, CrmRequest(r)
  PROVE  /\ \A x \in Handler : x # r => req'[x] = req[x]
         /\ req[r].op = "idle" /\ req'[r].op \in CrmOps /\ req'[r].job.ticket = "none" /\ deal' = deal
<1>1. ASSUME NEW q, Receive(r, q), q.op \in CrmOps, q.job = NoJob
      PROVE  /\ \A x \in Handler : x # r => req'[x] = req[x]
             /\ req[r].op = "idle" /\ req'[r].op \in CrmOps /\ req'[r].job.ticket = "none"
  BY <1>1, OfCrm DEF Receive, NoJob
<1>3. ASSUME NEW l \in Lead, PatchLead(r, l)
      PROVE  (\E q : Receive(r, q) /\ q.op \in CrmOps /\ q.job = NoJob) /\ deal' = deal
  BY <1>3 DEF PatchLead, Ask, CrmOps, crmVars
<1>4. ASSUME NEW l \in Lead, NEW k \in Conv, NEW a \in Account, ConvertLead(r, l, k, a)
      PROVE  (\E q : Receive(r, q) /\ q.op \in CrmOps /\ q.job = NoJob) /\ deal' = deal
  BY <1>4 DEF ConvertLead, Ask, CrmOps, crmVars
<1>5. ASSUME NEW a \in Account, DeleteAccount(r, a)
      PROVE  (\E q : Receive(r, q) /\ q.op \in CrmOps /\ q.job = NoJob) /\ deal' = deal
  BY <1>5 DEF DeleteAccount, Ask, CrmOps, crmVars
<1>6. ASSUME NEW a \in Account, NEW d \in Deal, PatchDeal(r, d, a)
      PROVE  (\E q : Receive(r, q) /\ q.op \in CrmOps /\ q.job = NoJob) /\ deal' = deal
  BY <1>6 DEF PatchDeal, Ask, CrmOps, crmVars
<1>7. ASSUME NEW a \in Account, NEW d \in Deal, NEW c \in BOOLEAN, CreateDeal(r, d, a, c)
      PROVE  (\E q : Receive(r, q) /\ q.op \in CrmOps /\ q.job = NoJob) /\ deal' = deal
  BY <1>7 DEF CreateDeal, Ask, CrmOps, crmVars
<1>8. ASSUME NEW d \in Deal, NEW c \in BOOLEAN, ChangeDealStage(r, d, c)
      PROVE  (\E q : Receive(r, q) /\ q.op \in CrmOps /\ q.job = NoJob) /\ deal' = deal
  BY <1>8 DEF ChangeDealStage, Ask, CrmOps, crmVars
<1>9. (\E q : Receive(r, q) /\ q.op \in CrmOps /\ q.job = NoJob) /\ deal' = deal
  BY <1>3, <1>4, <1>5, <1>6, <1>7, <1>8 DEF CrmRequest
<1>10. QED BY <1>1, <1>9

LEMMA CrmCallFrame == ASSUME CrmInv, CrmCall PROVE req' = req /\ DealsKept
<1>1. \A d \in Posted : d \in Deal
  BY OfCrm
<1>2. ASSUME NEW l \in Lead, CreateLead(l) \/ DeleteLead(l) PROVE req' = req /\ deal' = deal
  BY <1>2 DEF CreateLead, DeleteLead
<1>3. ASSUME NEW a \in House, CreateAccount(a) PROVE req' = req /\ deal' = deal
  BY <1>3 DEF CreateAccount
<1>4. ASSUME NEW d \in Deal, DeleteDeal(d) PROVE req' = req /\ DealsKept
  BY <1>1, <1>4, OfCrm DEF DeleteDeal, DealsKept, DealRecords, LiveDeal
<1>5. deal' = deal => DealsKept
  BY DEF DealsKept
<1>6. QED BY <1>2, <1>3, <1>4, <1>5 DEF CrmCall
-----------------------------------------------------------------------------
(* Tickets.                                                                 *)
TicketFine(t) == TicketInv(t) /\ (t \in contended \/ DecidedOnce(t))

(* A ticket that the step is not about.                                     *)
LEMMA OtherTicket ==
  ASSUME NEW t \in Ticket, TicketFine(t), inbox'[t] = inbox[t],
         \A x \in Handler : req'[x].job.ticket = t \/ req[x].job.ticket = t => req'[x] = req[x],
         t \in contended => t \in contended', t \in applied' => t \in applied
  PROVE  TicketFine(t)'
<1>1. \A x \in Handler : OnTicket(x, t)' => OnTicket(x, t) /\ req'[x] = req[x]
  BY DEF OnTicket
<1>2. \A x \in Handler : OnTicket(x, t) => OnTicket(x, t)' /\ req'[x] = req[x]
  BY DEF OnTicket
<1>3. TicketInv(t)'
  BY <1>1, <1>2 DEF TicketFine, TicketInv
<1>4. ASSUME t \notin contended' PROVE DecidedOnce(t)'
  <2>1. DecidedOnce(t)
    BY <1>4 DEF TicketFine
  <2>2. \A x \in Handler : Decides(x, t)' => Decides(x, t)
    BY <1>1 DEF Decides
  <2>3. QED BY <1>1, <1>2, <2>1, <2>2 DEF DecidedOnce, Pending
<1>5. QED BY <1>3, <1>4 DEF TicketFine

(* Requests that go on or end without a write to the inbox.                 *)
LEMMA InboxQuiet ==
  ASSUME InboxInv, inbox' = inbox, applied' = applied, contended \subseteq contended', contended' \subseteq Ticket,
         crowded' \in BOOLEAN,
         \A x \in Handler :
           \/ /\ req'[x].job.ticket = req[x].job.ticket /\ req'[x].op = req[x].op
              /\ req'[x].op = "submit" => req'[x].step = req[x].step
           \/ /\ req'[x].job.ticket = req[x].job.ticket /\ req[x].op = "approve" /\ req'[x].op = "import"
           \/ /\ req'[x].job.ticket = "none"
              /\ req[x].op = "import" => req[x].job.ticket \in contended' \cup {"none"}
  PROVE  InboxInv'
<1>1. SUFFICES ASSUME NEW t \in Ticket PROVE TicketFine(t)'
  BY DEF InboxInv, InboxTypes, TicketFine
<1>2. TicketFine(t) /\ t # "none"
  BY TicketAssumption DEF InboxInv, TicketFine
<1>3. \A x \in Handler : OnTicket(x, t)' =>
        /\ OnTicket(x, t) /\ (req'[x].op = req[x].op \/ (req[x].op = "approve" /\ req'[x].op = "import"))
        /\ req'[x].op = "submit" => req'[x].step = req[x].step
  BY <1>2 DEF OnTicket
<1>4. TicketInv(t)'
  BY <1>2, <1>3 DEF TicketFine, TicketInv
<1>5. ASSUME t \notin contended' PROVE DecidedOnce(t)'
  <2>1. DecidedOnce(t)
    BY <1>2, <1>5 DEF TicketFine
  <2>2. \A x \in Handler : Decides(x, t)' => Decides(x, t)
    BY <1>3 DEF Decides
  <2>3. \A x \in Handler : OnTicket(x, t) /\ req[x].op = "import" => OnTicket(x, t)' /\ req'[x].op = "import"
    BY <1>2, <1>5 DEF OnTicket
  <2>4. QED BY <1>3, <2>1, <2>2, <2>3 DEF DecidedOnce, Pending
<1>6. QED BY <1>4, <1>5 DEF TicketFine

LEMMA InboxStart == ImportsInit => InboxInv
<1> SUFFICES ASSUME ImportsInit PROVE InboxInv
  OBVIOUS
<1>1. InboxTypes
  BY DEF ImportsInit, InboxTypes, Statuses
<1>2. ASSUME NEW t \in Ticket PROVE TicketFine(t)
  <2>1. \A x \in Handler : ~ OnTicket(x, t)
    BY TicketAssumption DEF ImportsInit, CrmInit, OnTicket, Idle, NoJob
  <2>2. inbox[t].status = "none" /\ t \notin applied
    BY DEF ImportsInit
  <2>3. QED BY <2>1, <2>2 DEF TicketFine, TicketInv, DecidedOnce, Decides
<1>3. QED BY <1>1, <1>2 DEF InboxInv, TicketFine

LEMMA InboxIs == InboxInv <=> InboxTypes /\ \A t \in Ticket : TicketFine(t)
BY DEF InboxInv, TicketFine

(* What imports made.                                                       *)
LEMMA NoPlan ==
  ASSUME NEW q, q.op # "import" \/ (q.step \in {"refs", "match"} /\ q.job.file \in Files \cup {<<>>}
                                    /\ q.job.refs \subseteq Account /\ q.job.plan = <<>>)
  PROVE  JobOK(q)' /\ (q.op = "import" => Fits(q.job.plan)')
<1>1. DOMAIN <<>> = {} /\ <<>> = [i \in DOMAIN <<>> |-> <<>>[i]]
  OBVIOUS
<1>2. q.op = "import" => PlanOK(q.job.plan)' /\ Fits(q.job.plan)'
  BY <1>1 DEF PlanOK, Lines, Fits
<1>3. QED BY <1>2 DEF JobOK

LEMMA PlanKept ==
  ASSUME NEW plan, PlanOK(plan), DealsKept
  PROVE  PlanOK(plan)' /\ (Fits(plan) => Fits(plan)')
<1>1. PlanOK(plan)'
  BY DEF PlanOK, Lines, DealsKept
<1>2. \A a : Made(a)' \subseteq Made(a)
  BY DEF Made, LiveDeal, DealsKept
<1>3. Fits(plan) => Fits(plan)'
  BY <1>2 DEF PlanOK, Fits, DealsKept
<1>4. QED BY <1>1, <1>3

LEMMA ImportKept ==
  ASSUME ImportInv, DealsKept, crowded \in BOOLEAN, crowded => crowded',
         \A x, y \in Handler : req'[x] # req[x] /\ req'[y] # req[y] => x = y,
         \A x \in Handler : req'[x] # req[x] =>
           /\ JobOK(req[x])' /\ (req'[x].op = "submit" => req'[x].job.file \in Files)
           /\ req'[x].op = "import" /\ ~ crowded' =>
                Fits(req[x].job.plan)' /\ (req[x].op = "import" \/ Importing = {})
  PROVE  ImportInv'
<1>1. \A x \in Handler : JobOK(req[x])'
  <2> TAKE x \in Handler
  <2>1. CASE req'[x] # req[x]
    BY <2>1
  <2>2. CASE req'[x] = req[x]
    <3>1. PICK q : q = req[x]
      OBVIOUS
    <3>2. JobOK(q)
      BY <3>1 DEF ImportInv
    <3>3. JobOK(q)'
      BY <3>2, PlanKept DEF JobOK
    <3>4. QED BY <2>2, <3>1, <3>3
  <2>3. QED BY <2>1, <2>2
<1>2. \A x \in Handler : req'[x].op = "submit" => req'[x].job.file \in Files
  BY DEF ImportInv
<1>3. ASSUME ~ crowded'
      PROVE  /\ \A x, y \in Importing' : x = y
             /\ \A a \in Account : \A d, e \in Made(a)' : d = e
             /\ \A x \in Importing' : Fits(req[x].job.plan)'
  <2>1. /\ \A x, y \in Importing : x = y
        /\ \A a \in Account : \A d, e \in Made(a) : d = e
        /\ \A x \in Importing : Fits(req[x].job.plan)
    BY <1>3 DEF ImportInv
  <2>2. \A x, y \in Importing' : x = y
    BY <1>3, <2>1 DEF Importing
  <2>3. \A a : Made(a)' \subseteq Made(a)
    BY DEF Made, LiveDeal, DealsKept
  <2>4. ASSUME NEW x \in Importing' PROVE Fits(req[x].job.plan)'
    <3>1. x \in Handler /\ req'[x].op = "import"
      BY DEF Importing
    <3>2. CASE req'[x] # req[x]
      BY <1>3, <3>1, <3>2
    <3>3. CASE req'[x] = req[x]
      <4>1. PICK p : p = req[x].job.plan
        OBVIOUS
      <4>2. Fits(p) /\ PlanOK(p)
        BY <2>1, <3>1, <3>3, <4>1 DEF ImportInv, JobOK, Importing
      <4>3. Fits(p)'
        BY <4>2, PlanKept
      <4>4. QED BY <3>3, <4>1, <4>3
    <3>4. QED BY <3>2, <3>3
  <2>5. QED BY <2>1, <2>2, <2>3, <2>4
<1>4. QED BY <1>1, <1>2, <1>3 DEF ImportInv

LEMMA ImportStart == ImportsInit => ImportInv
<1> SUFFICES ASSUME ImportsInit PROVE ImportInv
  OBVIOUS
<1>1. \A x \in Handler : req[x].op = "idle"
  BY DEF ImportsInit, CrmInit, Idle
<1>2. \A d \in Posted : ~ LiveDeal(d)
  BY DEF ImportsInit, CrmInit, LiveDeal, NoDeal, Deal
<1>3. QED BY <1>1, <1>2 DEF ImportInv, JobOK, Importing, Made
-----------------------------------------------------------------------------
(* The steps of CrmImports.                                                 *)
LEMMA OfInbox ==
  ASSUME ImportsInv
  PROVE  /\ CrmInv /\ InboxInv /\ ImportInv /\ InboxTypes
         /\ inbox \in [Ticket -> [status : Statuses, stored : BOOLEAN, file : Files \cup {<<>>}]]
         /\ applied \subseteq Ticket /\ contended \subseteq Ticket /\ crowded \in BOOLEAN
         /\ \A t \in Ticket : TicketFine(t) /\ t # "none"
BY TicketAssumption DEF ImportsInv, InboxInv, InboxTypes, TicketFine

LEMMA StopsStep == ASSUME ImportsInv, NEW r \in Handler, CrmStops(r) PROVE ImportsInv'
<1> USE DEF CrmStops
<1>1. CrmInv'
  BY OfInbox, CrmStepKept
<1>2. /\ \A x \in Handler : x # r => req'[x] = req[x]
      /\ req'[r].op \in {"idle", "convert"} /\ req'[r].job.ticket = "none"
      /\ req[r].op # "convert" => req'[r] = Idle
      /\ DealsKept
  BY OfInbox, CrmStepFrame
<1>3. /\ contended \subseteq contended' /\ contended' \subseteq Ticket
      /\ req[r].op = "import" => req[r].job.ticket \in contended' \cup {"none"}
  <2>1. req[r].op = "import" => req[r].job.ticket \in Ticket \cup {"none"}
    BY OfInbox, OfJob
  <2>2. QED BY <1>2, <2>1, OfInbox
<1>4. InboxInv'
  BY <1>2, <1>3, OfInbox, InboxQuiet
<1>5. JobOK(req[r])'
  BY <1>2 DEF JobOK
<1>6. ImportInv'
  BY <1>2, <1>5, OfInbox, ImportKept
<1>7. QED BY <1>1, <1>4, <1>6 DEF ImportsInv

LEMMA CrmRequestStep ==
  ASSUME ImportsInv, NEW r \in Handler, CrmRequest(r), UNCHANGED importVars
  PROVE  ImportsInv'
<1>1. CrmInv'
  BY OfInbox, CrmRequestKept
<1>2. /\ \A x \in Handler : x # r => req'[x] = req[x]
      /\ req[r].op = "idle" /\ req'[r].op \in CrmOps /\ req'[r].job.ticket = "none" /\ deal' = deal
  BY OfInbox, CrmRequestFrame
<1>3. inbox' = inbox /\ applied' = applied /\ contended' = contended /\ crowded' = crowded
  BY DEF importVars
<1>4. InboxInv'
  BY <1>2, <1>3, OfInbox, InboxQuiet
<1>5. req'[r].op \notin {"import", "submit"}
  BY <1>2 DEF CrmOps
<1>6. JobOK(req[r])'
  BY <1>5 DEF JobOK
<1>7. DealsKept
  BY <1>2 DEF DealsKept
<1>8. ImportInv'
  BY <1>2, <1>3, <1>5, <1>6, <1>7, OfInbox, ImportKept
<1>9. QED BY <1>1, <1>4, <1>8 DEF ImportsInv

LEMMA CrmCallStep == ASSUME ImportsInv, CrmCall, UNCHANGED importVars PROVE ImportsInv'
<1>1. CrmInv'
  BY OfInbox, CrmCallKept
<1>2. req' = req /\ DealsKept
  BY OfInbox, CrmCallFrame
<1>3. inbox' = inbox /\ applied' = applied /\ contended' = contended /\ crowded' = crowded
  BY DEF importVars
<1>4. InboxInv'
  BY <1>2, <1>3, OfInbox, InboxQuiet
<1>5. ImportInv'
  BY <1>2, <1>3, OfInbox, ImportKept
<1>6. QED BY <1>1, <1>4, <1>5 DEF ImportsInv

(* A step of an import that writes no deal: its request becomes q.          *)
LEMMA TaskStep ==
  ASSUME ImportsInv, NEW r \in Handler, NEW q, req' = [req EXCEPT ![r] = q], IsRequest(q),
         \/ q.op \in TicketOps /\ q.job.ticket \in Ticket
         \/ q.op = "import" /\ q.job.ticket \in Ticket \cup {"none"}
         \/ q = Idle,
         req[r].op # "convert", UNCHANGED crmVars,
         crowded => crowded', JobOK(q)', q.op = "submit" => q.job.file \in Files,
         q.op = "import" /\ ~ crowded' => Fits(q.job.plan)' /\ (req[r].op = "import" \/ Importing = {})
  PROVE  /\ CrmInv' /\ ImportInv' /\ req'[r] = q
         /\ \A x \in Handler : x # r => req'[x] = req[x]
<1>1. CrmInv'
  BY OfInbox, JobStep
<1>2. req'[r] = q /\ \A x \in Handler : x # r => req'[x] = req[x]
  BY OfInbox, OfCrm
<1>3. DealsKept
  BY DEF DealsKept, crmVars
<1>4. \A x \in Handler : req'[x] # req[x] =>
           /\ JobOK(req[x])' /\ (req'[x].op = "submit" => req'[x].job.file \in Files)
           /\ req'[x].op = "import" /\ ~ crowded' =>
                Fits(req[x].job.plan)' /\ (req[x].op = "import" \/ Importing = {})
  BY <1>2
<1>5. ImportInv'
  BY <1>2, <1>3, <1>4, OfInbox, ImportKept
<1>6. QED BY <1>1, <1>2, <1>5

(* A step about ticket t.                                                    *)
LEMMA TicketStep ==
  ASSUME ImportsInv, CrmInv', ImportInv', InboxTypes', NEW r \in Handler, NEW t \in Ticket,
         \A x \in Handler : x # r => req'[x] = req[x],
         {req[r].job.ticket, req'[r].job.ticket} \subseteq {t, "none"},
         \A u \in Ticket : u # t => /\ inbox'[u] = inbox[u]
                                    /\ u \in contended => u \in contended'
                                    /\ u \in applied' => u \in applied,
         TicketInv(t)', t \notin contended' => DecidedOnce(t)'
  PROVE  ImportsInv'
<1>1. ASSUME NEW u \in Ticket, u # t PROVE TicketFine(u)'
  <2>1. u # "none" /\ TicketFine(u)
    BY OfInbox
  <2>2. \A x \in Handler : req'[x].job.ticket = u \/ req[x].job.ticket = u => req'[x] = req[x]
    BY <1>1, <2>1
  <2>3. QED BY <1>1, <2>1, <2>2, OtherTicket
<1>2. TicketFine(t)'
  BY DEF TicketFine
<1>3. \A u \in Ticket : TicketFine(u)'
  BY <1>1, <1>2
<1>4. InboxInv'
  BY <1>3 DEF InboxInv, TicketFine
<1>5. QED BY <1>4 DEF ImportsInv

LEMMA DecideStep ==
  ASSUME ImportsInv, NEW r \in Handler, NEW t \in Ticket, NEW op \in {"approve", "reject"}, Pending(t),
         Receive(r, Job(op, "none", t, <<>>)), Meets(t), UNCHANGED <<crmVars, faults, inbox, applied, crowded>>
  PROVE  ImportsInv'
<1>1. PICK q : q = Job(op, "none", t, <<>>)
  OBVIOUS
<1>2. IsRequest(q) /\ q.op = op /\ q.job.ticket = t
  BY <1>1, JobIs
<1>3. req' = [req EXCEPT ![r] = q] /\ req[r].op = "idle" /\ inbox' = inbox /\ applied' = applied /\ crowded' = crowded
  BY <1>1 DEF Receive
<1>4. JobOK(q)'
  BY <1>2, NoPlan
<1>5. /\ q.op \in TicketOps /\ q.job.ticket \in Ticket /\ req[r].op # "convert" /\ q.op # "submit" /\ q.op # "import"
      /\ (crowded => crowded') /\ UNCHANGED crmVars
  BY <1>2, <1>3 DEF TicketOps
<1>6. /\ CrmInv' /\ ImportInv' /\ req'[r] = q
      /\ \A x \in Handler : x # r => req'[x] = req[x]
  BY <1>2, <1>3, <1>4, <1>5, TaskStep
<1>7. req[r].job.ticket = "none"
  BY <1>3, OfInbox, OfJob DEF TicketOps
<1>8. /\ contended \subseteq contended' /\ contended' \subseteq Ticket /\ (Deciding(t) # {} => t \in contended')
  BY OfInbox DEF Meets
<1>9. InboxTypes'
  BY <1>3, <1>8, OfInbox DEF InboxTypes
<1>10. \A x \in Handler : OnTicket(x, t)' => x = r \/ (OnTicket(x, t) /\ req'[x] = req[x])
  BY <1>6 DEF OnTicket
<1>11. TicketInv(t) /\ inbox'[t] = inbox[t] /\ inbox[t].status = "pending" /\ t # "none"
  BY <1>3, OfInbox DEF TicketFine, Pending
<1>12. TicketInv(t)'
  BY <1>2, <1>5, <1>6, <1>10, <1>11 DEF TicketInv
<1>13. ASSUME t \notin contended' PROVE DecidedOnce(t)'
  <2>1. DecidedOnce(t) /\ Deciding(t) = {}
    BY <1>8, <1>13, OfInbox DEF TicketFine
  <2>2. ASSUME NEW x \in Handler, OnTicket(x, t), req[x].op # "submit" PROVE FALSE
    <3>1. req[x].op # "idle"
      BY <1>11, <2>2, OfInbox, OfJob DEF OnTicket, TicketOps
    <3>2. x \in Deciding(t)
      BY <2>2, <3>1 DEF OnTicket, Deciding, Busy
    <3>3. QED BY <2>1, <3>2
  <2>3. \A x \in Handler : ~ Decides(x, t)
    BY <2>2 DEF Decides
  <2>4. \A x \in Handler : Decides(x, t)' => x = r
    BY <1>10, <2>3 DEF Decides
  <2>5. t \notin applied
    <3>1. ~ \E x \in Handler : OnTicket(x, t) /\ req[x].op = "import"
      BY <2>2
    <3>2. QED BY <1>11, <2>1, <3>1 DEF DecidedOnce
  <2>6. Pending(t)'
    BY <1>11 DEF Pending
  <2>7. QED BY <1>3, <2>4, <2>5, <2>6 DEF DecidedOnce
<1>14. \A u \in Ticket : u # t => /\ inbox'[u] = inbox[u]
                                  /\ u \in contended => u \in contended'
                                  /\ u \in applied' => u \in applied
  BY <1>3, <1>8
<1>15. {req[r].job.ticket, req'[r].job.ticket} \subseteq {t, "none"}
  BY <1>2, <1>6, <1>7
<1>16. QED BY <1>6, <1>9, <1>12, <1>13, <1>14, <1>15, TicketStep

LEMMA ApproveImportStep ==
  ASSUME ImportsInv, NEW r \in Handler, NEW t \in Ticket, ApproveImport(r, t)
  PROVE  ImportsInv'
<1>1. Pending(t) /\ Receive(r, Job("approve", "none", t, <<>>)) /\ Meets(t)
      /\ UNCHANGED <<crmVars, faults, inbox, applied, crowded>>
  BY DEF ApproveImport
<1>2. QED BY <1>1, DecideStep

LEMMA RejectImportStep ==
  ASSUME ImportsInv, NEW r \in Handler, NEW t \in Ticket, RejectImport(r, t)
  PROVE  ImportsInv'
<1>1. Pending(t) /\ Receive(r, Job("reject", "none", t, <<>>)) /\ Meets(t)
      /\ UNCHANGED <<crmVars, faults, inbox, applied, crowded>>
  BY DEF RejectImport
<1>2. QED BY <1>1, DecideStep

LEMMA SubmitImportStep ==
  ASSUME ImportsInv, NEW r \in Handler, NEW file \in Files, NEW role \in Sellers, NEW t \in Ticket \cup {"none"},
         SubmitImport(r, file, role, t)
  PROVE  ImportsInv'
<1>1. inbox' = inbox /\ applied' = applied /\ contended' = contended /\ UNCHANGED crmVars
  BY DEF SubmitImport
<1>2. req[r].op = "idle"
  BY DEF SubmitImport, Receive
<1>3. req[r].job.ticket = "none" /\ req[r].op # "convert" /\ (crowded => crowded') /\ crowded' \in BOOLEAN
  BY <1>2, OfInbox, OfJob DEF TicketOps, SubmitImport
<1>4. CASE CanApprove(role, "deals")
  <2>1. PICK q : q = Job("import", "refs", "none", file)
    OBVIOUS
  <2>2. /\ IsRequest(q) /\ q.op = "import" /\ q.step = "refs" /\ q.job.ticket = "none"
        /\ q.job.file = file /\ q.job.refs = {} /\ q.job.plan = <<>>
    BY <2>1, JobIs
  <2>3. req' = [req EXCEPT ![r] = q] /\ crowded' = (crowded \/ Importing # {})
    BY <1>4, <2>1 DEF SubmitImport, Receive
  <2>4. JobOK(q)' /\ Fits(q.job.plan)'
    BY <2>2, NoPlan
  <2>5. /\ q.op = "import" /\ q.job.ticket \in Ticket \cup {"none"} /\ q.op # "submit"
        /\ (q.op = "import" /\ ~ crowded' => Fits(q.job.plan)' /\ (req[r].op = "import" \/ Importing = {}))
    BY <2>2, <2>3, <2>4
  <2>6. /\ CrmInv' /\ ImportInv' /\ req'[r] = q
        /\ \A x \in Handler : x # r => req'[x] = req[x]
    BY <1>1, <1>3, <2>2, <2>3, <2>4, <2>5, TaskStep
  <2>7. contended \subseteq contended' /\ contended' \subseteq Ticket
    BY <1>1, OfInbox
  <2>8. InboxInv'
    BY <1>1, <1>2, <1>3, <2>2, <2>6, <2>7, OfInbox, InboxQuiet
  <2>9. QED BY <2>6, <2>8 DEF ImportsInv
<1>5. CASE ~ CanApprove(role, "deals")
  <2>1. PICK q : q = Job("submit", "save", t, file)
    OBVIOUS
  <2>2. /\ IsRequest(q) /\ q.op = "submit" /\ q.step = "save" /\ q.job.ticket = t /\ q.job.file = file
    BY <2>1, JobIs
  <2>3. /\ req' = [req EXCEPT ![r] = q] /\ crowded' = crowded /\ t \in Ticket
        /\ inbox[t].status = "none" /\ \A x \in Handler : req[x].job.ticket # t
    BY <1>5, <2>1 DEF SubmitImport, Receive
  <2>4. JobOK(q)'
    BY <2>2, NoPlan
  <2>5. q.op \in TicketOps /\ q.job.ticket \in Ticket /\ q.op # "import" /\ (q.op = "submit" => q.job.file \in Files)
    BY <2>2, <2>3 DEF TicketOps
  <2>6. /\ CrmInv' /\ ImportInv' /\ req'[r] = q
        /\ \A x \in Handler : x # r => req'[x] = req[x]
    BY <1>1, <1>3, <2>2, <2>3, <2>4, <2>5, TaskStep
  <2>7. InboxTypes'
    BY <1>1, <2>3, OfInbox DEF InboxTypes
  <2>8. /\ \A x \in Handler : ~ OnTicket(x, t)
        /\ \A x \in Handler : OnTicket(x, t)' => x = r
    BY <2>3, <2>6 DEF OnTicket
  <2>9. TicketInv(t)'
    BY <1>1, <2>2, <2>3, <2>6, <2>8 DEF TicketInv
  <2>10. ASSUME t \notin contended' PROVE DecidedOnce(t)'
    <3>1. DecidedOnce(t)
      BY <1>1, <2>3, <2>10, OfInbox DEF TicketFine
    <3>2. t \notin applied
      BY <2>3, <2>8, <3>1 DEF DecidedOnce
    <3>3. \A x \in Handler : ~ Decides(x, t)'
      BY <2>2, <2>6, <2>8 DEF Decides
    <3>4. \A x \in Handler : OnTicket(x, t)' => req'[x].op = "submit"
      BY <2>2, <2>6, <2>8
    <3>5. QED BY <1>1, <3>2, <3>3, <3>4 DEF DecidedOnce
  <2>11. \A u \in Ticket : u # t => /\ inbox'[u] = inbox[u]
                                    /\ u \in contended => u \in contended'
                                    /\ u \in applied' => u \in applied
    BY <1>1
  <2>12. {req[r].job.ticket, req'[r].job.ticket} \subseteq {t, "none"}
    BY <1>3, <2>2, <2>6
  <2>13. QED BY <2>3, <2>6, <2>7, <2>9, <2>10, <2>11, <2>12, TicketStep
<1>6. QED BY <1>4, <1>5

(* A step of the inbox, which is about the ticket t of its request: the      *)
(* request becomes q and the ticket e.                                      *)
InboxMove(r, q, t, e) ==
  /\ req' = [req EXCEPT ![r] = q] /\ IsRequest(q) /\ req[r].job.ticket = t
  /\ (q.op \in TicketOps /\ q.job.ticket = t) \/ q = Idle
  /\ q.op = "submit" => q.job.file \in Files
  /\ req[r].op \in TicketOps \cup {"import"} /\ UNCHANGED <<crmVars, applied, contended, crowded>>
  /\ e \in [status : Statuses, stored : BOOLEAN, file : Files \cup {<<>>}]
  /\ inbox' = [inbox EXCEPT ![t] = e]

LEMMA InboxStep ==
  ASSUME ImportsInv, NEW r \in Handler, NEW t \in Ticket, NEW q, NEW e, InboxMove(r, q, t, e)
  PROVE  /\ req'[r] = q /\ inbox'[t] = e
         /\ \A x \in Handler : x # r => req'[x] = req[x]
         /\ \A x \in Handler : OnTicket(x, t)' => x = r \/ (OnTicket(x, t) /\ req'[x] = req[x])
         /\ TicketInv(t) /\ (t \notin contended => DecidedOnce(t)) /\ OnTicket(r, t)
         /\ TicketInv(t)' /\ (t \notin contended => DecidedOnce(t)') => ImportsInv'
<1> USE DEF InboxMove
<1>1. q.op # "import" /\ req[r].op # "convert" /\ UNCHANGED crmVars /\ applied' = applied /\ contended' = contended
      /\ crowded' = crowded
  BY DEF TicketOps, Idle, CrmOps
<1>2. JobOK(q)'
  BY <1>1 DEF JobOK
<1>3. /\ (q.op \in TicketOps /\ q.job.ticket \in Ticket) \/ q = Idle
      /\ crowded => crowded'
      /\ q.op = "import" /\ ~ crowded' => Fits(q.job.plan)' /\ (req[r].op = "import" \/ Importing = {})
  BY <1>1
<1>4. /\ CrmInv' /\ ImportInv' /\ req'[r] = q
      /\ \A x \in Handler : x # r => req'[x] = req[x]
  BY <1>1, <1>2, <1>3, TaskStep
<1>5. InboxTypes' /\ inbox'[t] = e /\ \A u \in Ticket : u # t => inbox'[u] = inbox[u]
  BY <1>1, OfInbox DEF InboxTypes
<1>6. q.job.ticket \in {t, "none"}
  BY IdleKnows
<1>7. {req[r].job.ticket, req'[r].job.ticket} \subseteq {t, "none"}
  BY <1>4, <1>6
<1>8. TicketInv(t)' /\ (t \notin contended => DecidedOnce(t)') => ImportsInv'
  BY <1>1, <1>4, <1>5, <1>7, TicketStep
<1>9. /\ TicketInv(t) /\ (t \notin contended => DecidedOnce(t)) /\ OnTicket(r, t)
      /\ \A x \in Handler : OnTicket(x, t)' => x = r \/ (OnTicket(x, t) /\ req'[x] = req[x])
  BY <1>4, OfInbox DEF TicketFine, OnTicket
<1>10. QED BY <1>4, <1>5, <1>8, <1>9 DEF OnTicket

LEMMA SaveFileStep == ASSUME ImportsInv, NEW r \in Handler, SaveFile(r) PROVE ImportsInv'
<1>1. PICK t : t = req[r].job.ticket
  OBVIOUS
<1>2. req[r].op = "submit" /\ req[r].step = "save" /\ t \in Ticket /\ req[r].job.file \in Files /\ IsRequest(req[r])
  BY <1>1, OfInbox, OfJob DEF SaveFile, At, TicketOps, ImportInv
<1>3. PICK q : q = [req[r] EXCEPT !.step = "ask"]
  OBVIOUS
<1>4. IsRequest(q) /\ q.op = "submit" /\ q.step = "ask" /\ q.job = req[r].job
  BY <1>2, <1>3 DEF IsRequest
<1>5. PICK e : e = [status |-> inbox[t].status, stored |-> TRUE, file |-> req[r].job.file]
  OBVIOUS
<1>6. e \in [status : Statuses, stored : BOOLEAN, file : Files \cup {<<>>}] /\ e.status = inbox[t].status /\ e.stored
  BY <1>2, <1>5, OfInbox
<1>7. /\ req' = [req EXCEPT ![r] = q] /\ inbox' = [inbox EXCEPT ![t] = e]
      /\ UNCHANGED <<crmVars, applied, contended, crowded>>
  BY <1>1, <1>3, <1>5 DEF SaveFile, Go, Become
<1>8. /\ q.op \in TicketOps /\ q.job.ticket = t /\ (q.op = "submit" => q.job.file \in Files)
      /\ req[r].op \in TicketOps \cup {"import"} /\ req[r].job.ticket = t
  BY <1>1, <1>2, <1>4 DEF TicketOps
<1>9a. InboxMove(r, q, t, e)
  BY <1>2, <1>4, <1>6, <1>7, <1>8 DEF InboxMove
<1>9. /\ req'[r] = q /\ inbox'[t] = e
      /\ \A x \in Handler : OnTicket(x, t)' => x = r \/ (OnTicket(x, t) /\ req'[x] = req[x])
      /\ TicketInv(t) /\ (t \notin contended => DecidedOnce(t)) /\ OnTicket(r, t)
      /\ TicketInv(t)' /\ (t \notin contended => DecidedOnce(t)') => ImportsInv'
  BY <1>2, <1>9a, InboxStep
<1>10. inbox[t].status = "none" /\ (\A x \in Handler : OnTicket(x, t) => x = r)
  BY <1>2, <1>9 DEF TicketInv
<1>11. \A x \in Handler : OnTicket(x, t)' => x = r
  BY <1>9, <1>10
<1>12. TicketInv(t)'
  BY <1>4, <1>6, <1>9, <1>10, <1>11 DEF TicketInv
<1>13. ASSUME t \notin contended PROVE DecidedOnce(t)'
  <2>1. t \notin applied'
    BY <1>2, <1>7, <1>9, <1>10, <1>13 DEF DecidedOnce
  <2>2. QED BY <1>4, <1>9, <1>11, <2>1 DEF DecidedOnce, Decides
<1>14. QED BY <1>9, <1>12, <1>13

LEMMA AskApprovalStep == ASSUME ImportsInv, NEW r \in Handler, AskApproval(r) PROVE ImportsInv'
<1>1. PICK t : t = req[r].job.ticket
  OBVIOUS
<1>2. req[r].op = "submit" /\ req[r].step = "ask" /\ t \in Ticket
  BY <1>1, OfInbox, OfJob DEF AskApproval, At, TicketOps
<1>3. PICK q : q = Idle
  OBVIOUS
<1>4. IsRequest(q) /\ q.op = "idle" /\ q.job.ticket = "none" /\ t # "none"
  BY <1>2, <1>3, IdleKnows, OfInbox DEF Knows
<1>5. PICK e : e = [inbox[t] EXCEPT !.status = "pending"]
  OBVIOUS
<1>6. /\ e \in [status : Statuses, stored : BOOLEAN, file : Files \cup {<<>>}]
      /\ e.status = "pending" /\ e.stored = inbox[t].stored
  BY <1>2, <1>5, OfInbox DEF Statuses
<1>7. /\ req' = [req EXCEPT ![r] = q] /\ inbox' = [inbox EXCEPT ![t] = e]
      /\ UNCHANGED <<crmVars, applied, contended, crowded>>
  BY <1>1, <1>3, <1>5 DEF AskApproval, Answer, Become
<1>8. /\ q.op # "submit" /\ req[r].op \in TicketOps \cup {"import"} /\ req[r].job.ticket = t
  BY <1>1, <1>2, <1>4 DEF TicketOps
<1>9a. InboxMove(r, q, t, e)
  BY <1>2, <1>3, <1>4, <1>6, <1>7, <1>8 DEF InboxMove
<1>9. /\ req'[r] = q /\ inbox'[t] = e
      /\ \A x \in Handler : OnTicket(x, t)' => x = r \/ (OnTicket(x, t) /\ req'[x] = req[x])
      /\ TicketInv(t) /\ (t \notin contended => DecidedOnce(t)) /\ OnTicket(r, t)
      /\ TicketInv(t)' /\ (t \notin contended => DecidedOnce(t)') => ImportsInv'
  BY <1>2, <1>9a, InboxStep
<1>10. inbox[t].status = "none" /\ inbox[t].stored /\ (\A x \in Handler : OnTicket(x, t) => x = r)
  BY <1>2, <1>9 DEF TicketInv
<1>11. \A x \in Handler : ~ OnTicket(x, t)'
  BY <1>4, <1>9, <1>10 DEF OnTicket
<1>12. TicketInv(t)'
  BY <1>6, <1>9, <1>10, <1>11 DEF TicketInv
<1>13. ASSUME t \notin contended PROVE DecidedOnce(t)'
  <2>1. t \notin applied'
    BY <1>2, <1>7, <1>9, <1>10, <1>13 DEF DecidedOnce
  <2>2. QED BY <1>11, <2>1 DEF DecidedOnce, Decides
<1>14. QED BY <1>9, <1>12, <1>13

LEMMA RejectWriteStep == ASSUME ImportsInv, NEW r \in Handler, RejectWrite(r) PROVE ImportsInv'
<1>1. PICK t : t = req[r].job.ticket
  OBVIOUS
<1>2. req[r].op = "reject" /\ t \in Ticket
  BY <1>1, OfInbox, OfJob DEF RejectWrite, TicketOps
<1>3. PICK q : q = Job("unstage", "none", t, <<>>)
  OBVIOUS
<1>4. IsRequest(q) /\ q.op = "unstage" /\ q.job.ticket = t
  BY <1>3, JobIs
<1>5. PICK e : e = [inbox[t] EXCEPT !.status = "rejected"]
  OBVIOUS
<1>6. /\ e \in [status : Statuses, stored : BOOLEAN, file : Files \cup {<<>>}]
      /\ e.status = "rejected"
  BY <1>2, <1>5, OfInbox DEF Statuses
<1>7. /\ req' = [req EXCEPT ![r] = q] /\ inbox' = [inbox EXCEPT ![t] = e]
      /\ UNCHANGED <<crmVars, applied, contended, crowded>>
  BY <1>1, <1>3, <1>5 DEF RejectWrite, Become
<1>8. /\ q.op # "submit" /\ q.op \in TicketOps /\ req[r].op \in TicketOps \cup {"import"} /\ req[r].job.ticket = t
  BY <1>1, <1>2, <1>4 DEF TicketOps
<1>9a. InboxMove(r, q, t, e)
  BY <1>2, <1>4, <1>6, <1>7, <1>8 DEF InboxMove
<1>9. /\ req'[r] = q /\ inbox'[t] = e
      /\ \A x \in Handler : OnTicket(x, t)' => x = r \/ (OnTicket(x, t) /\ req'[x] = req[x])
      /\ TicketInv(t) /\ (t \notin contended => DecidedOnce(t)) /\ OnTicket(r, t)
      /\ TicketInv(t)' /\ (t \notin contended => DecidedOnce(t)') => ImportsInv'
  BY <1>2, <1>9a, InboxStep
<1>10. \A x \in Handler : OnTicket(x, t) => req[x].op # "submit"
  BY <1>2, <1>9 DEF TicketInv
<1>11. TicketInv(t)'
  BY <1>4, <1>6, <1>9, <1>10 DEF TicketInv
<1>12. ASSUME t \notin contended PROVE DecidedOnce(t)'
  <2>1. DecidedOnce(t) /\ \A x \in Handler : Decides(x, t) => x = r
    BY <1>2, <1>9, <1>12 DEF DecidedOnce, Decides
  <2>2. \A x \in Handler : OnTicket(x, t)' => x = r
    BY <1>9, <1>10, <2>1 DEF Decides
  <2>3. t \notin applied'
    BY <1>2, <1>7, <1>9, <1>10, <2>1 DEF DecidedOnce, Pending, Decides
  <2>4. QED BY <1>4, <1>9, <2>2, <2>3 DEF DecidedOnce, Decides
<1>13. QED BY <1>9, <1>11, <1>12

LEMMA DeleteFileStep == ASSUME ImportsInv, NEW r \in Handler, DeleteFile(r) PROVE ImportsInv'
<1>1. PICK t : t = req[r].job.ticket
  OBVIOUS
<1>2. req[r].op = "unstage" /\ t \in Ticket
  BY <1>1, OfInbox, OfJob DEF DeleteFile, TicketOps
<1>3. PICK q : q = Idle
  OBVIOUS
<1>4. IsRequest(q) /\ q.op = "idle" /\ q.job.ticket = "none" /\ t # "none"
  BY <1>2, <1>3, IdleKnows, OfInbox DEF Knows
<1>5. PICK e : e = [status |-> inbox[t].status, stored |-> FALSE, file |-> <<>>]
  OBVIOUS
<1>6. e \in [status : Statuses, stored : BOOLEAN, file : Files \cup {<<>>}] /\ e.status = inbox[t].status
  BY <1>2, <1>5, OfInbox
<1>7. /\ req' = [req EXCEPT ![r] = q] /\ inbox' = [inbox EXCEPT ![t] = e]
      /\ UNCHANGED <<crmVars, applied, contended, crowded>>
  BY <1>1, <1>3, <1>5 DEF DeleteFile, Answer, Become
<1>8. /\ q.op # "submit" /\ req[r].op \in TicketOps \cup {"import"} /\ req[r].job.ticket = t
  BY <1>1, <1>2, <1>4 DEF TicketOps
<1>9a. InboxMove(r, q, t, e)
  BY <1>2, <1>3, <1>4, <1>6, <1>7, <1>8 DEF InboxMove
<1>9. /\ req'[r] = q /\ inbox'[t] = e
      /\ \A x \in Handler : OnTicket(x, t)' => x = r \/ (OnTicket(x, t) /\ req'[x] = req[x])
      /\ TicketInv(t) /\ (t \notin contended => DecidedOnce(t)) /\ OnTicket(r, t)
      /\ TicketInv(t)' /\ (t \notin contended => DecidedOnce(t)') => ImportsInv'
  BY <1>2, <1>9a, InboxStep
<1>10. \A x \in Handler : OnTicket(x, t)' => OnTicket(x, t) /\ x # r /\ req'[x] = req[x]
  BY <1>4, <1>9 DEF OnTicket
<1>11. /\ inbox[t].status \in {"approved", "rejected"}
       /\ \A x \in Handler : OnTicket(x, t) => req[x].op # "submit"
  BY <1>2, <1>9 DEF TicketInv
<1>12. TicketInv(t)'
  BY <1>6, <1>9, <1>10, <1>11 DEF TicketInv
<1>13. ASSUME t \notin contended PROVE DecidedOnce(t)'
  <2>1. DecidedOnce(t) /\ \A x \in Handler : Decides(x, t) => x = r
    BY <1>2, <1>9, <1>13 DEF DecidedOnce, Decides
  <2>2. \A x \in Handler : ~ OnTicket(x, t)'
    BY <1>10, <1>11, <2>1 DEF Decides
  <2>3. t \in applied' => inbox'[t].status = "approved"
    BY <1>2, <1>6, <1>7, <1>9, <1>11, <2>1 DEF DecidedOnce, Decides
  <2>4. QED BY <2>2, <2>3 DEF DecidedOnce, Decides
<1>14. QED BY <1>9, <1>12, <1>13

LEMMA ImportedStep == ASSUME ImportsInv, NEW r \in Handler, Imported(r) PROVE ImportsInv'
<1>1. PICK t : t = req[r].job.ticket
  OBVIOUS
<1>2. req[r].op = "import" /\ t \in Ticket \cup {"none"}
  BY <1>1, OfInbox, OfJob DEF Imported, At
<1>3. /\ UNCHANGED crmVars /\ applied' = applied /\ contended' = contended /\ crowded' = crowded
  BY DEF Imported
<1>4. CASE t = "none"
  <2>1. PICK q : q = Idle
    OBVIOUS
  <2>2. IsRequest(q) /\ q.op = "idle" /\ q.job.ticket = "none"
    BY <2>1, IdleKnows DEF Knows
  <2>3. req' = [req EXCEPT ![r] = q] /\ inbox' = inbox
    BY <1>1, <1>4, <2>1 DEF Imported, Answer, Become
  <2>4. JobOK(q)' /\ q.op # "submit" /\ q.op # "import"
    BY <2>2 DEF JobOK
  <2>5. /\ CrmInv' /\ ImportInv' /\ req'[r] = q
        /\ \A x \in Handler : x # r => req'[x] = req[x]
    BY <1>2, <1>3, <2>1, <2>2, <2>3, <2>4, TaskStep
  <2>6. InboxInv'
    BY <1>1, <1>2, <1>3, <1>4, <2>2, <2>3, <2>5, OfInbox, InboxQuiet
  <2>7. QED BY <2>5, <2>6 DEF ImportsInv
<1>5. CASE t # "none"
  <2>1. PICK q : q = Job("unstage", "none", t, <<>>)
    OBVIOUS
  <2>2. IsRequest(q) /\ q.op = "unstage" /\ q.job.ticket = t /\ t \in Ticket
    BY <1>2, <1>5, <2>1, JobIs
  <2>3. PICK e : e = [inbox[t] EXCEPT !.status = "approved"]
    OBVIOUS
  <2>4. /\ e \in [status : Statuses, stored : BOOLEAN, file : Files \cup {<<>>}]
        /\ e.status = "approved"
    BY <2>2, <2>3, OfInbox DEF Statuses
  <2>5. /\ req' = [req EXCEPT ![r] = q] /\ inbox' = [inbox EXCEPT ![t] = e]
        /\ UNCHANGED <<crmVars, applied, contended, crowded>>
    BY <1>1, <1>3, <1>5, <2>1, <2>3 DEF Imported, Become
  <2>6. /\ q.op # "submit" /\ q.op \in TicketOps /\ req[r].op \in TicketOps \cup {"import"} /\ req[r].job.ticket = t
    BY <1>1, <1>2, <2>2 DEF TicketOps
  <2>7a. InboxMove(r, q, t, e)
    BY <2>2, <2>4, <2>5, <2>6 DEF InboxMove
  <2>7. /\ req'[r] = q /\ inbox'[t] = e
        /\ \A x \in Handler : OnTicket(x, t)' => x = r \/ (OnTicket(x, t) /\ req'[x] = req[x])
        /\ TicketInv(t) /\ (t \notin contended => DecidedOnce(t)) /\ OnTicket(r, t)
        /\ TicketInv(t)' /\ (t \notin contended => DecidedOnce(t)') => ImportsInv'
    BY <2>2, <2>7a, InboxStep
  <2>8. \A x \in Handler : OnTicket(x, t) => req[x].op # "submit"
    BY <1>2, <2>7 DEF TicketInv
  <2>9. TicketInv(t)'
    BY <2>2, <2>4, <2>7, <2>8 DEF TicketInv
  <2>10. ASSUME t \notin contended PROVE DecidedOnce(t)'
    <3>1. DecidedOnce(t) /\ \A x \in Handler : Decides(x, t) => x = r
      BY <1>2, <2>7, <2>10 DEF DecidedOnce, Decides
    <3>2. \A x \in Handler : OnTicket(x, t)' => x = r
      BY <2>7, <2>8, <3>1 DEF Decides
    <3>3. QED BY <2>2, <2>4, <2>7, <3>2 DEF DecidedOnce, Decides
  <2>11. QED BY <2>7, <2>9, <2>10
<1>6. QED BY <1>4, <1>5

LEMMA OpenFileStep == ASSUME ImportsInv, NEW r \in Handler, OpenFile(r) PROVE ImportsInv'
<1>1. PICK t : t = req[r].job.ticket
  OBVIOUS
<1>2. req[r].op = "approve" /\ t \in Ticket
  BY <1>1, OfInbox, OfJob DEF OpenFile, TicketOps
<1>3. /\ UNCHANGED crmVars /\ inbox' = inbox /\ applied' = applied /\ contended' = contended
      /\ crowded' = (crowded \/ Importing # {})
  BY DEF OpenFile
<1>4. (crowded => crowded') /\ crowded' \in BOOLEAN /\ contended \subseteq contended' /\ contended' \subseteq Ticket
  BY <1>3, OfInbox
<1>5. CASE inbox[t].stored
  <2>1. PICK q : q = Job("import", "refs", t, inbox[t].file)
    OBVIOUS
  <2>2. /\ IsRequest(q) /\ q.op = "import" /\ q.step = "refs" /\ q.job.ticket = t
        /\ q.job.file = inbox[t].file /\ q.job.refs = {} /\ q.job.plan = <<>>
    BY <2>1, JobIs
  <2>3. q.job.file \in Files \cup {<<>>}
    BY <1>2, <2>2, OfInbox
  <2>4. req' = [req EXCEPT ![r] = q]
    BY <1>1, <1>5, <2>1 DEF OpenFile, Become
  <2>5. JobOK(q)' /\ Fits(q.job.plan)'
    BY <2>2, <2>3, NoPlan
  <2>6. /\ q.op = "import" /\ q.job.ticket \in Ticket \cup {"none"} /\ q.op # "submit" /\ req[r].op # "convert"
        /\ (q.op = "import" /\ ~ crowded' => Fits(q.job.plan)' /\ (req[r].op = "import" \/ Importing = {}))
    BY <1>2, <1>3, <2>2, <2>5
  <2>7. /\ CrmInv' /\ ImportInv' /\ req'[r] = q
        /\ \A x \in Handler : x # r => req'[x] = req[x]
    BY <1>3, <1>4, <2>2, <2>4, <2>5, <2>6, TaskStep
  <2>8. InboxInv'
    BY <1>1, <1>2, <1>3, <1>4, <2>2, <2>7, OfInbox, InboxQuiet
  <2>9. QED BY <2>7, <2>8 DEF ImportsInv
<1>6. CASE ~ inbox[t].stored
  <2>1. PICK q : q = Idle
    OBVIOUS
  <2>2. IsRequest(q) /\ q.op = "idle" /\ q.job.ticket = "none"
    BY <2>1, IdleKnows DEF Knows
  <2>3. req' = [req EXCEPT ![r] = q]
    BY <1>1, <1>6, <2>1 DEF OpenFile, Answer, Become
  <2>4. JobOK(q)' /\ q.op # "submit" /\ q.op # "import" /\ req[r].op # "convert"
    BY <1>2, <2>2 DEF JobOK
  <2>5. /\ CrmInv' /\ ImportInv' /\ req'[r] = q
        /\ \A x \in Handler : x # r => req'[x] = req[x]
    BY <1>3, <1>4, <2>1, <2>2, <2>3, <2>4, TaskStep
  <2>6. InboxInv'
    BY <1>1, <1>2, <1>3, <1>4, <2>2, <2>5, OfInbox, InboxQuiet
  <2>7. QED BY <2>5, <2>6 DEF ImportsInv
<1>7. QED BY <1>5, <1>6

(* An import goes on to step s, and writes nothing.                         *)
LEMMA OnwardStep ==
  ASSUME ImportsInv, NEW r \in Handler, req[r].op = "import", NEW s, NEW R, NEW P,
         s \in {"refs", "match", "apply"}, R \subseteq Account, PlanOK(P), ~ crowded => Fits(P),
         Become(r, Onward(req[r], s, R, P)), UNCHANGED <<crmVars, faults, importVars>>
  PROVE  ImportsInv'
<1>1. PICK q : q = Onward(req[r], s, R, P)
  OBVIOUS
<1>2. /\ IsRequest(q) /\ q.op = "import" /\ q.step = s /\ q.job.ticket = req[r].job.ticket
      /\ q.job.file = req[r].job.file /\ q.job.refs = R /\ q.job.plan = P
  BY <1>1, OfInbox, ImportGoesOn
<1>3. /\ UNCHANGED crmVars /\ inbox' = inbox /\ applied' = applied /\ contended' = contended
      /\ crowded' = crowded /\ req' = [req EXCEPT ![r] = q]
  BY <1>1 DEF importVars, Become
<1>4. DealsKept
  BY <1>3 DEF DealsKept, crmVars
<1>5. PlanOK(P)' /\ (~ crowded => Fits(P)')
  BY <1>4, PlanKept
<1>6. q.job.file \in Files \cup {<<>>}
  BY <1>2, OfInbox DEF ImportInv, JobOK
<1>7. JobOK(q)'
  BY <1>2, <1>5, <1>6 DEF JobOK
<1>8. /\ q.job.ticket \in Ticket \cup {"none"} /\ q.op # "submit" /\ req[r].op # "convert" /\ (crowded => crowded')
      /\ (q.op = "import" /\ ~ crowded' => Fits(q.job.plan)' /\ (req[r].op = "import" \/ Importing = {}))
  BY <1>2, <1>3, <1>5, OfInbox, OfJob
<1>9. /\ CrmInv' /\ ImportInv' /\ req'[r] = q
      /\ \A x \in Handler : x # r => req'[x] = req[x]
  BY <1>2, <1>3, <1>7, <1>8, TaskStep
<1>10. contended \subseteq contended' /\ contended' \subseteq Ticket /\ crowded' \in BOOLEAN
  BY <1>3, OfInbox
<1>11. InboxInv'
  BY <1>2, <1>3, <1>9, <1>10, OfInbox, InboxQuiet
<1>12. QED BY <1>9, <1>11 DEF ImportsInv

LEMMA ReadRefsStep == ASSUME ImportsInv, NEW r \in Handler, ReadRefs(r) PROVE ImportsInv'
<1>1. PICK R : R = {a \in Account : LiveAccount(a)}
  OBVIOUS
<1>2. PICK P : P = <<>>
  OBVIOUS
<1>3. DOMAIN P = {} /\ P = [i \in DOMAIN P |-> P[i]]
  BY <1>2
<1>4. PlanOK(P) /\ Fits(P)
  BY <1>3 DEF PlanOK, Lines, Fits
<1>5. R \subseteq Account /\ req[r].op = "import" /\ Become(r, Onward(req[r], "match", R, P))
  BY <1>1, <1>2 DEF ReadRefs, At
<1>6. UNCHANGED <<crmVars, faults, importVars>>
  BY DEF ReadRefs
<1>7. QED BY <1>4, <1>5, <1>6, OnwardStep

(* A plan of the sound rows, by their lines.                                *)
LEMMA PlannedIs ==
  ASSUME CrmInv, NEW file \in Files \cup {<<>>}, NEW R \in SUBSET Account,
         NEW found \in [Keyed(file) -> Posted \cup {"none"}],
         \A a \in Keyed(file) : IF Existing(a) = {} THEN found[a] = "none" ELSE found[a] \in Existing(a)
  PROVE  PlanOK(Planned(file, R, found)) /\ Fits(Planned(file, R, found))
<1>1. PICK P : P = Planned(file, R, found)
  OBVIOUS
<1>2. PICK D : D = {n \in DOMAIN file : file[n].sound /\ file[n].acc \in R /\ ~ Guarded(file[n], found[file[n].acc])}
  OBVIOUS
<1>3. P = [i \in D |-> [acc |-> file[i].acc, stage |-> file[i].stage, target |-> found[file[i].acc]]]
  BY <1>1, <1>2 DEF Planned
<1>4. DOMAIN file \subseteq Nat
  BY FilesAssumption
<1>5. Lines(P) /\ DOMAIN P = D
  BY <1>2, <1>3, <1>4 DEF Lines
<1>6. ASSUME NEW i \in D
      PROVE  /\ P[i] = [acc |-> P[i].acc, stage |-> P[i].stage, target |-> P[i].target]
             /\ P[i].acc \in Account /\ P[i].acc \in Keyed(file) /\ P[i].target = found[P[i].acc]
  BY <1>2, <1>3 DEF Keyed
<1>7. ASSUME NEW i \in D
      PROVE  /\ P[i].target \in Posted \cup {"none"}
             /\ P[i].target = "none" => Made(P[i].acc) = {}
             /\ P[i].target # "none" => deal[P[i].target].state # "none" /\ deal[P[i].target].acc = P[i].acc
  <2>1. PICK a : a = P[i].acc
    OBVIOUS
  <2>2. a \in Keyed(file) /\ P[i].target = found[a] /\ found[a] \in Posted \cup {"none"}
    BY <1>6, <2>1
  <2>3. Made(a) \subseteq Existing(a)
    BY DEF Made, Existing
  <2>4. found[a] # "none" => found[a] \in Existing(a)
    BY <2>2
  <2>5. found[a] = "none" => Existing(a) = {}
    BY <2>2, NameAssumption DEF Existing
  <2>6. QED BY <2>1, <2>2, <2>3, <2>4, <2>5 DEF Existing, LiveDeal
<1>8. PlanOK(P)
  BY <1>5, <1>6, <1>7 DEF PlanOK
<1>9. Fits(P)
  BY <1>5, <1>7 DEF Fits
<1>10. QED BY <1>1, <1>8, <1>9

LEMMA MatchStep == ASSUME ImportsInv, NEW r \in Handler, Match(r) PROVE ImportsInv'
<1>1. PICK file, R : file = req[r].job.file /\ R = req[r].job.refs
  OBVIOUS
<1>2. req[r].op = "import" /\ file \in Files \cup {<<>>} /\ R \in SUBSET Account
  BY <1>1, OfInbox DEF Match, At, ImportInv, JobOK
<1>3. PICK found \in [Keyed(file) -> Posted \cup {"none"}] :
        /\ \A a \in Keyed(file) :
             IF Existing(a) = {} THEN found[a] = "none" ELSE found[a] \in Existing(a)
        /\ Become(r, Onward(req[r], "apply", {}, Planned(file, R, found)))
  BY <1>1 DEF Match
<1>4. PICK P : P = Planned(file, R, found)
  OBVIOUS
<1>5. PlanOK(P) /\ Fits(P)
  BY <1>2, <1>3, <1>4, OfInbox, PlannedIs
<1>6. Become(r, Onward(req[r], "apply", {}, P)) /\ UNCHANGED <<crmVars, faults, importVars>>
  BY <1>3, <1>4 DEF Match
<1>7. QED BY <1>2, <1>5, <1>6, OnwardStep

LEMMA NextLineIs ==
  ASSUME NEW plan, Lines(plan), plan # <<>>
  PROVE  NextLine(plan) \in DOMAIN plan
<1>1. DOMAIN plan # {}
  <2> SUFFICES ASSUME DOMAIN plan = {} PROVE FALSE
    OBVIOUS
  <2>1. plan = [i \in {} |-> plan[i]]
    BY DEF Lines
  <2>2. QED BY <2>1
<1>2. \E m \in DOMAIN plan : \A n \in DOMAIN plan : m <= n
  BY <1>1, LeastNatural DEF Lines
<1>3. QED BY <1>2 DEF NextLine

(* The plan that is left.                                                   *)
LEMMA RestIs ==
  ASSUME NEW plan, PlanOK(plan), NEW line \in DOMAIN plan, NEW rest, rest = [i \in DOMAIN plan \ {line} |-> plan[i]]
  PROVE  PlanOK(rest) /\ (Fits(plan) => Fits(rest))
<1>1. Lines(rest) /\ DOMAIN rest = DOMAIN plan \ {line} /\ \A i \in DOMAIN rest : rest[i] = plan[i]
  BY DEF PlanOK, Lines
<1>2. PlanOK(rest)
  BY <1>1 DEF PlanOK
<1>3. QED BY <1>1, <1>2 DEF Fits

(* The plan after the first row of an account inserted d.                   *)
LEMMA BoundIs ==
  ASSUME NEW rest, PlanOK(rest), NEW a \in Account, NEW d \in Posted, NEW P, P = Bound(rest, a, d)
  PROVE  /\ Lines(P) /\ DOMAIN P = DOMAIN rest
         /\ \A i \in DOMAIN P :
              /\ P[i] = [acc |-> P[i].acc, stage |-> P[i].stage, target |-> P[i].target]
              /\ P[i].acc = rest[i].acc
              /\ P[i].target = IF rest[i].acc = a THEN d ELSE rest[i].target
<1>1. P = [i \in DOMAIN rest |-> IF rest[i].acc = a THEN [rest[i] EXCEPT !.target = d] ELSE rest[i]]
  BY DEF Bound
<1>2. Lines(P) /\ DOMAIN P = DOMAIN rest
  BY <1>1 DEF PlanOK, Lines
<1>3. ASSUME NEW i \in DOMAIN rest
      PROVE  /\ P[i] = [acc |-> P[i].acc, stage |-> P[i].stage, target |-> P[i].target]
             /\ P[i].acc = rest[i].acc
             /\ P[i].target = IF rest[i].acc = a THEN d ELSE rest[i].target
  <2>1. rest[i] = [acc |-> rest[i].acc, stage |-> rest[i].stage, target |-> rest[i].target]
    BY DEF PlanOK
  <2>2. PICK e : e = rest[i]
    OBVIOUS
  <2>3. e = [acc |-> e.acc, stage |-> e.stage, target |-> e.target]
    BY <2>1, <2>2
  <2>4. [e EXCEPT !.target = d] = [acc |-> e.acc, stage |-> e.stage, target |-> d]
    BY <2>3
  <2>5. P[i] = IF e.acc = a THEN [acc |-> e.acc, stage |-> e.stage, target |-> d] ELSE e
    BY <1>1, <2>2, <2>4
  <2>6. QED BY <2>2, <2>3, <2>5
<1>4. QED BY <1>2, <1>3

(* A write of an import to deal d: the request goes on with the plan P.     *)
LEMMA RowStep ==
  ASSUME ImportsInv, NEW r \in Handler, req[r].op = "import", NEW d \in Posted, NEW e \in DealRecords,
         deal' = [deal EXCEPT ![d] = e], e.state # "none",
         NEW P, Become(r, Onward(req[r], "apply", {}, P)), PlanOK(P)',
         applied' = applied \cup ({req[r].job.ticket} \ {"none"}),
         UNCHANGED <<account, contact, lead, marks, faults, inbox, contended, crowded>>,
         ~ crowded => Fits(P)' /\ \A a \in Account : \A x, y \in Made(a)' : x = y
  PROVE  ImportsInv'
<1>1. PICK q : q = Onward(req[r], "apply", {}, P)
  OBVIOUS
<1>2. /\ IsRequest(q) /\ q.op = "import" /\ q.step = "apply" /\ q.job.ticket = req[r].job.ticket
      /\ q.job.file = req[r].job.file /\ q.job.refs = {} /\ q.job.plan = P
  <2>1. CrmInv
    BY OfInbox
  <2>2. QED BY ONLY r \in Handler, req[r].op = "import", <1>1, <2>1, ImportGoesOn
<1>3. req' = [req EXCEPT ![r] = q]
  BY <1>1 DEF Become
<1>4. req'[r] = q /\ \A x \in Handler : x # r => req'[x] = req[x]
  BY <1>3, OfInbox, OfCrm
<1>5. /\ deal' \in [Deal -> DealRecords] /\ d \in Deal /\ d \notin Conv /\ deal'[d] = e
      /\ \A x \in Deal : x # d => deal'[x] = deal[x]
      /\ \A k \in Conv : deal'[k] = deal[k]
      /\ \A x \in Deal : deal[x].state # "none" => deal'[x].state # "none"
  <2>1. d \in Deal /\ d \notin Conv /\ Conv \subseteq Deal /\ deal \in [Deal -> DealRecords]
    BY NameAssumption, OfInbox, OfCrm
  <2>2. QED BY <2>1
<1>6. CrmInv'
  <2>1. q.job.ticket \in Ticket \cup {"none"}
    BY <1>2, OfInbox, OfJob
  <2>2. Knows(q)'
    BY <1>2, <2>1 DEF Knows, IsRequest, CrmOps, TicketOps
  <2>3. /\ account' \in [Account -> States] /\ contact' \in [Conv -> {"none", "live", "gone"}]
        /\ lead' \in [Lead -> LeadRecords] /\ CrmTypes
    BY OfInbox, OfCrm
  <2>4. CrmTypes'
    BY <1>3, <1>5, <2>2, <2>3, KnownKept
  <2>5. /\ \A x \in Handler, k \in Conv :
             /\ Converts(x, k)' => req'[x] = req[x]
             /\ Converts(x, k) => Converts(x, k)' \/ k \in broken'
    BY <1>2, <1>3, OfInbox, NotConverting
  <2>6. broken' = broken /\ torn' = torn /\ early' = early
    BY DEF marks
  <2>7. QED BY <1>5, <2>4, <2>5, <2>6, OfInbox, QuietKept
<1>7. \A t \in Ticket : \A x \in Handler :
        /\ OnTicket(x, t)' <=> OnTicket(x, t)
        /\ req'[x].op = req[x].op /\ (req'[x].op = "submit" => req'[x].step = req[x].step)
  BY <1>2, <1>4 DEF OnTicket
<1>8. applied' \subseteq Ticket /\ inbox' = inbox /\ contended' = contended /\ crowded' = crowded
      /\ \A t \in applied' : t \in applied \/ OnTicket(r, t)
  BY OfInbox, OfJob DEF OnTicket
<1>9. ASSUME NEW t \in Ticket PROVE TicketFine(t)'
  <2>1. TicketInv(t)'
    BY <1>7, <1>8, OfInbox DEF TicketFine, TicketInv
  <2>2. ASSUME t \notin contended PROVE DecidedOnce(t)'
    BY <1>7, <1>8, <2>2, OfInbox DEF TicketFine, DecidedOnce, Decides, Pending
  <2>3. QED BY <1>8, <2>1, <2>2 DEF TicketFine
<1>10. InboxInv'
  <2>1. InboxTypes'
    BY <1>8, OfInbox DEF InboxTypes
  <2>2. QED BY <1>9, <2>1 DEF InboxInv, TicketFine
<1>11. \A x \in Handler : JobOK(req[x])'
  <2> TAKE x \in Handler
  <2>1. JobOK(q)'
    BY <1>2, OfInbox DEF JobOK, ImportInv
  <2>2. CASE x = r
    BY <1>4, <2>1, <2>2
  <2>3. CASE x # r
    <3>1. PICK p : p = req[x]
      OBVIOUS
    <3>2. JobOK(p)
      BY <3>1, OfInbox DEF ImportInv
    <3>3. ASSUME NEW plan, PlanOK(plan) PROVE PlanOK(plan)'
      BY <1>5, <3>3, OfInbox, OfCrm DEF PlanOK, Lines
    <3>4. JobOK(p)'
      BY <3>2, <3>3 DEF JobOK
    <3>5. QED BY <1>4, <2>3, <3>1, <3>4
  <2>4. QED BY <2>2, <2>3
<1>12. ASSUME ~ crowded'
       PROVE  /\ \A x, y \in Importing' : x = y
              /\ \A a \in Account : \A x, y \in Made(a)' : x = y
              /\ \A x \in Importing' : Fits(req[x].job.plan)'
  <2>1. Importing' = Importing
    BY <1>2, <1>4 DEF Importing
  <2>1a. r \in Importing /\ \A x, y \in Importing : x = y
    BY <1>8, <1>12, OfInbox DEF Importing, ImportInv
  <2>2. Fits(P)' /\ req'[r].job.plan = P
    BY <1>2, <1>4, <1>8, <1>12
  <2>3. \A x \in Importing' : x = r
    BY <2>1, <2>1a
  <2>4. \A x \in Importing' : Fits(req[x].job.plan)'
    BY <2>2, <2>3
  <2>5. QED BY <1>8, <1>12, <2>1, <2>1a, <2>4
<1>13. \A x \in Handler : req'[x].op = "submit" => req'[x].job.file \in Files
  BY <1>2, <1>4, OfInbox DEF ImportInv
<1>14. ImportInv'
  BY <1>11, <1>12, <1>13 DEF ImportInv
<1>15. QED BY <1>6, <1>10, <1>14 DEF ImportsInv

LEMMA ApplyRowStep == ASSUME ImportsInv, NEW r \in Handler, ApplyRow(r) PROVE ImportsInv'
<1>1. PICK plan : plan = req[r].job.plan
  OBVIOUS
<1>2. req[r].op = "import" /\ plan # <<>> /\ PlanOK(plan)
  BY <1>1, OfInbox DEF ApplyRow, At, ImportInv, JobOK
<1>3. ~ crowded => Fits(plan) /\ \A b \in Account : \A x, y \in Made(b) : x = y
  BY <1>1, <1>2, OfInbox DEF ImportInv, Importing
<1>4. PICK line : line = NextLine(plan)
  OBVIOUS
<1>5. line \in DOMAIN plan
  BY <1>2, <1>4, NextLineIs DEF PlanOK
<1>6. PICK a, target, cell : a = plan[line].acc /\ target = plan[line].target /\ cell = plan[line].stage
  OBVIOUS
<1>7. /\ a \in Account /\ target \in Posted \cup {"none"}
      /\ target # "none" => deal[target].state # "none"
  BY <1>2, <1>5, <1>6 DEF PlanOK
<1>8. PICK rest : rest = [i \in DOMAIN plan \ {line} |-> plan[i]]
  OBVIOUS
<1>9. PlanOK(rest) /\ (Fits(plan) => Fits(rest))
  BY <1>2, <1>5, <1>8, RestIs
<1>10. /\ applied' = applied \cup ({req[r].job.ticket} \ {"none"})
       /\ UNCHANGED <<account, contact, lead, marks, faults, inbox, contended, crowded>>
  BY DEF ApplyRow
<1>11. deal \in [Deal -> DealRecords] /\ Posted \subseteq Deal /\ "none" \notin Posted
  BY NameAssumption, OfInbox, OfCrm
<1>12. CASE target = "none"
  <2>1. PICK d \in Posted :
          /\ Fresh(d)
          /\ deal' = [deal EXCEPT ![d] = [state |-> "live", acc |-> a, closed |-> Cell(cell, FALSE), made |-> TRUE]]
          /\ Become(r, Onward(req[r], "apply", {}, Bound(rest, a, d)))
    BY <1>1, <1>4, <1>6, <1>8, <1>12 DEF ApplyRow
  <2>2. PICK e : e = [state |-> "live", acc |-> a, closed |-> Cell(cell, FALSE), made |-> TRUE]
    OBVIOUS
  <2>3. e \in DealRecords /\ e.state = "live" /\ e.acc = a /\ e.made
    BY <1>7, <2>2 DEF DealRecords, States, Cell
  <2>4. PICK P : P = Bound(rest, a, d)
    OBVIOUS
  <2>5. /\ Lines(P) /\ DOMAIN P = DOMAIN rest
        /\ \A i \in DOMAIN P :
             /\ P[i] = [acc |-> P[i].acc, stage |-> P[i].stage, target |-> P[i].target]
             /\ P[i].acc = rest[i].acc
             /\ P[i].target = IF rest[i].acc = a THEN d ELSE rest[i].target
    BY <1>7, <1>9, <2>4, BoundIs
  <2>6. /\ deal' = [deal EXCEPT ![d] = e] /\ deal[d].state = "none" /\ deal'[d] = e
        /\ \A x \in Posted : x # d => deal'[x] = deal[x]
    BY <1>11, <2>1, <2>2 DEF Fresh
  <2>7. PlanOK(P)'
    <3>1. Lines(P)'
      BY <2>5 DEF Lines
    <3>2. ASSUME NEW i \in DOMAIN P
          PROVE  /\ P[i].acc \in Account /\ P[i].target \in Posted \cup {"none"}
                 /\ P[i].target # "none" => deal'[P[i].target].state # "none"
      BY <1>9, <2>3, <2>5, <2>6 DEF PlanOK
    <3>3. QED BY <2>5, <3>1, <3>2 DEF PlanOK
  <2>8. ASSUME ~ crowded
        PROVE  Fits(P)' /\ \A b \in Account : \A x, y \in Made(b)' : x = y
    <3>1. Fits(rest) /\ Made(a) = {} /\ \A b \in Account : \A x, y \in Made(b) : x = y
      BY <1>3, <1>5, <1>6, <1>9, <1>12, <2>8 DEF Fits
    <3>2. \A b : b # a => Made(b)' = Made(b)
      BY <2>3, <2>6 DEF Made, LiveDeal
    <3>3. \A x \in Made(a)' : x = d
      BY <2>3, <2>6, <3>1 DEF Made, LiveDeal
    <3>4. ASSUME NEW i \in DOMAIN P
          PROVE  IF P[i].target = "none" THEN Made(P[i].acc)' = {}
                 ELSE deal'[P[i].target].made => deal'[P[i].target].acc = P[i].acc
      <4>1. CASE rest[i].acc = a
        BY <1>11, <2>3, <2>5, <2>6, <4>1
      <4>2. CASE rest[i].acc # a
        <5>1. P[i].target = rest[i].target /\ P[i].acc = rest[i].acc /\ P[i].acc # a
          BY <2>5, <4>2
        <5>2. P[i].target # "none" => P[i].target \in Posted /\ P[i].target # d
          BY <1>9, <2>5, <2>6, <5>1 DEF PlanOK
        <5>3. P[i].target # "none" => deal'[P[i].target] = deal[P[i].target]
          BY <2>6, <5>2
        <5>4. QED BY <2>5, <3>1, <3>2, <5>1, <5>3 DEF Fits
      <4>3. QED BY <4>1, <4>2
    <3>5. Fits(P)'
      BY <3>4 DEF Fits
    <3>6. QED BY <3>1, <3>2, <3>3, <3>5
  <2>9. Become(r, Onward(req[r], "apply", {}, P)) /\ e.state # "none"
    BY <2>1, <2>3, <2>4
  <2>10. QED BY <1>2, <1>10, <2>3, <2>6, <2>7, <2>8, <2>9, RowStep
<1>13. CASE target # "none"
  <2>1. /\ deal' = [deal EXCEPT ![target] =
              [state |-> @.state, acc |-> a, closed |-> Cell(cell, @.closed), made |-> @.made]]
        /\ Become(r, Onward(req[r], "apply", {}, rest))
    BY <1>1, <1>4, <1>6, <1>8, <1>13 DEF ApplyRow
  <2>2. target \in Posted /\ deal[target] \in DealRecords /\ deal[target].state # "none"
    BY <1>7, <1>11, <1>13
  <2>3. PICK e : e = [state |-> deal[target].state, acc |-> a, closed |-> Cell(cell, deal[target].closed),
                      made |-> deal[target].made]
    OBVIOUS
  <2>4. e \in DealRecords /\ e.state = deal[target].state /\ e.acc = a /\ e.made = deal[target].made
    BY <1>7, <2>2, <2>3 DEF DealRecords, Cell
  <2>5. /\ deal' = [deal EXCEPT ![target] = e] /\ deal'[target] = e
        /\ \A x \in Posted : x # target => deal'[x] = deal[x]
    BY <1>11, <2>1, <2>2, <2>3
  <2>6. PlanOK(rest)'
    <3>1. Lines(rest)'
      BY <1>9 DEF PlanOK, Lines
    <3>2. \A x \in Posted : deal[x].state # "none" => deal'[x].state # "none"
      BY <2>4, <2>5
    <3>3. QED BY <1>9, <3>1, <3>2 DEF PlanOK
  <2>7. ASSUME ~ crowded
        PROVE  Fits(rest)' /\ \A b \in Account : \A x, y \in Made(b)' : x = y
    <3>1. Fits(rest) /\ (deal[target].made => deal[target].acc = a)
          /\ \A b \in Account : \A x, y \in Made(b) : x = y
      BY <1>3, <1>5, <1>6, <1>9, <1>13, <2>7 DEF Fits
    <3>2. \A x \in Posted : /\ deal'[x].state = deal[x].state /\ deal'[x].made = deal[x].made
                            /\ deal[x].made => deal'[x].acc = deal[x].acc
      BY <2>4, <2>5, <3>1
    <3>3. \A b : Made(b)' = Made(b)
      BY <3>2 DEF Made, LiveDeal
    <3>4. Fits(rest)'
      BY <1>9, <3>1, <3>2, <3>3 DEF Fits, PlanOK
    <3>5. QED BY <3>1, <3>3, <3>4
  <2>8. Become(r, Onward(req[r], "apply", {}, rest)) /\ e.state # "none"
    BY <2>1, <2>2, <2>4
  <2>9. QED BY <1>2, <1>10, <2>2, <2>4, <2>5, <2>6, <2>7, <2>8, RowStep
<1>14. QED BY <1>12, <1>13
-----------------------------------------------------------------------------
LEMMA ImportsKept == ImportsInv /\ [ImportsNext]_allVars => ImportsInv'
<1> SUFFICES ASSUME ImportsInv, [ImportsNext]_allVars PROVE ImportsInv'
  OBVIOUS
<1>1. ASSUME NEW r \in Handler, ImportStep(r) PROVE ImportsInv'
  BY <1>1, SaveFileStep, AskApprovalStep, OpenFileStep, ReadRefsStep, MatchStep, ApplyRowStep, ImportedStep,
     RejectWriteStep, DeleteFileStep DEF ImportStep
<1>2. ASSUME NEW r \in Handler, ImportRequest(r) PROVE ImportsInv'
  <2>1. ASSUME NEW file \in Files, NEW role \in Sellers, NEW t \in Ticket \cup {"none"}, SubmitImport(r, file, role, t)
        PROVE  ImportsInv'
    BY <2>1, SubmitImportStep
  <2>2. ASSUME NEW t \in Ticket, ApproveImport(r, t) \/ RejectImport(r, t) PROVE ImportsInv'
    BY <2>2, ApproveImportStep, RejectImportStep
  <2>3. QED BY <1>2, <2>1, <2>2 DEF ImportRequest
<1>3. ASSUME NEW r \in Handler, CrmStops(r) PROVE ImportsInv'
  BY <1>3, StopsStep
<1>4. ASSUME NEW r \in Handler, CrmRequest(r), UNCHANGED importVars PROVE ImportsInv'
  BY <1>4, CrmRequestStep
<1>5. ASSUME CrmCall, UNCHANGED importVars PROVE ImportsInv'
  BY <1>5, CrmCallStep
<1>6. CASE UNCHANGED allVars
  <2>1. /\ account' = account /\ contact' = contact /\ deal' = deal /\ lead' = lead /\ req' = req
        /\ broken' = broken /\ torn' = torn /\ early' = early
        /\ inbox' = inbox /\ applied' = applied /\ contended' = contended /\ crowded' = crowded
    BY <1>6 DEF allVars, crmVars, marks, importVars
  <2>2. CrmTypes'
    BY <2>1, OfInbox, OfCrm DEF CrmTypes, Knows, IsRequest
  <2>3. CrmInv'
    BY <2>1, <2>2, OfInbox, QuietKept DEF Converts
  <2>4. contended \subseteq contended' /\ contended' \subseteq Ticket
    BY <2>1, OfInbox
  <2>5. InboxInv'
    BY <2>1, <2>4, OfInbox, InboxQuiet
  <2>6. DealsKept
    BY <2>1 DEF DealsKept
  <2>7. ImportInv'
    BY <2>1, <2>6, OfInbox, ImportKept
  <2>8. QED BY <2>3, <2>5, <2>7 DEF ImportsInv
<1>7. QED BY <1>1, <1>2, <1>3, <1>4, <1>5, <1>6 DEF ImportsNext

(* What the invariant says of an account's deals, and of the inbox.         *)
LEMMA OneMade == ImportInv => ImportedOnce
<1> SUFFICES ASSUME ImportInv, ~ crowded, NEW a \in Account PROVE Cardinality(Made(a)) <= 1
  BY DEF ImportedOnce, Made
<1>1. \A d, e \in Made(a) : d = e
  BY DEF ImportInv
<1>2. CASE Made(a) = {}
  BY <1>2, FS_EmptySet
<1>3. ASSUME NEW d \in Made(a) PROVE Cardinality(Made(a)) = 1
  <2>1. Made(a) = {d}
    BY <1>1
  <2>2. QED BY <2>1, FS_Singleton
<1>4. QED BY <1>2, <1>3

LEMMA WholeInbox == InboxInv => InboxWhole
<1> SUFFICES ASSUME InboxInv, NEW t \in Ticket
             PROVE  /\ inbox[t].status = "pending" => inbox[t].stored
                    /\ inbox[t].status = "rejected" /\ t \notin contended => t \notin applied
  BY DEF InboxWhole
<1>1. TicketInv(t) /\ (t \in contended \/ DecidedOnce(t))
  BY DEF InboxInv
<1>2. QED BY <1>1 DEF TicketInv, DecidedOnce, Pending

LEMMA ImportsHold == ImportsSpec => []ImportsInv
<1>1. ImportsInit => ImportsInv
  BY CrmStart, InboxStart, ImportStart DEF ImportsInv
<1>2. QED BY <1>1, ImportsKept, PTL DEF ImportsSpec

(* "Creates/links account + contact + deal and stamps converted_to": with   *)
(* any number of conversions, edits, deletions and imports under way, and a *)
(* call that raises or a crash anywhere, a live lead points at records that *)
(* exist - but for a lead whose conversion raised after it was stamped, and *)
(* for an account linked while the conversion that made it was not over -   *)
(* and a conversion that is over and did not crash left all of its records  *)
(* or none (convert_lead).                                                  *)
THEOREM ConversionsWhole == ImportsSpec => []ConversionWhole
<1>1. ImportsInv => ConversionWhole
  BY DEF ImportsInv, CrmInv
<1>2. QED BY <1>1, ImportsHold, PTL

(* A request in the inbox can be opened for as long as it is pending,       *)
(* whatever decisions overlap and crash, and one that a single decision     *)
(* rejected wrote nothing (approve_import_request, reject_import_request).  *)
THEOREM InboxSafe == ImportsSpec => []InboxWhole
<1>1. ImportsInv => InboxWhole
  BY WholeInbox DEF ImportsInv
<1>2. QED BY <1>1, ImportsHold, PTL

(* Unless imports overlap, an account has one deal at most that imports     *)
(* made for it, of any files and any number of rows, whatever crashes in    *)
(* the middle of an import and is imported again, and whatever edits come   *)
(* between (import_csv).                                                    *)
THEOREM ImportsOnce == ImportsSpec => []ImportedOnce
<1>1. ImportsInv => ImportedOnce
  BY OneMade DEF ImportsInv
<1>2. QED BY <1>1, ImportsHold, PTL
=============================================================================
