----------------------------- MODULE WorkOrders -----------------------------
(***************************************************************************)
(* modules/production on one project: its work orders, the material they   *)
(* take, the job costs they post (projects.create_job_cost), the project's *)
(* budget and the checklist of stage 6 that the orders drive.              *)
(*                                                                         *)
(* A request is a record with a program counter; it is split at every await*)
(* whose effect, or whose read, another request can see.                   *)
(***************************************************************************)
EXTENDS Integers, FiniteSets

CONSTANTS
  Req,            \* requests that may be under way at once
  WO,             \* work orders
  Lines,          \* lines of the bill of materials
  MaterialValue,  \* what the material of an order costs
  LaborValue,     \* what its labor costs
  MaxReworks,     \* no rework starts once an order has had this many
  Ops,            \* requests beside the orders': "reserve", "budget"
  Moves,          \* the moves of an order that are asked for
  Marked,         \* the sections that are marked by hand
  Faults,         \* of "crash", "archive", "accounts", "stock", "warehouse", "mark"
  MaxFaults,      \* bound on the faults that happen
  MaxOverlaps     \* bound on the requests that come in while another is under way

ASSUME SizesAssumption  == Lines \in Nat /\ MaxReworks \in Nat /\ MaxFaults \in Nat /\ MaxOverlaps \in Nat
ASSUME ValuesAssumption == MaterialValue \in Nat \ {0} /\ LaborValue \in Nat \ {0}
ASSUME NoneAssumption   == "none" \notin WO
ASSUME PoolAssumption   == IsFiniteSet(Req)
ASSUME MarkedAssumption == Marked \subseteq {"production", "quality_control", "packing_protection", "delivery_planning"}

VARIABLES
  status,             \* of each order, "none" before it is created
  first, again,       \* material cost rows of each order: first issue, reworks
  drawn,              \* rework lines issued from stock for each order
  taken,              \* lines the reservations issued
  captured, posted,   \* job-cost rows, and those with a ledger reference (amounts)
  ledger,             \* journal entries of job costs (amount)
  budget,             \* the project's budget: actual, committed
  reserved,           \* material_procurement (stage 5) is approved
  checklist,          \* checklist_done of factory_release (stage 6), which is open
  req,                \* per request: what it does and what it has read
  reworks,            \* history: rework moves of each order
  unhoused,           \* history: reworks booked while no warehouse was live
  reservations,       \* history: reservations made
  leak,               \* history: lines taken by a reservation that crashed
  raced,              \* history: orders two requests worked on at once
  broken,             \* history: orders with a request that did not finish
  faults, overlaps,   \* history: how many faults and overlaps happened
  fresh               \* history: the checklist was last written by a request that ran alone

orderVars  == <<status, reworks, unhoused>>
stockVars  == <<drawn, taken, reserved, reservations, leak>>
costVars   == <<first, again, captured, posted, ledger, budget>>
stageVars  == <<checklist, fresh>>
damageVars == <<raced, broken, faults>>
vars == <<orderVars, stockVars, costVars, stageVars, damageVars, req, overlaps>>

Statuses == {"queued", "released", "in_progress", "qc_pending", "qc_hold", "rework",
             "passed", "packed", "staged", "dispatched"}

ALLOWED_TRANSITIONS ==
  [queued |-> {"released"}, released |-> {"in_progress"}, in_progress |-> {"qc_pending"},
   qc_pending |-> {"passed", "qc_hold"}, qc_hold |-> {"rework"}, rework |-> {"in_progress"},
   passed |-> {"packed"}, packed |-> {"staged"}, staged |-> {"dispatched"}, dispatched |-> {}]

PHASE_CLEARED ==
  [production |-> {"qc_pending", "qc_hold", "passed", "packed", "staged", "dispatched"},
   quality_control |-> {"passed", "packed", "staged", "dispatched"},
   packing_protection |-> {"packed", "staged", "dispatched"},
   delivery_planning |-> {"staged", "dispatched"}]

Sections == DOMAIN PHASE_CLEARED
Live     == {w \in WO : status[w] # "none"}
Cleared  == {s \in Sections : \A w \in Live : status[w] \in PHASE_CLEARED[s]}

NoBudget == [actual |-> 0, committed |-> 0]
Idle     == [pc |-> "idle", wo |-> "none", to |-> "none", line |-> 0, post |-> TRUE, housed |-> TRUE,
             start |-> FALSE, copy |-> NoBudget, snap |-> {}, alone |-> FALSE]
Pcs      == {"idle", "write", "start", "issue", "cost", "enter", "row", "budget", "sync", "mark",
             "take", "undo", "commitment", "commit", "patch", "tick"}

UnderWay    == {r \in Req : req[r].pc # "idle"}
At(r, p)    == req[r].pc = p
Works(r, w) == r \in UnderWay /\ req[r].wo = w
Become(r, q) == req' = [req EXCEPT ![r] = q] /\ UNCHANGED overlaps
Goto(r, p)   == Become(r, [req[r] EXCEPT !.pc = p])

(* What goes wrong, or the environment does not have, when it is needed.     *)
Fault(kind) == kind \in Faults /\ faults < MaxFaults /\ faults' = faults + 1

(* A request comes in: those under way are no longer alone.                 *)
Overlapped == [r \in Req |-> [req[r] EXCEPT !.alone = FALSE]]
Begin(r, q) ==
  /\ At(r, "idle")
  /\ UnderWay # {} => overlaps < MaxOverlaps
  /\ overlaps' = IF UnderWay = {} THEN overlaps ELSE overlaps + 1
  /\ req' = [Overlapped EXCEPT ![r] = [q EXCEPT !.alone = (UnderWay = {})]]
-----------------------------------------------------------------------------
Init ==
  /\ status = [w \in WO |-> "none"] /\ reworks = [w \in WO |-> 0]
  /\ unhoused = [w \in WO |-> 0]
  /\ first = [w \in WO |-> 0] /\ again = [w \in WO |-> 0]
  /\ captured = 0 /\ posted = 0 /\ ledger = 0 /\ budget = NoBudget
  /\ drawn = [w \in WO |-> 0] /\ taken = 0
  /\ reserved = FALSE /\ reservations = 0 /\ leak = 0
  /\ checklist = {} /\ fresh = FALSE
  /\ raced = {} /\ broken = {} /\ faults = 0 /\ overlaps = 0
  /\ req = [r \in Req |-> Idle]

(* create_work_orders, per order; it leaves the checklist as it is. *)
CreateOrder(w) ==
  /\ status[w] = "none"
  /\ status' = [status EXCEPT ![w] = "queued"]
  /\ fresh' = FALSE
  /\ req' = Overlapped /\ overlaps' = overlaps
  /\ UNCHANGED <<reworks, unhoused, stockVars, costVars, checklist, damageVars>>

(* A move of an order reads it and asserts the transition; pc is what the   *)
(* move does next: a cost at once is that of a rework without a warehouse.  *)
Ask(r, w, to, pc) ==
  /\ to \in Moves
  /\ status[w] # "none" /\ to \in ALLOWED_TRANSITIONS[status[w]]
  /\ Begin(r, [Idle EXCEPT !.wo = w, !.to = to, !.pc = pc, !.start = (pc = "start"),
                           !.housed = (pc # "cost")])
  /\ raced' = IF \E x \in Req : Works(x, w) THEN raced \cup {w} ELSE raced
  /\ UNCHANGED <<orderVars, stockVars, costVars, stageVars, broken>>

ReleaseOrder(r, w) == reserved /\ Ask(r, w, "released", "write")
RequestQC(r, w)    == Ask(r, w, "qc_pending", "write")
RecordQC(r, w)     == \E result \in {"passed", "qc_hold"} : Ask(r, w, result, "write")
PackOrder(r, w)     == Ask(r, w, "packed", "write")
StageOrder(r, w)    == Ask(r, w, "staged", "write")
DispatchOrder(r, w) == Ask(r, w, "dispatched", "write")

(* A first start is told from a restart by the status read.  Mutant of      *)
(* StartOrder: every start issues the material.                             *)
StartAgain(r, w) == Ask(r, w, "in_progress", "start")
StartOrder(r, w) ==
  Ask(r, w, "in_progress", IF status[w] = "released" THEN "start" ELSE "write")

(* A rework draws its material before the order is a rework.  If no         *)
(* warehouse is live, nothing is issued and the value alone is booked.      *)
Reworkable == \A v \in WO : again[v] < MaxReworks
ReworkOrder(r, w)    == Reworkable /\ Ask(r, w, "rework", "issue")
ReworkUnhoused(r, w) == Reworkable /\ Fault("warehouse") /\ Ask(r, w, "rework", "cost")

AskOrder(r, w) ==
  \/ /\ \/ ReleaseOrder(r, w) \/ StartOrder(r, w) \/ RequestQC(r, w) \/ RecordQC(r, w)
        \/ ReworkOrder(r, w) \/ PackOrder(r, w) \/ StageOrder(r, w) \/ DispatchOrder(r, w)
     /\ UNCHANGED faults
  \/ ReworkUnhoused(r, w)

(* _set_status writes over whatever is there; then the costs the move has,  *)
(* then the pipeline.  The labor of request_qc is optional.                 *)
WriteStatus(r) ==
  LET q == req[r]
  IN  /\ At(r, "write") \/ At(r, "start")
      /\ status' = [status EXCEPT ![q.wo] = q.to]
      /\ reworks' = IF q.to = "rework" THEN [reworks EXCEPT ![q.wo] = @ + 1] ELSE reworks
      /\ \/ q.start /\ Goto(r, "cost")
         \/ q.to = "qc_pending" /\ Goto(r, "cost")
         \/ ~ q.start /\ Goto(r, "sync")
      /\ UNCHANGED <<unhoused, stockVars, costVars, stageVars, damageVars>>

(* The request raises or its worker dies: nothing it did is taken back.     *)
Stop(r) ==
  /\ Become(r, Idle)
  /\ broken' = IF req[r].wo = "none" THEN broken ELSE broken \cup {req[r].wo}
  /\ fresh' = FALSE

(* _rework_material issues line by line; a line that is refused leaves the  *)
(* ones before it issued and the order on hold.                             *)
ReworkLine(r) ==
  LET q == req[r]
  IN  /\ At(r, "issue")
      /\ IF q.line < Lines
         THEN drawn' = [drawn EXCEPT ![q.wo] = @ + 1] /\ Become(r, [q EXCEPT !.line = @ + 1])
         ELSE drawn' = drawn /\ Goto(r, "cost")
      /\ UNCHANGED <<orderVars, taken, reserved, reservations, leak, costVars, stageVars, damageVars>>

ReworkRefused(r) ==
  /\ At(r, "issue") /\ req[r].line < Lines /\ Fault("stock")
  /\ Become(r, Idle)
  /\ UNCHANGED <<orderVars, stockVars, costVars, stageVars, raced, broken>>
-----------------------------------------------------------------------------
(* create_job_cost, and _post_job_cost around it: a 409 - an archived       *)
(* project, a chart of accounts without COGS or AP, either of which may be  *)
(* so by the time of the call - is tried again without posting.             *)
Amount(r) == IF req[r].to = "qc_pending" THEN LaborValue ELSE MaterialValue

ReadProject(r) ==
  /\ At(r, "cost")
  /\ Become(r, [req[r] EXCEPT !.pc = IF req[r].post THEN "enter" ELSE "row", !.copy = budget])
  /\ UNCHANGED <<orderVars, stockVars, costVars, stageVars, damageVars>>

Archived(r) ==
  /\ At(r, "cost") /\ req[r].post /\ Fault("archive")
  /\ Become(r, [req[r] EXCEPT !.post = FALSE])
  /\ UNCHANGED <<orderVars, stockVars, costVars, stageVars, raced, broken>>

StillArchived(r) ==
  /\ At(r, "cost") /\ ~ req[r].post /\ "archive" \in Faults
  /\ Stop(r)
  /\ UNCHANGED <<orderVars, stockVars, costVars, checklist, raced, faults>>

Enter(r) ==
  /\ At(r, "enter")
  /\ ledger' = ledger + Amount(r)
  /\ Goto(r, "row")
  /\ UNCHANGED <<orderVars, stockVars, first, again, captured, posted, budget, stageVars, damageVars>>

NoAccounts(r) ==
  /\ At(r, "enter") /\ Fault("accounts")
  /\ Become(r, [req[r] EXCEPT !.pc = "cost", !.post = FALSE])
  /\ UNCHANGED <<orderVars, stockVars, costVars, stageVars, raced, broken>>

InsertCost(r) ==
  LET q == req[r]
  IN  /\ At(r, "row")
      /\ captured' = captured + Amount(r)
      /\ posted' = IF q.post THEN posted + Amount(r) ELSE posted
      /\ first' = IF q.start THEN [first EXCEPT ![q.wo] = @ + 1] ELSE first
      /\ again' = IF q.to = "rework" THEN [again EXCEPT ![q.wo] = @ + 1] ELSE again
      /\ unhoused' = IF q.housed THEN unhoused ELSE [unhoused EXCEPT ![q.wo] = @ + 1]
      /\ Goto(r, "budget")
      /\ UNCHANGED <<status, reworks, stockVars, ledger, budget, stageVars, damageVars>>

(* Mutant of RollUp: what was committed counts as spent.                    *)
RollUpReserved(b, r) ==
  [actual |-> b.actual + b.committed + Amount(r), committed |-> 0]

(* The budget is written whole, from the copy read before the posting; a    *)
(* material cost draws the commitment down, to zero at most.                *)
RollUp(b, r) ==
  LET a == Amount(r)
  IN  [actual    |-> b.actual + a,
       committed |-> IF req[r].to = "qc_pending" THEN b.committed
                     ELSE IF b.committed > a THEN b.committed - a ELSE 0]

WriteBudget(r) ==
  /\ At(r, "budget")
  /\ budget' = RollUp(req[r].copy, r)
  /\ Become(r, [req[r] EXCEPT !.pc = IF req[r].to = "rework" THEN "write" ELSE "sync",
                              !.copy = NoBudget])
  /\ UNCHANGED <<orderVars, stockVars, first, again, captured, posted, ledger, stageVars, damageVars>>
-----------------------------------------------------------------------------
(* _recompute_pipeline: the live orders are read, then the checklist, which *)
(* the orders own, is written.                                              *)
ReadOrders(r) ==
  /\ At(r, "sync")
  /\ Become(r, [req[r] EXCEPT !.pc = "mark", !.snap = Cleared])
  /\ UNCHANGED <<orderVars, stockVars, costVars, stageVars, damageVars>>

(* Mutant of Synced: a section is ticked when its orders clear it, and stays. *)
SyncedUp(r) == checklist \cup req[r].snap
Synced(r) == req[r].snap

SyncChecklist(r) ==
  /\ At(r, "mark")
  /\ checklist' = Synced(r)
  /\ fresh' = req[r].alone
  /\ Become(r, Idle)
  /\ UNCHANGED <<orderVars, stockVars, costVars, damageVars>>

(* mark_checklist_section: any section, by hand, over what was read; counted *)
(* with the faults.                                                         *)
AskSection(r, s, complete) ==
  /\ Fault("mark")
  /\ Begin(r, [Idle EXCEPT !.pc = "tick",
                           !.snap = IF complete THEN checklist \cup {s} ELSE checklist \ {s}])
  /\ UNCHANGED <<orderVars, stockVars, costVars, stageVars, raced, broken>>

MarkSection(r) ==
  /\ At(r, "tick")
  /\ checklist' = req[r].snap /\ fresh' = FALSE
  /\ Become(r, Idle)
  /\ UNCHANGED <<orderVars, stockVars, costVars, damageVars>>
-----------------------------------------------------------------------------
(* The approval of stage 5 reserves the stock (_reserve_stock): one issue   *)
(* per line, given back when a later one fails, then the commitment.        *)
AskReservation(r) ==
  /\ "reserve" \in Ops /\ ~ reserved
  /\ Begin(r, [Idle EXCEPT !.pc = "take"])
  /\ UNCHANGED <<orderVars, stockVars, costVars, stageVars, damageVars>>

ReserveLine(r) ==
  /\ At(r, "take")
  /\ IF req[r].line < Lines
     THEN taken' = taken + 1 /\ Become(r, [req[r] EXCEPT !.line = @ + 1])
     ELSE taken' = taken /\ Goto(r, "commitment")
  /\ UNCHANGED <<orderVars, drawn, reserved, reservations, leak, costVars, stageVars, damageVars>>

LineRefused(r) ==
  /\ At(r, "take") /\ req[r].line < Lines /\ Fault("stock")
  /\ Goto(r, "undo")
  /\ UNCHANGED <<orderVars, stockVars, costVars, stageVars, raced, broken>>

(* Mutant of ReleaseLine: the failure is only passed on. *)
ReleaseNothing(r) ==
  /\ At(r, "undo")
  /\ Become(r, Idle)
  /\ UNCHANGED <<orderVars, stockVars, costVars, stageVars, damageVars>>

ReleaseLine(r) ==
  /\ At(r, "undo")
  /\ IF req[r].line > 0
     THEN taken' = taken - 1 /\ Become(r, [req[r] EXCEPT !.line = @ - 1])
     ELSE taken' = taken /\ Become(r, Idle)
  /\ UNCHANGED <<orderVars, drawn, reserved, reservations, leak, costVars, stageVars, damageVars>>

ReadCommitment(r) ==
  /\ At(r, "commitment")
  /\ Become(r, [req[r] EXCEPT !.pc = "commit", !.copy = budget])
  /\ UNCHANGED <<orderVars, stockVars, costVars, stageVars, damageVars>>

Commit(r) ==
  /\ At(r, "commit")
  /\ budget' = [req[r].copy EXCEPT !.committed = @ + MaterialValue]
  /\ reserved' = TRUE /\ reservations' = reservations + 1
  /\ Become(r, Idle)
  /\ UNCHANGED <<orderVars, drawn, taken, leak, first, again, captured, posted, ledger,
                 stageVars, damageVars>>

(* patch_project with a planned budget writes the rest of it back as read.  *)
AskPlan(r) ==
  /\ "budget" \in Ops
  /\ Begin(r, [Idle EXCEPT !.pc = "patch", !.copy = budget])
  /\ UNCHANGED <<orderVars, stockVars, costVars, stageVars, damageVars>>

WritePlan(r) ==
  /\ At(r, "patch")
  /\ budget' = req[r].copy
  /\ Become(r, Idle)
  /\ UNCHANGED <<orderVars, stockVars, first, again, captured, posted, ledger, stageVars, damageVars>>
-----------------------------------------------------------------------------
Crash(r) ==
  /\ r \in UnderWay /\ Fault("crash")
  /\ Stop(r)
  /\ leak' = IF At(r, "take") \/ At(r, "undo") \/ At(r, "commitment") \/ At(r, "commit")
             THEN leak + req[r].line ELSE leak
  /\ UNCHANGED <<orderVars, drawn, taken, reserved, reservations, costVars, checklist, raced>>

OrderStep(r) == WriteStatus(r) \/ ReworkLine(r) \/ ReworkRefused(r)
CostStep(r) ==
  ReadProject(r) \/ Archived(r) \/ StillArchived(r) \/ Enter(r) \/ NoAccounts(r) \/ InsertCost(r) \/ WriteBudget(r)
ChecklistStep(r) == ReadOrders(r) \/ SyncChecklist(r) \/ MarkSection(r)
ReserveStep(r) ==
  ReserveLine(r) \/ LineRefused(r) \/ ReleaseLine(r) \/ ReadCommitment(r) \/ Commit(r)

Next ==
  \/ \E w \in WO : CreateOrder(w)
  \/ \E r \in Req, w \in WO : AskOrder(r, w)
  \/ \E r \in Req, s \in Marked, complete \in BOOLEAN : AskSection(r, s, complete)
  \/ \E r \in Req : AskReservation(r) \/ AskPlan(r)
  \/ \E r \in Req : OrderStep(r) \/ CostStep(r) \/ ChecklistStep(r) \/ ReserveStep(r)
                    \/ WritePlan(r) \/ Crash(r)

Spec == Init /\ [][Next]_vars
-----------------------------------------------------------------------------

(* "So the books and the project budget agree" (create_job_cost), whatever  *)
(* overlaps, crashes, is refused and tried again: the budget never shows    *)
(* more actual cost than job-cost rows exist for, nor more commitment than  *)
(* was reserved, and every row with a ledger reference has its entry.       *)
BudgetNeverAhead ==
  /\ budget.actual <= captured
  /\ budget.committed <= MaterialValue * reservations
  /\ posted <= ledger

(* An order's material is booked when it is first started and once per      *)
(* rework - "material consumed twice is recorded twice" - and never by a    *)
(* restart or by the retry of a refused posting: for orders that one        *)
(* request at a time works on, others working on other orders meanwhile.    *)
MaterialBookedOnce ==
  \A w \in WO \ (raced \cup broken) :
    (\A r \in Req : ~ Works(r, w)) =>
      /\ first[w] = IF status[w] \in {"none", "queued", "released"} THEN 0 ELSE 1
      /\ again[w] = reworks[w]

(* "Extra material physically leaves stock ... never written off silently"  *)
(* (_rework_material): an order is only reworked with its cost booked and   *)
(* every line issued for it, even if two requests rework it - but for the   *)
(* reworks booked while no warehouse was live, which issue nothing.  And a  *)
(* reservation that fails gives back what it took, so that what is out are  *)
(* the lines of the reservations made (and of those that crashed).          *)
StockBehindWork ==
  /\ \A w \in WO : reworks[w] <= again[w] /\ Lines * (again[w] - unhoused[w]) <= drawn[w]
  /\ (\A r \in UnderWay : req[r].pc \notin {"take", "undo", "commitment", "commit"}) =>
       taken = Lines * reservations + leak

(* "A section flips to done only when EVERY live WO has cleared it; a       *)
(* regression reopens it" (_recompute_pipeline): a request that ran alone   *)
(* leaves the checklist exact, whatever overlapping requests, crashes and   *)
(* marks by hand had left there before it.                                  *)
ChecklistFollowsOrders ==
  fresh /\ UnderWay = {} => checklist = Cleared
=============================================================================
