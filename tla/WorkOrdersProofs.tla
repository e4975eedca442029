-------------------------- MODULE WorkOrdersProofs --------------------------
(***************************************************************************)
(* Proofs about work orders.  The properties speak of what is stored; the  *)
(* invariant counts in what the requests under way have done and not yet   *)
(* booked: entries without their cost row, lines issued for a rework or a  *)
(* reservation, material that is booked before the status is written or    *)
(* after it.                                                               *)
(***************************************************************************)
EXTENDS WorkOrders, SignedSumProofs

Budget0  == [actual : Nat, committed : Nat]
Request0 == [pc : Pcs, wo : WO \cup {"none"}, to : Statuses \cup {"none"}, line : 0 .. Lines,
             post : BOOLEAN, housed : BOOLEAN, start : BOOLEAN, copy : Budget0, snap : SUBSET Sections, alone : BOOLEAN]

TypeStored ==
  /\ status \in [WO -> Statuses \cup {"none"}]
  /\ first \in [WO -> Nat] /\ again \in [WO -> Nat] /\ drawn \in [WO -> Nat] /\ reworks \in [WO -> Nat]
  /\ unhoused \in [WO -> Nat]
  /\ taken \in Int /\ captured \in Nat /\ posted \in Nat /\ ledger \in Nat /\ budget \in Budget0
  /\ reserved \in BOOLEAN /\ reservations \in Nat /\ leak \in Nat
  /\ checklist \subseteq Sections /\ fresh \in BOOLEAN
  /\ raced \subseteq WO /\ broken \subseteq WO \cup {"none"}
TypeOK == TypeStored /\ req \in [Req -> Request0]

OrderPcs   == {"write", "start", "issue", "cost", "enter", "row", "budget", "sync", "mark"}
ReservePcs == {"take", "undo", "commitment", "commit"}
CostPcs    == {"cost", "enter", "row", "budget"}

Placed(r) ==
  /\ req[r].pc \in OrderPcs => req[r].wo \in WO /\ req[r].to \in Statuses
  /\ req[r].pc \notin OrderPcs => req[r].wo = "none"
  /\ req[r].pc = "idle" => ~ req[r].alone
  /\ req[r].pc = "start" => req[r].start
  /\ req[r].start => req[r].to = "in_progress" /\ req[r].pc # "write"
  /\ req[r].pc = "issue" => req[r].to = "rework" /\ req[r].housed
  /\ ~ req[r].housed => req[r].to = "rework"
  /\ req[r].pc \in CostPcs => req[r].start \/ req[r].to \in {"qc_pending", "rework"}
  /\ req[r].pc \in {"cost", "enter", "row"} /\ req[r].to = "rework" /\ req[r].housed => req[r].line = Lines
  /\ req[r].pc \in {"commitment", "commit"} => req[r].line = Lines

Shape == TypeOK /\ \A r \in Req : Placed(r)
-----------------------------------------------------------------------------
(* The budget: a copy read earlier is no higher than the rows are now, and  *)
(* whoever has written its row has room for it.                             *)
Total(w) == Cardinality(Units(Req, w))
Owed     == [r \in Req |-> IF req[r].pc = "row" /\ req[r].post THEN Amount(r) ELSE 0]
Limit    == MaterialValue * reservations

Covered(r) ==
  /\ req[r].copy.actual <= captured /\ req[r].copy.committed <= Limit
  /\ req[r].pc = "budget" => req[r].copy.actual + Amount(r) <= captured

BudgetInv ==
  /\ budget.actual <= captured /\ budget.committed <= Limit
  /\ \A r \in Req : Covered(r)
  /\ posted + Total(Owed) <= ledger

(* The stock: lines issued for a rework that has no row yet, reworks that   *)
(* are booked and not written, lines of a reservation that is not made.     *)
Due(w)  == again[w] - unhoused[w]
Held(w) == [r \in Req |-> IF req[r].wo = w /\ req[r].to = "rework" /\ req[r].housed
                             /\ req[r].pc \in {"issue", "cost", "enter", "row"}
                          THEN req[r].line ELSE 0]
Entering(w) == [r \in Req |-> IF req[r].wo = w /\ req[r].to = "rework" /\ req[r].pc \in {"budget", "write"}
                              THEN 1 ELSE 0]
Holding == [r \in Req |-> IF req[r].pc \in ReservePcs THEN req[r].line ELSE 0]

StockInv ==
  /\ \A w \in WO : reworks[w] + Total(Entering(w)) <= again[w]
  /\ \A w \in WO : Lines * Due(w) + Total(Held(w)) <= drawn[w]
  /\ taken = Lines * reservations + leak + Total(Holding)

(* The books of an order that one request at a time works on.               *)
Started(s) == s \notin {"none", "queued", "released"}
Before(r)  == \/ req[r].pc \in {"write", "start"}
              \/ req[r].to = "rework" /\ req[r].pc \in {"issue", "cost", "enter", "row", "budget"}
Unbooked(r) == req[r].start /\ req[r].pc \in {"cost", "enter", "row"}
Reenters(r) == req[r].to = "rework" /\ req[r].pc \in {"budget", "write"}

Alone == \A w \in WO \ raced : \A r, s \in Req : Works(r, w) /\ Works(s, w) => r = s
Right(w) ==
  /\ first[w] = IF Started(status[w]) /\ ~ (\E r \in Req : Works(r, w) /\ Unbooked(r)) THEN 1 ELSE 0
  /\ again[w] = reworks[w] + (IF \E r \in Req : Works(r, w) /\ Reenters(r) THEN 1 ELSE 0)
  /\ \A r \in Req : Works(r, w) /\ Before(r) =>
       status[w] # "none" /\ req[r].to \in ALLOWED_TRANSITIONS[status[w]] /\ (req[r].start <=> status[w] = "released")
  /\ \A r \in Req : Works(r, w) /\ Unbooked(r) => Started(status[w])
OrderInv == Alone /\ \A w \in WO \ (raced \cup broken) : Right(w)

(* The checklist is exact, or somebody has moved an order and will write it. *)
Wrote(r) == req[r].pc \in {"sync", "mark"} \/ (req[r].to # "rework" /\ req[r].pc \in CostPcs)
ListInv ==
  /\ \A r \in Req : req[r].alone => UnderWay = {r}
  /\ \A r \in Req : req[r].pc = "mark" /\ req[r].alone => req[r].snap = Cleared
  /\ fresh /\ (\A r \in Req : ~ Wrote(r)) => checklist = Cleared

IInv == Shape /\ BudgetInv /\ StockInv /\ OrderInv /\ ListInv
-----------------------------------------------------------------------------
LEMMA DueNumber == \A a, b \in Nat : Lines * (a - b) \in Int
<1>1. \A m, k \in Int : m * k \in Int
  OBVIOUS
<1>2. Lines \in Int /\ \A a, b \in Nat : a - b \in Int
  BY SizesAssumption
<1>3. QED BY <1>1, <1>2

(* A total when one request's share changes.                                *)
LEMMA TotalMoves ==
  ASSUME NEW v \in [Req -> Nat], NEW w \in [Req -> Nat], NEW r \in Req,
         \A x \in Req \ {r} : v[x] = w[x]
  PROVE  Total(v) \in Nat /\ Total(w) = Total(v) + w[r] - v[r]
<1> DEFINE R == Req \ {r}
<1>1. IsFiniteSet(R) /\ r \notin R /\ Req = R \cup {r}
  BY PoolAssumption, FS_RemoveElement
<1>2. Cardinality(Units(Req, v)) = Cardinality(Units(R, v)) + v[r]
  BY <1>1, UnitsAdd
<1>3. Cardinality(Units(Req, w)) = Cardinality(Units(R, w)) + w[r]
  BY <1>1, UnitsAdd
<1>4. Units(R, v) = Units(R, w)
  BY DEF Units
<1>5. Cardinality(Units(R, v)) \in Nat
  BY <1>1, UnitsFinite, FS_CardinalityType
<1>6. QED BY <1>2, <1>3, <1>4, <1>5 DEF Total

LEMMA TotalZero ==
  ASSUME NEW v, \A x \in Req : v[x] = 0
  PROVE  Total(v) = 0
<1>1. Units(Req, v) = {}
  BY DEF Units
<1>2. QED BY <1>1, FS_EmptySet DEF Total

LEMMA IdleType ==
  /\ Idle \in Request0 /\ NoBudget \in Budget0
  /\ Idle.wo = "none" /\ Idle.start = FALSE /\ Idle.housed = TRUE /\ Idle.line = 0 /\ Idle.copy = NoBudget
BY SizesAssumption DEF Idle, Request0, Budget0, NoBudget, Pcs

LEMMA InitRight == Init => IInv
<1> SUFFICES ASSUME Init PROVE IInv
  OBVIOUS
<1>1. \A r \in Req : req[r] = Idle
  BY DEF Init
<1>2. \A r \in Req : /\ req[r].pc = "idle" /\ req[r].wo = "none" /\ ~ req[r].start /\ ~ req[r].alone
                     /\ req[r].copy.actual = 0 /\ req[r].copy.committed = 0
  BY <1>1 DEF Idle, NoBudget
<1>3. TypeOK
  <2>1. status \in [WO -> Statuses \cup {"none"}]
    BY DEF Init
  <2>2. budget \in Budget0
    BY DEF Init, Budget0, NoBudget
  <2>3. TypeStored
    <3>1. \A f \in {first, again, drawn, reworks, unhoused} : f \in [WO -> Nat]
      BY DEF Init
    <3>2. /\ taken \in Int /\ captured \in Nat /\ posted \in Nat /\ ledger \in Nat
          /\ reserved \in BOOLEAN /\ reservations \in Nat /\ leak \in Nat
          /\ checklist \subseteq Sections /\ fresh \in BOOLEAN
          /\ raced \subseteq WO /\ broken \subseteq WO \cup {"none"}
      <4>1. reserved \in BOOLEAN /\ fresh \in BOOLEAN
        BY Zenon DEF Init
      <4>2. /\ taken = 0 /\ captured = 0 /\ posted = 0 /\ ledger = 0 /\ reservations = 0 /\ leak = 0
            /\ checklist = {} /\ raced = {} /\ broken = {}
        BY Zenon DEF Init
      <4>3. checklist \subseteq Sections /\ raced \subseteq WO /\ broken \subseteq WO \cup {"none"}
        BY <4>2
      <4>4. taken \in Int /\ captured \in Nat /\ posted \in Nat /\ ledger \in Nat /\ reservations \in Nat /\ leak \in Nat
        BY <4>2
      <4>5. QED BY <4>1, <4>3, <4>4, Zenon
    <3>3. QED BY <2>1, <2>2, <3>1, <3>2 DEF TypeStored
  <2>4. req \in [Req -> Request0]
    BY IdleType DEF Init
  <2>5. QED BY <2>3, <2>4 DEF TypeOK
<1>4. Shape
  <2>1. \A r \in Req : req[r].housed
    BY <1>1 DEF Idle
  <2>2. QED BY <1>2, <1>3, <2>1 DEF Shape, Placed, OrderPcs, CostPcs
<1>5. BudgetInv
  <2>1. Total(Owed) = 0
    BY <1>2, TotalZero DEF Owed
  <2>2. Limit = 0
    BY ValuesAssumption DEF Limit, Init
  <2>3. QED BY <1>2, <2>1, <2>2 DEF BudgetInv, Covered, Init, NoBudget
<1>6. StockInv
  <2>1. Total(Holding) = 0 /\ \A w \in WO : Total(Held(w)) = 0 /\ Total(Entering(w)) = 0
    BY <1>2, TotalZero DEF Holding, Held, Entering, ReservePcs
  <2>2. Lines * 0 = 0
    BY SizesAssumption
  <2>3. \A w \in WO : Due(w) = 0
    BY DEF Due, Init
  <2>4. QED BY <2>1, <2>2, <2>3 DEF StockInv, Init
<1>7. OrderInv
  BY <1>2 DEF OrderInv, Alone, Right, Started, Works, UnderWay, Init
<1>8. ListInv
  <2>1. fresh = FALSE
    BY DEF Init
  <2>2. QED BY <1>2, <2>1 DEF ListInv
<1>9. QED BY <1>4, <1>5, <1>6, <1>7, <1>8 DEF IInv

LEMMA Answers ==
  IInv => BudgetNeverAhead /\ MaterialBookedOnce /\ StockBehindWork /\ ChecklistFollowsOrders
<1> SUFFICES ASSUME IInv PROVE BudgetNeverAhead /\ MaterialBookedOnce /\ StockBehindWork /\ ChecklistFollowsOrders
  OBVIOUS
<1>0. TypeOK
  BY DEF IInv, Shape
<1>1. \A r \in Req : Amount(r) \in Nat
  BY ValuesAssumption DEF Amount
<1>2. Owed \in [Req -> Nat] /\ Holding \in [Req -> Nat]
      /\ \A w \in WO : Held(w) \in [Req -> Nat] /\ Entering(w) \in [Req -> Nat]
  BY <1>0, <1>1, SizesAssumption DEF Owed, Holding, Held, Entering, TypeOK, Request0
<1>3. ASSUME NEW v \in [Req -> Nat] PROVE Total(v) \in Nat
  BY PoolAssumption, UnitsFinite, FS_CardinalityType DEF Total
<1>4. BudgetNeverAhead
  BY <1>0, <1>2, <1>3 DEF IInv, BudgetInv, BudgetNeverAhead, Limit, TypeOK, TypeStored
<1>5. MaterialBookedOnce
  <2>1. ASSUME NEW w \in WO \ (raced \cup broken), \A r \in Req : ~ Works(r, w)
        PROVE  /\ first[w] = IF status[w] \in {"none", "queued", "released"} THEN 0 ELSE 1
               /\ again[w] = reworks[w]
    <3>1. Right(w) /\ reworks[w] \in Nat
      BY <1>0 DEF IInv, OrderInv, TypeOK, TypeStored
    <3>2. /\ first[w] = IF Started(status[w]) THEN 1 ELSE 0
          /\ again[w] = reworks[w] + 0
      BY <2>1, <3>1 DEF Right
    <3>3. QED BY <3>1, <3>2 DEF Started
  <2>2. QED BY <2>1 DEF MaterialBookedOnce
<1>6. StockBehindWork
  <2>1. ASSUME NEW w \in WO PROVE reworks[w] <= again[w] /\ Lines * (again[w] - unhoused[w]) <= drawn[w]
    <3>1. Total(Entering(w)) \in Nat /\ Total(Held(w)) \in Nat
      BY <1>2, <1>3
    <3>2. /\ again[w] \in Nat /\ unhoused[w] \in Nat /\ drawn[w] \in Nat /\ reworks[w] \in Nat
          /\ Due(w) \in Int /\ Lines \in Nat
      BY <1>0, SizesAssumption DEF TypeOK, TypeStored, Due
    <3>3. reworks[w] <= again[w]
      BY <3>1, <3>2 DEF IInv, StockInv
    <3>4. Lines * Due(w) \in Int
      BY <3>2
    <3>5. Lines * Due(w) <= drawn[w]
      BY <3>1, <3>2, <3>4 DEF IInv, StockInv
    <3>6. QED BY <3>3, <3>5 DEF Due
  <2>2. ASSUME \A r \in UnderWay : req[r].pc \notin {"take", "undo", "commitment", "commit"}
        PROVE  taken = Lines * reservations + leak
    <3>1. Total(Holding) = 0
      BY <2>2, TotalZero DEF Holding, UnderWay, ReservePcs
    <3>2. Lines * reservations + leak \in Nat
      BY <1>0, SizesAssumption DEF TypeOK, TypeStored
    <3>3. QED BY <3>1, <3>2 DEF IInv, StockInv
  <2>3. QED BY <2>1, <2>2 DEF StockBehindWork
<1>7. ChecklistFollowsOrders
  BY DEF IInv, ListInv, ChecklistFollowsOrders, Wrote, UnderWay, CostPcs
<1>8. QED BY <1>4, <1>5, <1>6, <1>7
-----------------------------------------------------------------------------
(* How a step moves the requests: r changes, and another at most learns     *)
(* that it is not alone.                                                    *)
Stays(x) ==
  /\ req'[x].pc = req[x].pc /\ req'[x].wo = req[x].wo /\ req'[x].to = req[x].to
  /\ req'[x].line = req[x].line /\ req'[x].post = req[x].post /\ req'[x].start = req[x].start
  /\ req'[x].housed = req[x].housed /\ req'[x].copy = req[x].copy /\ req'[x].snap = req[x].snap
  /\ req'[x].alone => req[x].alone
Moved(r) == req' \in [Req -> Request0] /\ \A x \in Req \ {r} : Stays(x)
Asked(r, q) ==
  /\ req'[r].pc = q.pc /\ req'[r].wo = q.wo /\ req'[r].to = q.to
  /\ req'[r].line = q.line /\ req'[r].post = q.post /\ req'[r].start = q.start
  /\ req'[r].housed = q.housed /\ req'[r].copy = q.copy /\ req'[r].snap = q.snap
  /\ req'[r].alone = (UnderWay = {})

LEMMA BecomeFacts ==
  ASSUME TypeOK, NEW r \in Req, NEW q \in Request0, Become(r, q)
  PROVE  Moved(r) /\ req'[r] = q /\ \A x \in Req \ {r} : req'[x] = req[x]
<1>1. req' = [req EXCEPT ![r] = q] /\ req \in [Req -> Request0]
  BY DEF Become, TypeOK
<1>2. req' \in [Req -> Request0] /\ req'[r] = q /\ \A x \in Req \ {r} : req'[x] = req[x]
  BY <1>1
<1>3. QED BY <1>2 DEF Moved, Stays

LEMMA OverlappedFacts ==
  ASSUME TypeOK
  PROVE  /\ Overlapped \in [Req -> Request0]
         /\ \A x \in Req : Overlapped[x].alone = FALSE
         /\ \A x \in Req :
              /\ Overlapped[x].pc = req[x].pc /\ Overlapped[x].wo = req[x].wo /\ Overlapped[x].to = req[x].to
              /\ Overlapped[x].line = req[x].line /\ Overlapped[x].post = req[x].post
              /\ Overlapped[x].start = req[x].start /\ Overlapped[x].copy = req[x].copy
              /\ Overlapped[x].snap = req[x].snap /\ Overlapped[x].housed = req[x].housed
<1>1. ASSUME NEW x \in Req
      PROVE  /\ Overlapped[x] = [req[x] EXCEPT !.alone = FALSE] /\ req[x] \in Request0
             /\ Overlapped[x] \in Request0
  BY DEF Overlapped, TypeOK, Request0
<1>2. Overlapped \in [Req -> Request0]
  BY <1>1 DEF Overlapped
<1>3. QED BY <1>1, <1>2 DEF Request0

LEMMA BeginFacts ==
  ASSUME TypeOK, NEW r \in Req, NEW q \in Request0, Begin(r, q)
  PROVE  Moved(r) /\ req[r].pc = "idle" /\ Asked(r, q) /\ \A x \in Req \ {r} : ~ req'[x].alone
<1> DEFINE q1 == [q EXCEPT !.alone = (UnderWay = {})]
<1>1. req[r].pc = "idle" /\ req' = [Overlapped EXCEPT ![r] = q1]
  BY DEF Begin, At
<1>2. /\ q1 \in Request0 /\ q1.pc = q.pc /\ q1.wo = q.wo /\ q1.to = q.to /\ q1.line = q.line
      /\ q1.post = q.post /\ q1.start = q.start /\ q1.copy = q.copy /\ q1.snap = q.snap /\ q1.housed = q.housed
      /\ q1.alone = (UnderWay = {})
  BY DEF Request0
<1> HIDE DEF q1
<1>3. /\ req' \in [Req -> Request0] /\ req'[r] = q1
      /\ \A x \in Req \ {r} : req'[x] = Overlapped[x]
  BY <1>1, <1>2, OverlappedFacts
<1>4. ASSUME NEW x \in Req \ {r} PROVE Stays(x) /\ ~ req'[x].alone
  <2>1. req'[x] = Overlapped[x]
    BY <1>3
  <2>2. ~ req'[x].alone
    <3>1. Overlapped[x].alone = FALSE
      BY OverlappedFacts
    <3>2. req'[x].alone = FALSE
      BY <2>1, <3>1, Zenon
    <3>3. QED BY <3>2
  <2>3. QED BY <2>1, <2>2, OverlappedFacts DEF Stays
<1>5. QED BY <1>1, <1>2, <1>3, <1>4 DEF Moved, Asked

(* The shares of the totals follow the request that moves.                  *)
LEMMA Shares ==
  ASSUME TypeOK, NEW r \in Req, Moved(r)
  PROVE  /\ Total(Owed) \in Nat /\ Total(Owed') = Total(Owed) + Owed'[r] - Owed[r]
         /\ Owed[r] \in Nat /\ Owed'[r] \in Nat
         /\ Total(Holding) \in Nat /\ Total(Holding') = Total(Holding) + Holding'[r] - Holding[r]
         /\ Holding[r] \in Nat /\ Holding'[r] \in Nat
<1>1. req \in [Req -> Request0] /\ req' \in [Req -> Request0] /\ \A x \in Req \ {r} : Stays(x)
  BY DEF TypeOK, Moved
<1>2. Owed \in [Req -> Nat] /\ Owed' \in [Req -> Nat] /\ \A x \in Req \ {r} : Owed[x] = Owed'[x]
  BY <1>1, ValuesAssumption DEF Owed, Amount, Stays
<1>3. Holding \in [Req -> Nat] /\ Holding' \in [Req -> Nat] /\ \A x \in Req \ {r} : Holding[x] = Holding'[x]
  BY <1>1, SizesAssumption DEF Holding, Stays, Request0
<1>4. PICK o \in [Req -> Nat] : o = Owed'
  BY <1>2
<1>5. PICK h \in [Req -> Nat] : h = Holding'
  BY <1>3
<1>6. Total(Owed) \in Nat /\ Total(o) = Total(Owed) + o[r] - Owed[r]
  BY <1>2, <1>4, TotalMoves
<1>7. Total(Holding) \in Nat /\ Total(h) = Total(Holding) + h[r] - Holding[r]
  BY <1>3, <1>5, TotalMoves
<1>8. QED BY <1>2, <1>3, <1>4, <1>5, <1>6, <1>7

LEMMA OrderShares ==
  ASSUME TypeOK, NEW r \in Req, Moved(r), NEW w \in WO
  PROVE  /\ Total(Held(w)) \in Nat /\ Total(Held(w)') = Total(Held(w)) + Held(w)'[r] - Held(w)[r]
         /\ Held(w)[r] \in Nat /\ Held(w)'[r] \in Nat
         /\ Total(Entering(w)) \in Nat /\ Total(Entering(w)') = Total(Entering(w)) + Entering(w)'[r] - Entering(w)[r]
         /\ Entering(w)[r] \in Nat /\ Entering(w)'[r] \in Nat
<1>1. req \in [Req -> Request0] /\ req' \in [Req -> Request0] /\ \A x \in Req \ {r} : Stays(x)
  BY DEF TypeOK, Moved
<1>2. /\ Entering(w) \in [Req -> Nat] /\ Entering(w)' \in [Req -> Nat]
      /\ \A x \in Req \ {r} : Entering(w)[x] = Entering(w)'[x]
  BY <1>1 DEF Entering, Stays
<1>3. /\ Held(w) \in [Req -> Nat] /\ Held(w)' \in [Req -> Nat]
      /\ \A x \in Req \ {r} : Held(w)[x] = Held(w)'[x]
  BY <1>1, SizesAssumption DEF Held, Stays, Request0
<1>4. PICK e \in [Req -> Nat] : e = Entering(w)'
  BY <1>2
<1>5. PICK h \in [Req -> Nat] : h = Held(w)'
  BY <1>3
<1>6. Total(Entering(w)) \in Nat /\ Total(e) = Total(Entering(w)) + e[r] - Entering(w)[r]
  BY <1>2, <1>4, TotalMoves
<1>7. Total(Held(w)) \in Nat /\ Total(h) = Total(Held(w)) + h[r] - Held(w)[r]
  BY <1>3, <1>5, TotalMoves
<1>8. QED BY <1>2, <1>3, <1>4, <1>5, <1>6, <1>7
-----------------------------------------------------------------------------
(* What a step owes each part of the invariant: something about the request *)
(* that moves.                                                              *)
LEMMA ShapeKept ==
  ASSUME Shape, NEW r \in Req, Moved(r), TypeStored', Placed(r)'
  PROVE  Shape'
<1>1. ASSUME NEW x \in Req \ {r} PROVE Placed(x)'
  BY DEF Shape, Placed, Moved, Stays
<1>2. QED BY <1>1 DEF Shape, TypeOK, Moved

LEMMA BudgetKept ==
  ASSUME IInv, NEW r \in Req, Moved(r), TypeStored', captured <= captured', Limit <= Limit',
         budget'.actual <= captured', budget'.committed <= Limit', Covered(r)',
         posted' + Owed'[r] + ledger <= ledger' + posted + Owed[r]
  PROVE  BudgetInv'
<1>1. TypeOK /\ captured \in Nat /\ posted \in Nat /\ ledger \in Nat
  BY DEF IInv, Shape, TypeOK, TypeStored
<1>2. captured' \in Nat /\ posted' \in Nat /\ ledger' \in Nat
  BY DEF TypeStored
<1>3. Limit \in Nat /\ Limit' \in Nat
  BY <1>1, ValuesAssumption DEF Limit, TypeOK, TypeStored
<1>4. ASSUME NEW x \in Req \ {r} PROVE Covered(x)'
  <2>1. Stays(x) /\ Covered(x) /\ Amount(x)' = Amount(x)
    BY DEF IInv, BudgetInv, Moved, Stays, Amount
  <2>2. Amount(x) \in Nat /\ req[x].copy.actual \in Nat /\ req[x].copy.committed \in Nat
    BY <1>1, ValuesAssumption DEF Amount, TypeOK, Request0, Budget0
  <2>3. QED BY <1>1, <1>2, <1>3, <2>1, <2>2 DEF Covered, Stays
<1>5. posted' + Total(Owed)' <= ledger'
  BY <1>1, <1>2, Shares DEF IInv, BudgetInv
<1>6. QED BY <1>4, <1>5 DEF BudgetInv

LEMMA BudgetQuiet ==
  ASSUME IInv, NEW r \in Req, Moved(r), TypeStored',
         UNCHANGED <<captured, posted, ledger, budget, reservations>>,
         req'[r].pc # "budget", req'[r].pc = "row" => ~ req'[r].post,
         req'[r].copy \in {req[r].copy, budget, NoBudget}
  PROVE  BudgetInv'
<1>1. TypeOK /\ captured \in Nat /\ posted \in Nat /\ ledger \in Nat /\ Limit \in Nat /\ Limit' = Limit
  BY ValuesAssumption DEF IInv, Shape, TypeOK, TypeStored, Limit
<1>2. Covered(r)'
  <2>1. NoBudget.actual <= captured /\ NoBudget.committed <= Limit
    BY <1>1 DEF NoBudget
  <2>2. QED BY <1>1, <2>1 DEF Covered, IInv, BudgetInv
<1>3. Owed'[r] = 0 /\ Owed[r] \in Nat
  BY <1>1, Shares DEF Owed
<1>4. QED BY <1>1, <1>2, <1>3, BudgetKept DEF IInv, BudgetInv

LEMMA StockKept ==
  ASSUME IInv, NEW r \in Req, Moved(r), TypeStored',
         \A w \in WO : reworks'[w] + Entering(w)'[r] + again[w] <= again'[w] + reworks[w] + Entering(w)[r],
         \A w \in WO : Lines * Due(w)' + Held(w)'[r] + drawn[w] <= drawn'[w] + Lines * Due(w) + Held(w)[r],
         taken' + Lines * reservations + leak + Holding[r] = taken + Lines * reservations' + leak' + Holding'[r]
  PROVE  StockInv'
<1>1. TypeOK
  BY DEF IInv, Shape
<1>2. ASSUME NEW w \in WO
      PROVE  /\ reworks[w] \in Nat /\ again[w] \in Nat /\ drawn[w] \in Nat /\ Lines * Due(w) \in Int
             /\ reworks'[w] \in Nat /\ again'[w] \in Nat /\ drawn'[w] \in Nat /\ Lines * Due(w)' \in Int
  BY <1>1, DueNumber DEF TypeOK, TypeStored, Due
<1>3. ASSUME NEW w \in WO PROVE reworks'[w] + Total(Entering(w))' <= again'[w]
  BY <1>1, <1>2, OrderShares DEF IInv, StockInv
<1>4. ASSUME NEW w \in WO PROVE Lines * Due(w)' + Total(Held(w))' <= drawn'[w]
  BY <1>1, <1>2, OrderShares DEF IInv, StockInv
<1>5. taken' = Lines * reservations' + leak' + Total(Holding)'
  <2>0. reservations' \in Nat /\ leak' \in Nat /\ taken' \in Int
    BY DEF TypeStored
  <2>1. /\ Lines * reservations \in Nat /\ leak \in Nat /\ taken \in Int
        /\ Lines * reservations' \in Nat
    <3>1. \A a, b \in Nat : a * b \in Nat
      OBVIOUS
    <3>2. Lines \in Nat /\ reservations \in Nat /\ leak \in Nat /\ taken \in Int
      BY <1>1, SizesAssumption DEF TypeOK, TypeStored
    <3>3. QED BY <2>0, <3>1, <3>2
  <2>2. taken = Lines * reservations + leak + Total(Holding)
    BY DEF IInv, StockInv
  <2>3. /\ Total(Holding) \in Nat /\ Total(Holding') = Total(Holding) + Holding'[r] - Holding[r]
        /\ Holding[r] \in Nat /\ Holding'[r] \in Nat
    BY <1>1, Shares
  <2>4. \A a, b, l, m, t, u, h, i, j, k \in Int :
          (t = a + l + h) /\ (u + a + l + i = t + b + m + j) /\ (k = h + j - i) => u = b + m + k
    OBVIOUS
  <2>5. Total(Holding)' \in Int
    BY <2>3
  <2>6. QED BY <2>0, <2>1, <2>2, <2>3, <2>5
<1>6. QED BY <1>3, <1>4, <1>5 DEF StockInv

LEMMA StockQuiet ==
  ASSUME IInv, NEW r \in Req, Moved(r), TypeStored',
         UNCHANGED <<drawn, taken, again, unhoused, reworks, reservations, leak>>,
         \A w \in WO : Entering(w)'[r] <= Entering(w)[r] /\ Held(w)'[r] <= Held(w)[r],
         Holding'[r] = Holding[r]
  PROVE  StockInv'
<1>1. TypeOK
  BY DEF IInv, Shape
<1>2. ASSUME NEW w \in WO
      PROVE  /\ reworks[w] \in Nat /\ again[w] \in Nat /\ drawn[w] \in Nat /\ Lines * Due(w) \in Int
             /\ Entering(w)'[r] \in Nat /\ Entering(w)[r] \in Nat /\ Held(w)'[r] \in Nat /\ Held(w)[r] \in Nat
             /\ Due(w)' = Due(w)
  BY <1>1, DueNumber, OrderShares DEF TypeOK, TypeStored, Due
<1>3. QED BY <1>2, StockKept

LEMMA OrderQuiet ==
  ASSUME IInv, NEW r \in Req, Moved(r), UNCHANGED <<status, reworks, first, again>>,
         raced \subseteq raced', broken \subseteq broken',
         \A w \in WO : Works(r, w)' => Works(r, w),
         \A w \in WO \ broken' :
           /\ (Works(r, w) /\ Unbooked(r)) <=> (Works(r, w) /\ Unbooked(r))'
           /\ (Works(r, w) /\ Reenters(r)) <=> (Works(r, w) /\ Reenters(r))'
           /\ (Works(r, w) /\ Before(r))' => Before(r) /\ req'[r].to = req[r].to /\ req'[r].start = req[r].start
  PROVE  OrderInv'
<1>1. ASSUME NEW x \in Req \ {r}
      PROVE  /\ \A w \in WO : Works(x, w)' <=> Works(x, w)
             /\ Before(x)' <=> Before(x)
             /\ Unbooked(x)' <=> Unbooked(x)
             /\ Reenters(x)' <=> Reenters(x)
             /\ req'[x].to = req[x].to /\ req'[x].start = req[x].start
  BY DEF Moved, Stays, Works, UnderWay, Before, Unbooked, Reenters
<1>2. Alone'
  BY <1>1 DEF IInv, OrderInv, Alone
<1>3. ASSUME NEW w \in WO \ (raced \cup broken)', Right(w) PROVE Right(w)'
  <2>1. (\E x \in Req : Works(x, w) /\ Unbooked(x))' <=> (\E x \in Req : Works(x, w) /\ Unbooked(x))
    BY <1>1
  <2>2. (\E x \in Req : Works(x, w) /\ Reenters(x))' <=> (\E x \in Req : Works(x, w) /\ Reenters(x))
    BY <1>1
  <2>3. ASSUME NEW x \in Req, (Works(x, w) /\ Before(x))'
        PROVE  Works(x, w) /\ Before(x) /\ req'[x].to = req[x].to /\ req'[x].start = req[x].start
    BY <1>1, <2>3
  <2>4. ASSUME NEW x \in Req, (Works(x, w) /\ Unbooked(x))' PROVE Works(x, w) /\ Unbooked(x)
    BY <1>1, <2>4
  <2>5. QED BY <1>3, <2>1, <2>2, <2>3, <2>4 DEF Right
<1>4. \A w \in WO \ (raced \cup broken)' : Right(w)
  BY DEF IInv, OrderInv
<1>5. QED BY <1>2, <1>3, <1>4 DEF OrderInv

LEMMA ListQuiet ==
  ASSUME IInv, NEW r \in Req, Moved(r), status' = status,
         fresh' => fresh /\ checklist' = checklist /\ (Wrote(r) => Wrote(r)'),
         req[r].pc = "idle" => \A x \in Req \ {r} : ~ req'[x].alone,
         req'[r].alone => (req[r].alone \/ UnderWay = {}) /\ req'[r].pc \notin {"idle", "mark"}
  PROVE  ListInv'
<1>1. Cleared' = Cleared
  BY DEF Cleared, Live
<1>2. \A x \in Req \ {r} : Stays(x)
  BY DEF Moved
<1>3. ASSUME NEW x \in Req, req'[x].alone PROVE UnderWay' = {x}
  <2>1. CASE x = r
    <3>1. UnderWay \subseteq {r} /\ req'[r].pc # "idle"
      BY <1>3, <2>1 DEF IInv, ListInv
    <3>2. QED BY <2>1, <3>1, <1>2 DEF UnderWay, Stays
  <2>2. CASE x # r
    <3>1. UnderWay = {x} /\ req[r].pc # "idle"
      BY <1>2, <1>3, <2>2 DEF Stays, IInv, ListInv
    <3>2. QED BY <2>2, <3>1 DEF UnderWay
  <2>3. QED BY <2>1, <2>2
<1>4. ASSUME NEW x \in Req, req'[x].pc = "mark", req'[x].alone PROVE req'[x].snap = Cleared'
  BY <1>1, <1>2, <1>4 DEF Stays, IInv, ListInv
<1>5. ASSUME fresh', \A x \in Req : ~ Wrote(x)' PROVE checklist' = Cleared'
  <2>1. \A x \in Req : ~ Wrote(x)
    BY <1>2, <1>5 DEF Stays, Wrote
  <2>2. QED BY <1>1, <1>5, <2>1 DEF IInv, ListInv
<1>6. QED BY <1>3, <1>4, <1>5 DEF ListInv
-----------------------------------------------------------------------------
(* Steps that store nothing but, at most, who was raced, broken or stale.   *)
QuietBudget(r) == req'[r].pc # "budget" /\ (req'[r].pc = "row" => ~ req'[r].post)
                  /\ req'[r].copy \in {req[r].copy, budget, NoBudget}
QuietStock(r) ==
  /\ \A w \in WO : Entering(w)'[r] <= Entering(w)[r] /\ Held(w)'[r] <= Held(w)[r]
  /\ Holding'[r] = Holding[r]
QuietOrders(r) ==
  /\ \A w \in WO : Works(r, w)' => Works(r, w)
  /\ \A w \in WO \ broken' :
       /\ (Works(r, w) /\ Unbooked(r)) <=> (Works(r, w) /\ Unbooked(r))'
       /\ (Works(r, w) /\ Reenters(r)) <=> (Works(r, w) /\ Reenters(r))'
       /\ (Works(r, w) /\ Before(r))' => Before(r) /\ req'[r].to = req[r].to /\ req'[r].start = req[r].start
QuietList(r) ==
  /\ fresh' => (Wrote(r) => Wrote(r)')
  /\ req[r].pc = "idle" => \A x \in Req \ {r} : ~ req'[x].alone
  /\ req'[r].alone => (req[r].alone \/ UnderWay = {}) /\ req'[r].pc \notin {"idle", "mark"}

LEMMA Quietly ==
  ASSUME IInv, NEW r \in Req, Moved(r), Placed(r)',
         UNCHANGED <<orderVars, drawn, taken, reserved, reservations, leak, costVars>>,
         checklist' \subseteq Sections, fresh' => checklist' = checklist,
         raced \subseteq raced', raced' \subseteq WO, broken \subseteq broken', broken' \subseteq WO \cup {"none"},
         fresh' = fresh \/ fresh' = FALSE,
         QuietBudget(r), QuietStock(r), QuietOrders(r), QuietList(r)
  PROVE  IInv'
<1>1. UNCHANGED <<status, reworks, unhoused, drawn, taken, reserved, reservations, leak, first, again,
                  captured, posted, ledger, budget>>
  BY DEF orderVars, costVars
<1>2. TypeStored'
  <2>1. fresh' \in BOOLEAN
    BY DEF IInv, Shape, TypeOK, TypeStored
  <2>2. QED BY <1>1, <2>1 DEF IInv, Shape, TypeOK, TypeStored
<1>3. Shape'
  BY <1>2, ShapeKept DEF IInv
<1>4. BudgetInv'
  BY <1>1, <1>2, BudgetQuiet DEF QuietBudget
<1>5. StockInv'
  BY <1>1, <1>2, StockQuiet DEF QuietStock
<1>6. OrderInv'
  BY <1>1, OrderQuiet DEF QuietOrders
<1>7. ListInv'
  BY <1>1, ListQuiet DEF QuietList
<1>8. QED BY <1>3, <1>4, <1>5, <1>6, <1>7 DEF IInv

(* A request that ends.                                                     *)
LEMMA EndFacts ==
  ASSUME IInv, NEW r \in Req, Become(r, Idle)
  PROVE  /\ TypeOK /\ Moved(r) /\ Placed(r)'
         /\ req'[r].pc = "idle" /\ req'[r].wo = "none" /\ req'[r].line = 0 /\ req'[r].copy = NoBudget
         /\ ~ req'[r].start /\ ~ req'[r].alone /\ req'[r].to = "none"
         /\ \A w \in WO : ~ Works(r, w)' /\ Entering(w)'[r] = 0 /\ Held(w)'[r] = 0
         /\ Holding'[r] = 0 /\ QuietBudget(r)
<1>1. TypeOK /\ Moved(r) /\ req'[r] = Idle
  BY IdleType, BecomeFacts DEF IInv, Shape
<1>2. /\ req'[r].pc = "idle" /\ req'[r].wo = "none" /\ req'[r].line = 0 /\ req'[r].copy = NoBudget
      /\ req'[r].start = FALSE /\ req'[r].alone = FALSE /\ req'[r].to = "none"
  BY <1>1 DEF Idle
<1>3. Placed(r)'
  <2>1. req'[r].housed
    BY <1>1 DEF Idle
  <2>2. QED BY <1>2, <2>1 DEF Placed, OrderPcs, CostPcs
<1>4. \A w \in WO : ~ Works(r, w)' /\ Entering(w)'[r] = 0 /\ Held(w)'[r] = 0
  BY <1>2 DEF Works, UnderWay, Entering, Held
<1>5. Holding'[r] = 0 /\ QuietBudget(r)
  BY <1>2 DEF Holding, ReservePcs, QuietBudget
<1>6. QED BY <1>1, <1>2, <1>3, <1>4, <1>5

(* A request that goes on, with its order and its move.                     *)
SameOrder(q, o) == q.wo = o.wo /\ q.to = o.to /\ q.start = o.start /\ q.housed = o.housed /\ q.alone = o.alone

LEMMA GoOnFacts ==
  ASSUME IInv, NEW r \in Req, NEW q \in Request0, Become(r, q), SameOrder(q, req[r])
  PROVE  /\ Moved(r) /\ req'[r] = q /\ \A x \in Req \ {r} : req'[x] = req[x]
         /\ req'[r].wo = req[r].wo /\ req'[r].to = req[r].to
         /\ req'[r].start = req[r].start /\ req'[r].alone = req[r].alone
<1>1. TypeOK
  BY DEF IInv, Shape
<1>2. Moved(r) /\ req'[r] = q /\ \A x \in Req \ {r} : req'[x] = req[x]
  BY <1>1, BecomeFacts
<1>3. QED BY <1>2 DEF SameOrder

LEMMA Types ==
  ASSUME IInv, NEW r \in Req
  PROVE  /\ TypeOK /\ Placed(r) /\ req[r] \in Request0 /\ budget \in Budget0 /\ req[r].copy \in Budget0
         /\ req[r].line \in 0 .. Lines /\ req[r].snap \subseteq Sections /\ checklist \subseteq Sections
         /\ raced \subseteq WO /\ broken \subseteq WO \cup {"none"}
BY DEF IInv, Shape, TypeOK, TypeStored, Request0
-----------------------------------------------------------------------------
LEMMA ReadProjectStep == ASSUME IInv, NEW r \in Req, ReadProject(r) PROVE IInv'
<1> DEFINE p == IF req[r].post THEN "enter" ELSE "row"
           q == [req[r] EXCEPT !.pc = p, !.copy = budget]
<1>1. /\ req[r].pc = "cost" /\ Become(r, q)
      /\ UNCHANGED <<orderVars, stockVars, costVars, stageVars, damageVars>>
  BY DEF ReadProject, At
<1>2. q \in Request0 /\ SameOrder(q, req[r]) /\ q.pc = p /\ q.post = req[r].post /\ q.copy = budget /\ q.line = req[r].line
  BY Types DEF Request0, SameOrder, Pcs
<1> HIDE DEF q
<1>3. Moved(r) /\ req'[r] = q /\ SameOrder(req'[r], req[r])
  BY <1>1, <1>2, GoOnFacts DEF SameOrder
<1>4. Placed(r)'
  BY <1>1, <1>2, <1>3, Types DEF Placed, OrderPcs, CostPcs, SameOrder
<1>5. QuietBudget(r) /\ QuietList(r)
  BY <1>1, <1>2, <1>3 DEF QuietBudget, QuietList, Wrote, CostPcs, SameOrder
<1>6. QuietStock(r)
  BY <1>1, <1>2, <1>3, Types DEF QuietStock, Entering, Held, Holding, ReservePcs, Request0, SameOrder
<1>7. QuietOrders(r)
  BY <1>1, <1>2, <1>3 DEF QuietOrders, Works, UnderWay, Unbooked, Reenters, Before, SameOrder
<1>8. QED BY <1>1, <1>3, <1>4, <1>5, <1>6, <1>7, Types, Quietly DEF stockVars, stageVars, damageVars

LEMMA ArchivedStep == ASSUME IInv, NEW r \in Req, Archived(r) PROVE IInv'
<1> DEFINE q == [req[r] EXCEPT !.post = FALSE]
<1>1. /\ req[r].pc = "cost" /\ Become(r, q)
      /\ UNCHANGED <<orderVars, stockVars, costVars, stageVars, raced, broken>>
  BY DEF Archived, At
<1>2. q \in Request0 /\ SameOrder(q, req[r]) /\ q.pc = "cost" /\ q.copy = req[r].copy /\ q.line = req[r].line
  <2>1. req[r] \in Request0 /\ req[r].pc = "cost"
    BY <1>1, Types
  <2>2. q \in Request0
    BY <2>1 DEF Request0
  <2>3. QED BY <2>1, <2>2 DEF Request0, SameOrder
<1> HIDE DEF q
<1>3. Moved(r) /\ req'[r] = q /\ SameOrder(req'[r], req[r])
  BY <1>1, <1>2, GoOnFacts DEF SameOrder
<1>4. Placed(r)'
  BY <1>1, <1>2, <1>3, Types DEF Placed, OrderPcs, CostPcs, SameOrder
<1>5. QuietBudget(r) /\ QuietList(r)
  BY <1>1, <1>2, <1>3 DEF QuietBudget, QuietList, Wrote, CostPcs, SameOrder
<1>6. QuietStock(r)
  BY <1>1, <1>2, <1>3, Types DEF QuietStock, Entering, Held, Holding, ReservePcs, Request0, SameOrder
<1>7. QuietOrders(r)
  BY <1>1, <1>2, <1>3 DEF QuietOrders, Works, UnderWay, Unbooked, Reenters, Before, SameOrder
<1>8. QED BY <1>1, <1>3, <1>4, <1>5, <1>6, <1>7, Types, Quietly DEF stockVars, stageVars

LEMMA NoAccountsStep == ASSUME IInv, NEW r \in Req, NoAccounts(r) PROVE IInv'
<1> DEFINE q == [req[r] EXCEPT !.pc = "cost", !.post = FALSE]
<1>1. /\ req[r].pc = "enter" /\ Become(r, q)
      /\ UNCHANGED <<orderVars, stockVars, costVars, stageVars, raced, broken>>
  BY DEF NoAccounts, At
<1>2. q \in Request0 /\ SameOrder(q, req[r]) /\ q.pc = "cost" /\ q.copy = req[r].copy /\ q.line = req[r].line
  BY Types DEF Request0, SameOrder, Pcs
<1> HIDE DEF q
<1>3. Moved(r) /\ req'[r] = q /\ SameOrder(req'[r], req[r])
  BY <1>1, <1>2, GoOnFacts DEF SameOrder
<1>4. Placed(r)'
  BY <1>1, <1>2, <1>3, Types DEF Placed, OrderPcs, CostPcs, SameOrder
<1>5. QuietBudget(r) /\ QuietList(r)
  BY <1>1, <1>2, <1>3 DEF QuietBudget, QuietList, Wrote, CostPcs, SameOrder
<1>6. QuietStock(r)
  BY <1>1, <1>2, <1>3, Types DEF QuietStock, Entering, Held, Holding, ReservePcs, Request0, SameOrder
<1>7. QuietOrders(r)
  BY <1>1, <1>2, <1>3 DEF QuietOrders, Works, UnderWay, Unbooked, Reenters, Before, SameOrder
<1>8. QED BY <1>1, <1>3, <1>4, <1>5, <1>6, <1>7, Types, Quietly DEF stockVars, stageVars

LEMMA ReadCommitmentStep == ASSUME IInv, NEW r \in Req, ReadCommitment(r) PROVE IInv'
<1> DEFINE q == [req[r] EXCEPT !.pc = "commit", !.copy = budget]
<1>1. /\ req[r].pc = "commitment" /\ Become(r, q)
      /\ UNCHANGED <<orderVars, stockVars, costVars, stageVars, raced, broken>>
  BY DEF ReadCommitment, At, damageVars
<1>2. q \in Request0 /\ SameOrder(q, req[r]) /\ q.pc = "commit" /\ q.copy = budget /\ q.line = req[r].line
  BY Types DEF Request0, SameOrder, Pcs
<1> HIDE DEF q
<1>3. Moved(r) /\ req'[r] = q /\ SameOrder(req'[r], req[r])
  BY <1>1, <1>2, GoOnFacts DEF SameOrder
<1>4. Placed(r)'
  BY <1>1, <1>2, <1>3, Types DEF Placed, OrderPcs, CostPcs, SameOrder
<1>5. QuietBudget(r) /\ QuietList(r)
  BY <1>1, <1>2, <1>3 DEF QuietBudget, QuietList, Wrote, CostPcs, SameOrder
<1>6. QuietStock(r)
  BY <1>1, <1>2, <1>3, Types DEF QuietStock, Entering, Held, Holding, ReservePcs, Request0, SameOrder
<1>7. QuietOrders(r)
  BY <1>1, <1>2, <1>3 DEF QuietOrders, Works, UnderWay, Unbooked, Reenters, Before, SameOrder
<1>8. QED BY <1>1, <1>3, <1>4, <1>5, <1>6, <1>7, Types, Quietly DEF stockVars, stageVars

LEMMA LineRefusedStep == ASSUME IInv, NEW r \in Req, LineRefused(r) PROVE IInv'
<1> DEFINE q == [req[r] EXCEPT !.pc = "undo"]
<1>1. /\ req[r].pc = "take" /\ Become(r, q)
      /\ UNCHANGED <<orderVars, stockVars, costVars, stageVars, raced, broken>>
  BY DEF LineRefused, At, Goto
<1>2. q \in Request0 /\ SameOrder(q, req[r]) /\ q.pc = "undo" /\ q.copy = req[r].copy /\ q.line = req[r].line
  BY Types DEF Request0, SameOrder, Pcs
<1> HIDE DEF q
<1>3. Moved(r) /\ req'[r] = q /\ SameOrder(req'[r], req[r])
  BY <1>1, <1>2, GoOnFacts DEF SameOrder
<1>4. Placed(r)'
  BY <1>1, <1>2, <1>3, Types DEF Placed, OrderPcs, CostPcs, SameOrder
<1>5. QuietBudget(r) /\ QuietList(r)
  BY <1>1, <1>2, <1>3 DEF QuietBudget, QuietList, Wrote, CostPcs, SameOrder
<1>6. QuietStock(r)
  BY <1>1, <1>2, <1>3, Types DEF QuietStock, Entering, Held, Holding, ReservePcs, Request0, SameOrder
<1>7. QuietOrders(r)
  BY <1>1, <1>2, <1>3 DEF QuietOrders, Works, UnderWay, Unbooked, Reenters, Before, SameOrder
<1>8. QED BY <1>1, <1>3, <1>4, <1>5, <1>6, <1>7, Types, Quietly DEF stockVars, stageVars

LEMMA StillArchivedStep == ASSUME IInv, NEW r \in Req, StillArchived(r) PROVE IInv'
<1>1. /\ req[r].pc = "cost" /\ Become(r, Idle) /\ fresh' = FALSE
      /\ broken' = IF req[r].wo = "none" THEN broken ELSE broken \cup {req[r].wo}
      /\ UNCHANGED <<orderVars, stockVars, costVars, checklist, raced>>
  BY DEF StillArchived, Stop, At
<1>2. broken \subseteq broken' /\ broken' \subseteq WO \cup {"none"} /\ req[r].wo \in broken' \cup {"none"}
  BY <1>1, Types DEF Request0
<1>3. QuietStock(r)
  BY <1>1, EndFacts, Types, OrderShares DEF QuietStock, Holding, ReservePcs
<1>4. QuietOrders(r)
  <2>1. \A w \in WO \ broken' : ~ Works(r, w)
    BY <1>2, NoneAssumption DEF Works
  <2>2. \A w \in WO : ~ Works(r, w)'
    BY <1>1, EndFacts
  <2>3. QED BY <2>1, <2>2 DEF QuietOrders
<1>5. QuietList(r)
  BY <1>1, EndFacts DEF QuietList
<1>6. QED BY <1>1, <1>2, <1>3, <1>4, <1>5, EndFacts, Types, Quietly DEF stockVars

LEMMA ReworkRefusedStep == ASSUME IInv, NEW r \in Req, ReworkRefused(r) PROVE IInv'
<1>1. /\ req[r].pc = "issue" /\ Become(r, Idle)
      /\ UNCHANGED <<orderVars, stockVars, costVars, checklist, fresh, raced, broken>>
  BY DEF ReworkRefused, At, stageVars
<1>2. QuietStock(r)
  BY <1>1, EndFacts, Types, OrderShares DEF QuietStock, Holding, ReservePcs
<1>3. QuietOrders(r)
  BY <1>1, EndFacts DEF QuietOrders, Works, Unbooked, Reenters
<1>4. QuietList(r)
  BY <1>1, EndFacts, Types DEF QuietList, Wrote, CostPcs
<1>5. QED BY <1>1, <1>2, <1>3, <1>4, EndFacts, Types, Quietly DEF stockVars

LEMMA MarkSectionStep == ASSUME IInv, NEW r \in Req, MarkSection(r) PROVE IInv'
<1>1. /\ req[r].pc = "tick" /\ Become(r, Idle) /\ checklist' = req[r].snap /\ fresh' = FALSE
      /\ UNCHANGED <<orderVars, stockVars, costVars, raced, broken>>
  BY DEF MarkSection, At, damageVars
<1>2. QuietStock(r)
  BY <1>1, EndFacts, Types, OrderShares DEF QuietStock, Holding, ReservePcs
<1>3. QuietOrders(r)
  BY <1>1, EndFacts DEF QuietOrders, Works, Unbooked, Reenters
<1>4. QuietList(r)
  BY <1>1, EndFacts DEF QuietList
<1>5. QED BY <1>1, <1>2, <1>3, <1>4, EndFacts, Types, Quietly DEF stockVars

(* Requests that are not about an order begin.                              *)
LEMMA OtherBegins ==
  ASSUME IInv, NEW r \in Req, NEW q \in Request0, Begin(r, q), q.wo = "none", ~ q.start, q.housed, q.line = 0,
         q.pc \in {"take", "patch", "tick"}, q.copy \in {budget, NoBudget},
         UNCHANGED <<orderVars, stockVars, costVars, stageVars, raced, broken>>
  PROVE  IInv'
<1>1. Moved(r) /\ req[r].pc = "idle" /\ Asked(r, q) /\ \A x \in Req \ {r} : ~ req'[x].alone
  BY Types, BeginFacts
<1>2. Placed(r)'
  BY <1>1 DEF Placed, OrderPcs, CostPcs, Asked
<1>3. QuietBudget(r) /\ QuietList(r)
  BY <1>1 DEF QuietBudget, QuietList, Wrote, CostPcs, Asked
<1>4. QuietStock(r)
  BY <1>1, NoneAssumption DEF QuietStock, Entering, Held, Holding, ReservePcs, Asked
<1>5. QuietOrders(r)
  BY <1>1, NoneAssumption DEF QuietOrders, Works, UnderWay, Asked
<1>6. QED BY <1>1, <1>2, <1>3, <1>4, <1>5, Types, Quietly DEF stockVars, stageVars

LEMMA AskSectionStep ==
  ASSUME IInv, NEW r \in Req, NEW s \in Marked, NEW complete \in BOOLEAN, AskSection(r, s, complete)
  PROVE  IInv'
<1> DEFINE done == IF complete THEN checklist \cup {s} ELSE checklist \ {s}
           q == [Idle EXCEPT !.pc = "tick", !.snap = done]
<1>1. Begin(r, q) /\ UNCHANGED <<orderVars, stockVars, costVars, stageVars, raced, broken>>
  BY DEF AskSection
<1>2. s \in Sections
  BY MarkedAssumption DEF Sections, PHASE_CLEARED
<1>3. done \subseteq Sections
  BY <1>2, Types
<1> HIDE DEF done
<1>4. q \in Request0 /\ q.wo = "none" /\ q.start = FALSE /\ q.housed = TRUE /\ q.line = 0 /\ q.pc = "tick" /\ q.copy = NoBudget
  BY <1>3, IdleType DEF Request0, Pcs
<1> HIDE DEF q
<1>5. QED BY <1>1, <1>4, OtherBegins

LEMMA AskReservationStep == ASSUME IInv, NEW r \in Req, AskReservation(r) PROVE IInv'
<1> DEFINE q == [Idle EXCEPT !.pc = "take"]
<1>1. Begin(r, q) /\ UNCHANGED <<orderVars, stockVars, costVars, stageVars, raced, broken>>
  BY DEF AskReservation, damageVars
<1>2. q \in Request0 /\ q.wo = "none" /\ q.start = FALSE /\ q.housed = TRUE /\ q.line = 0 /\ q.pc = "take" /\ q.copy = NoBudget
  BY IdleType DEF Request0, Pcs
<1> HIDE DEF q
<1>3. QED BY <1>1, <1>2, OtherBegins

LEMMA AskPlanStep == ASSUME IInv, NEW r \in Req, AskPlan(r) PROVE IInv'
<1> DEFINE q == [Idle EXCEPT !.pc = "patch", !.copy = budget]
<1>1. Begin(r, q) /\ UNCHANGED <<orderVars, stockVars, costVars, stageVars, raced, broken>>
  BY DEF AskPlan, damageVars
<1>2. q \in Request0 /\ q.wo = "none" /\ q.start = FALSE /\ q.housed = TRUE /\ q.line = 0 /\ q.pc = "patch" /\ q.copy = budget
  BY Types, IdleType DEF Request0, Pcs
<1> HIDE DEF q
<1>3. QED BY <1>1, <1>2, OtherBegins

LEMMA CrashStep == ASSUME IInv, NEW r \in Req, Crash(r) PROVE IInv'
<1>1. /\ Become(r, Idle) /\ fresh' = FALSE
      /\ broken' = IF req[r].wo = "none" THEN broken ELSE broken \cup {req[r].wo}
      /\ leak' = leak + Holding[r]
      /\ UNCHANGED <<status, reworks, unhoused, drawn, taken, reserved, reservations, first, again,
                     captured, posted, ledger, budget, checklist, raced>>
  <2>1. req[r].line \in Nat /\ leak \in Nat
    BY Types, SizesAssumption DEF TypeOK, TypeStored
  <2>2. leak' = IF req[r].pc \in ReservePcs THEN leak + req[r].line ELSE leak
    BY DEF Crash, At, ReservePcs
  <2>3. leak' = leak + Holding[r]
    BY <2>1, <2>2 DEF Holding
  <2>4. QED BY <2>3 DEF Crash, Stop, orderVars, costVars
<1>2. /\ TypeOK /\ Moved(r) /\ Placed(r)' /\ Holding[r] \in Nat
  BY <1>1, EndFacts, Shares
<1>3. broken \subseteq broken' /\ broken' \subseteq WO \cup {"none"} /\ req[r].wo \in broken' \cup {"none"}
  BY <1>1, Types DEF Request0
<1>4. TypeStored'
  <2>0. leak' \in Nat
    BY <1>1, <1>2 DEF TypeOK, TypeStored
  <2>1. leak' \in Nat /\ fresh' \in BOOLEAN
    BY <1>1, <2>0, Zenon
  <2>2. QED BY <1>1, <1>2, <1>3, <2>1 DEF TypeOK, TypeStored
<1>5. Shape'
  BY <1>2, <1>4, ShapeKept DEF IInv
<1>6. BudgetInv'
  BY <1>1, <1>2, <1>4, EndFacts, BudgetQuiet DEF QuietBudget
<1>7. StockInv'
  <2>1. ASSUME NEW w \in WO
        PROVE  /\ reworks[w] \in Nat /\ again[w] \in Nat /\ drawn[w] \in Nat /\ Lines * Due(w) \in Int
               /\ Entering(w)'[r] = 0 /\ Held(w)'[r] = 0 /\ Entering(w)[r] \in Nat /\ Held(w)[r] \in Nat
               /\ Due(w)' = Due(w)
    BY <1>1, <1>2, EndFacts, OrderShares, DueNumber DEF TypeOK, TypeStored, Due
  <2>2. /\ Lines * reservations \in Nat /\ leak \in Nat /\ taken \in Int /\ Holding'[r] = 0
    BY <1>1, <1>2, EndFacts, SizesAssumption DEF TypeOK, TypeStored
  <2>3. QED BY <1>1, <1>2, <1>4, <2>1, <2>2, StockKept
<1>8. OrderInv'
  <2>1. \A w \in WO \ broken' : ~ Works(r, w)
    BY <1>3, NoneAssumption DEF Works
  <2>2. \A w \in WO : ~ Works(r, w)'
    BY <1>1, EndFacts
  <2>3. QED BY <1>1, <1>2, <1>3, <2>1, <2>2, OrderQuiet
<1>9. ListInv'
  BY <1>1, <1>2, EndFacts, ListQuiet DEF Crash, UnderWay
<1>10. QED BY <1>5, <1>6, <1>7, <1>8, <1>9 DEF IInv

LEMMA WritePlanStep == ASSUME IInv, NEW r \in Req, WritePlan(r) PROVE IInv'
<1>1. /\ req[r].pc = "patch" /\ Become(r, Idle) /\ budget' = req[r].copy
      /\ UNCHANGED <<status, reworks, unhoused, drawn, taken, reserved, reservations, leak, first, again,
                     captured, posted, ledger, checklist, fresh, raced, broken>>
  BY DEF WritePlan, At, orderVars, stockVars, stageVars, damageVars
<1>2. TypeOK /\ Moved(r) /\ Placed(r)'
  BY <1>1, EndFacts
<1>3. TypeStored'
  BY <1>1, <1>2, Types DEF TypeOK, TypeStored
<1>4. Shape'
  BY <1>2, <1>3, ShapeKept DEF IInv
<1>5. BudgetInv'
  <2>1. /\ captured \in Nat /\ posted \in Nat /\ ledger \in Nat /\ Limit \in Nat /\ Limit' = Limit
    BY <1>1, <1>2, ValuesAssumption DEF TypeOK, TypeStored, Limit
  <2>2. budget'.actual <= captured /\ budget'.committed <= Limit
    BY <1>1 DEF IInv, BudgetInv, Covered
  <2>3. Covered(r)'
    <3>1. req'[r].copy.actual = 0 /\ req'[r].copy.committed = 0 /\ req'[r].pc = "idle"
      BY <1>1, EndFacts DEF NoBudget
    <3>2. QED BY <1>1, <2>1, <3>1 DEF Covered
  <2>4. Owed'[r] = 0 /\ Owed[r] \in Nat
    BY <1>1, <1>2, EndFacts, Shares DEF Owed
  <2>5. QED BY <1>1, <1>2, <1>3, <2>1, <2>2, <2>3, <2>4, BudgetKept
<1>6. QuietStock(r)
  BY <1>1, EndFacts, Types, OrderShares DEF QuietStock, Holding, ReservePcs
<1>7. StockInv'
  BY <1>1, <1>2, <1>3, <1>6, StockQuiet DEF QuietStock
<1>8. OrderInv'
  <2>1. QuietOrders(r)
    BY <1>1, EndFacts DEF QuietOrders, Works, Unbooked, Reenters
  <2>2. QED BY <1>1, <1>2, <2>1, OrderQuiet DEF QuietOrders
<1>9. ListInv'
  BY <1>1, <1>2, EndFacts, ListQuiet DEF Wrote, CostPcs
<1>10. QED BY <1>4, <1>5, <1>7, <1>8, <1>9 DEF IInv

(* Steps that move lines of stock and nothing else.                         *)
LEMMA StockStep ==
  ASSUME IInv, NEW r \in Req, Moved(r), Placed(r)', StockInv', TypeStored',
         UNCHANGED <<orderVars, reservations, reserved, costVars, stageVars, damageVars>>,
         QuietBudget(r), QuietOrders(r), QuietList(r)
  PROVE  IInv'
<1>1. UNCHANGED <<status, reworks, unhoused, reservations, first, again, captured, posted, ledger, budget,
                  checklist, fresh, raced, broken>>
  BY DEF orderVars, costVars, stageVars, damageVars
<1>2. Shape'
  BY ShapeKept DEF IInv
<1>3. BudgetInv'
  BY <1>1, BudgetQuiet DEF QuietBudget
<1>4. OrderInv'
  BY <1>1, OrderQuiet DEF QuietOrders
<1>5. ListInv'
  BY <1>1, ListQuiet DEF QuietList
<1>6. QED BY <1>2, <1>3, <1>4, <1>5 DEF IInv

LEMMA StockTaken ==
  ASSUME IInv, NEW r \in Req, Moved(r), TypeStored', UNCHANGED <<drawn, again, unhoused, reworks, reservations, leak>>,
         \A w \in WO : Entering(w)'[r] = Entering(w)[r] /\ Held(w)'[r] = Held(w)[r],
         taken' + Holding[r] = taken + Holding'[r]
  PROVE  StockInv'
<1>1. ASSUME NEW w \in WO
      PROVE  /\ reworks'[w] + Entering(w)'[r] + again[w] <= again'[w] + reworks[w] + Entering(w)[r]
             /\ Lines * Due(w)' + Held(w)'[r] + drawn[w] <= drawn'[w] + Lines * Due(w) + Held(w)[r]
  <2>1. /\ reworks[w] \in Nat /\ again[w] \in Nat /\ drawn[w] \in Nat /\ Lines * Due(w) \in Int
        /\ Entering(w)[r] \in Nat /\ Held(w)[r] \in Nat /\ Due(w)' = Due(w)
    BY Types, OrderShares, DueNumber DEF TypeOK, TypeStored, Due
  <2>2. QED BY <2>1
<1>2. taken' + Lines * reservations + leak + Holding[r] = taken + Lines * reservations' + leak' + Holding'[r]
  <2>1. /\ Lines * reservations \in Nat /\ leak \in Nat /\ taken \in Int
        /\ Holding[r] \in Nat /\ Holding'[r] \in Nat
    BY Types, Shares, SizesAssumption DEF TypeOK, TypeStored
  <2>2. taken' \in Int
    BY DEF TypeStored
  <2>3. QED BY <2>1, <2>2
<1>3. QED BY <1>1, <1>2, StockKept

LEMMA ReserveLineStep == ASSUME IInv, NEW r \in Req, ReserveLine(r) PROVE IInv'
<1> DEFINE more == req[r].line < Lines
           q == IF more THEN [req[r] EXCEPT !.line = @ + 1] ELSE [req[r] EXCEPT !.pc = "commitment"]
<1>1. /\ req[r].pc = "take" /\ Become(r, q) /\ taken' = IF more THEN taken + 1 ELSE taken
      /\ UNCHANGED <<orderVars, drawn, reserved, reservations, leak, costVars, stageVars, damageVars>>
  BY DEF ReserveLine, At, Goto
<1>2. /\ q \in Request0 /\ SameOrder(q, req[r]) /\ q.copy = req[r].copy
      /\ q.pc = IF more THEN "take" ELSE "commitment"
      /\ q.line = IF more THEN req[r].line + 1 ELSE Lines
  <2>1. req[r] \in Request0 /\ req[r].line \in 0 .. Lines /\ Lines \in Nat
    BY Types, SizesAssumption
  <2>2. CASE more
    <3>1. req[r].line + 1 \in 0 .. Lines
      BY <2>1, <2>2
    <3>2. QED BY <1>1, <2>1, <2>2, <3>1 DEF Request0, SameOrder
  <2>3. CASE ~ more
    BY <2>1, <2>3 DEF Request0, SameOrder, Pcs
  <2>4. QED BY <2>2, <2>3
<1> HIDE DEF q
<1>3. Moved(r) /\ req'[r] = q /\ SameOrder(req'[r], req[r])
  BY <1>1, <1>2, GoOnFacts DEF SameOrder
<1>4. Placed(r)'
  BY <1>1, <1>2, <1>3, Types DEF Placed, OrderPcs, CostPcs, SameOrder
<1>5. QuietBudget(r) /\ QuietList(r)
  BY <1>1, <1>2, <1>3 DEF QuietBudget, QuietList, Wrote, CostPcs, SameOrder
<1>6. QuietOrders(r)
  BY <1>1, <1>2, <1>3 DEF QuietOrders, Works, UnderWay, Unbooked, Reenters, Before, SameOrder
<1>7. taken \in Int /\ taken' \in Int /\ TypeStored'
  <2>1. taken \in Int /\ taken' \in Int
    BY <1>1, Types DEF TypeOK, TypeStored
  <2>2. QED BY <1>1, <2>1, Types DEF TypeOK, TypeStored, orderVars, costVars, stageVars, damageVars
<1>8. StockInv'
  <2>1. UNCHANGED <<drawn, again, unhoused, reworks, reservations, leak>>
    BY <1>1 DEF orderVars, costVars
  <2>2. \A w \in WO : Entering(w)'[r] = Entering(w)[r] /\ Held(w)'[r] = Held(w)[r]
    BY <1>1, <1>2, <1>3 DEF Entering, Held
  <2>3. Holding[r] = req[r].line /\ Holding'[r] = q.line
    BY <1>1, <1>2, <1>3 DEF Holding, ReservePcs
  <2>4. taken' + Holding[r] = taken + Holding'[r]
    <3>1. req[r].line \in 0 .. Lines /\ Lines \in Nat
      BY Types, SizesAssumption
    <3>2. CASE more
      BY <1>1, <1>2, <1>7, <2>3, <3>1, <3>2
    <3>3. CASE ~ more
      BY <1>1, <1>2, <1>7, <2>3, <3>1, <3>3
    <3>4. QED BY <3>2, <3>3
  <2>5. QED BY <1>3, <1>7, <2>1, <2>2, <2>4, StockTaken
<1>9. QED BY <1>1, <1>3, <1>4, <1>5, <1>6, <1>7, <1>8, StockStep

LEMMA ReleaseLineStep == ASSUME IInv, NEW r \in Req, ReleaseLine(r) PROVE IInv'
<1>1. /\ req[r].pc = "undo"
      /\ UNCHANGED <<orderVars, drawn, reserved, reservations, leak, costVars, stageVars, damageVars>>
  BY DEF ReleaseLine, At
<1>2. UNCHANGED <<drawn, again, unhoused, reworks, reservations, leak>>
  BY <1>1 DEF orderVars, costVars
<1>3. req[r].line \in 0 .. Lines /\ Lines \in Nat /\ Holding[r] = req[r].line /\ taken \in Int
  BY <1>1, Types, SizesAssumption DEF Holding, ReservePcs, TypeOK, TypeStored
<1>4. ASSUME taken' \in Int PROVE TypeStored'
  BY <1>1, <1>4, Types DEF TypeOK, TypeStored, orderVars, costVars, stageVars, damageVars
<1>5. CASE req[r].line > 0
  <2> DEFINE q == [req[r] EXCEPT !.line = @ - 1]
  <2>1. taken' = taken - 1 /\ Become(r, q)
    BY <1>5 DEF ReleaseLine
  <2>2. q \in Request0 /\ SameOrder(q, req[r]) /\ q.copy = req[r].copy /\ q.pc = "undo" /\ q.line = req[r].line - 1
    <3>1. req[r].line - 1 \in 0 .. Lines
      BY <1>3, <1>5
    <3>2. QED BY <1>1, <3>1, Types DEF Request0, SameOrder
  <2> HIDE DEF q
  <2>3. Moved(r) /\ req'[r] = q /\ SameOrder(req'[r], req[r])
    BY <2>1, <2>2, GoOnFacts DEF SameOrder
  <2>4. Placed(r)'
    BY <1>1, <2>2, <2>3, Types DEF Placed, OrderPcs, CostPcs, SameOrder
  <2>5. QuietBudget(r) /\ QuietList(r)
    BY <1>1, <2>2, <2>3 DEF QuietBudget, QuietList, Wrote, CostPcs, SameOrder
  <2>6. QuietOrders(r)
    BY <1>1, <2>2, <2>3 DEF QuietOrders, Works, UnderWay, Unbooked, Reenters, Before, SameOrder
  <2>7. taken' \in Int /\ TypeStored'
    BY <1>3, <1>4, <2>1
  <2>8. \A w \in WO : Entering(w)'[r] = Entering(w)[r] /\ Held(w)'[r] = Held(w)[r]
    BY <1>1, <2>2, <2>3 DEF Entering, Held
  <2>9. Holding'[r] = req[r].line - 1
    BY <2>2, <2>3 DEF Holding, ReservePcs
  <2>10. StockInv'
    BY <1>2, <1>3, <2>1, <2>3, <2>7, <2>8, <2>9, StockTaken
  <2>11. QED BY <1>1, <2>3, <2>4, <2>5, <2>6, <2>7, <2>10, StockStep
<1>6. CASE ~ (req[r].line > 0)
  <2>1. taken' = taken /\ Become(r, Idle)
    BY <1>6 DEF ReleaseLine
  <2>2. TypeStored'
    BY <1>3, <1>4, <2>1
  <2>3. QuietStock(r)
    BY <1>1, <1>3, <1>6, <2>1, EndFacts, Types, OrderShares DEF QuietStock
  <2>4. StockInv'
    BY <1>2, <2>1, <2>2, <2>3, EndFacts, StockQuiet DEF QuietStock
  <2>5. QuietOrders(r)
    BY <1>1, <2>1, EndFacts DEF QuietOrders, Works, Unbooked, Reenters
  <2>6. QuietList(r)
    BY <1>1, <2>1, EndFacts DEF QuietList, Wrote, CostPcs
  <2>7. QED BY <1>1, <2>1, <2>2, <2>4, <2>5, <2>6, EndFacts, StockStep
<1>7. QED BY <1>5, <1>6

LEMMA ReworkLineStep == ASSUME IInv, NEW r \in Req, ReworkLine(r) PROVE IInv'
<1> DEFINE more == req[r].line < Lines
           q == IF more THEN [req[r] EXCEPT !.line = @ + 1] ELSE [req[r] EXCEPT !.pc = "cost"]
           o == req[r].wo
<1>1. /\ req[r].pc = "issue" /\ Become(r, q)
      /\ drawn' = IF more THEN [drawn EXCEPT ![o] = @ + 1] ELSE drawn
      /\ UNCHANGED <<orderVars, taken, reserved, reservations, leak, costVars, stageVars, damageVars>>
  BY DEF ReworkLine, At, Goto
<1>2. /\ q \in Request0 /\ SameOrder(q, req[r]) /\ q.copy = req[r].copy
      /\ q.pc = IF more THEN "issue" ELSE "cost"
      /\ q.line = IF more THEN req[r].line + 1 ELSE Lines
      /\ ~ more => req[r].line = Lines
  <2>1. req[r] \in Request0 /\ req[r].line \in 0 .. Lines /\ Lines \in Nat
    BY Types, SizesAssumption
  <2>2. CASE more
    <3>1. req[r].line + 1 \in 0 .. Lines
      BY <2>1, <2>2
    <3>2. QED BY <1>1, <2>1, <2>2, <3>1 DEF Request0, SameOrder
  <2>3. CASE ~ more
    BY <2>1, <2>3 DEF Request0, SameOrder, Pcs
  <2>4. QED BY <2>2, <2>3
<1>3. o \in WO /\ req[r].to = "rework" /\ req[r].start = FALSE
  BY <1>1, Types DEF Placed, OrderPcs, Request0
<1> HIDE DEF q
<1>4. Moved(r) /\ req'[r] = q /\ SameOrder(req'[r], req[r])
  BY <1>1, <1>2, GoOnFacts DEF SameOrder
<1>5. Placed(r)'
  BY <1>1, <1>2, <1>3, <1>4, Types DEF Placed, OrderPcs, CostPcs, SameOrder
<1>6. QuietBudget(r) /\ QuietList(r)
  BY <1>1, <1>2, <1>3, <1>4 DEF QuietBudget, QuietList, Wrote, CostPcs, SameOrder
<1>7. QuietOrders(r)
  BY <1>1, <1>2, <1>3, <1>4 DEF QuietOrders, Works, UnderWay, Unbooked, Reenters, Before, SameOrder
<1>8. drawn \in [WO -> Nat] /\ drawn' \in [WO -> Nat] /\ TypeStored'
  <2>1. drawn \in [WO -> Nat]
    BY Types DEF TypeOK, TypeStored
  <2>2. drawn' \in [WO -> Nat]
    BY <1>1, <1>3, <2>1
  <2>3. QED BY <1>1, <2>1, <2>2, Types DEF TypeOK, TypeStored, orderVars, costVars, stageVars, damageVars
<1>9. StockInv'
  <2>1. UNCHANGED <<taken, again, unhoused, reworks, reservations, leak>>
    BY <1>1 DEF orderVars, costVars
  <2>2. \A w \in WO : Entering(w)'[r] = Entering(w)[r]
    BY <1>1, <1>2, <1>4 DEF Entering
  <2>3. Holding'[r] = Holding[r]
    BY <1>1, <1>2, <1>4 DEF Holding, ReservePcs
  <2>4. ASSUME NEW w \in WO PROVE Held(w)'[r] + drawn[w] <= drawn'[w] + Held(w)[r]
    <3>1. req[r].line \in 0 .. Lines /\ Lines \in Nat /\ drawn[w] \in Nat
      BY <1>8, Types, SizesAssumption
    <3>2. CASE w = o
      <4>1. Held(w)[r] = req[r].line /\ Held(w)'[r] = q.line
        BY <1>1, <1>2, <1>3, <1>4, <3>2, Types DEF Held, SameOrder, Placed
      <4>2. drawn'[w] = IF more THEN drawn[w] + 1 ELSE drawn[w]
        BY <1>1, <1>3, <1>8, <3>2
      <4>3. QED BY <1>2, <3>1, <4>1, <4>2
    <3>3. CASE w # o
      <4>1. Held(w)[r] = 0 /\ Held(w)'[r] = 0 /\ drawn'[w] = drawn[w]
        BY <1>1, <1>4, <1>8, <3>3 DEF Held, SameOrder
      <4>2. QED BY <3>1, <4>1
    <3>4. QED BY <3>2, <3>3
  <2>5. ASSUME NEW w \in WO
        PROVE  /\ reworks'[w] + Entering(w)'[r] + again[w] <= again'[w] + reworks[w] + Entering(w)[r]
               /\ Lines * Due(w)' + Held(w)'[r] + drawn[w] <= drawn'[w] + Lines * Due(w) + Held(w)[r]
    <3>1. /\ reworks[w] \in Nat /\ again[w] \in Nat /\ drawn[w] \in Nat /\ Lines * Due(w) \in Int
          /\ Entering(w)[r] \in Nat /\ Held(w)[r] \in Nat /\ Held(w)'[r] \in Nat /\ drawn'[w] \in Nat
          /\ Due(w)' = Due(w)
      BY <1>4, <1>8, <2>1, Types, OrderShares, DueNumber DEF TypeOK, TypeStored, Due
    <3>2. QED BY <2>1, <2>2, <2>4, <3>1
  <2>6. taken' + Lines * reservations + leak + Holding[r] = taken + Lines * reservations' + leak' + Holding'[r]
    BY <2>1, <2>3
  <2>7. QED BY <1>4, <1>8, <2>5, <2>6, StockKept
<1>10. QED BY <1>1, <1>4, <1>5, <1>6, <1>7, <1>8, <1>9, StockStep
-----------------------------------------------------------------------------
(* Steps that post and book a cost.                                         *)
LEMMA Amounts == \A r \in Req : Amount(r) \in Nat
BY ValuesAssumption DEF Amount

LEMMA EnterStep == ASSUME IInv, NEW r \in Req, Enter(r) PROVE IInv'
<1> DEFINE q == [req[r] EXCEPT !.pc = "row"]
<1>1. /\ req[r].pc = "enter" /\ Become(r, q) /\ ledger' = ledger + Amount(r)
      /\ UNCHANGED <<status, reworks, unhoused, drawn, taken, reserved, reservations, leak, first, again,
                     captured, posted, budget, checklist, fresh, raced, broken>>
  BY DEF Enter, At, Goto, orderVars, stockVars, stageVars, damageVars
<1>2. q \in Request0 /\ SameOrder(q, req[r]) /\ q.copy = req[r].copy /\ q.pc = "row" /\ q.line = req[r].line
  BY Types DEF Request0, SameOrder, Pcs
<1> HIDE DEF q
<1>3. Moved(r) /\ req'[r] = q /\ SameOrder(req'[r], req[r])
  BY <1>1, <1>2, GoOnFacts DEF SameOrder
<1>4. Placed(r)'
  BY <1>1, <1>2, <1>3, Types DEF Placed, OrderPcs, CostPcs, SameOrder
<1>5. TypeStored' /\ Shape'
  <2>1. ledger' \in Nat
    BY <1>1, Types, Amounts DEF TypeOK, TypeStored
  <2>2. TypeStored'
    BY <1>1, <2>1, Types DEF TypeOK, TypeStored
  <2>3. QED BY <1>3, <1>4, <2>2, ShapeKept DEF IInv
<1>6. BudgetInv'
  <2>1. /\ captured \in Nat /\ posted \in Nat /\ ledger \in Nat /\ Limit \in Nat /\ Limit' = Limit
    BY <1>1, Types, ValuesAssumption DEF TypeOK, TypeStored, Limit
  <2>2. Covered(r)'
    BY <1>1, <1>2, <1>3, <2>1 DEF Covered, IInv, BudgetInv
  <2>3. Owed'[r] <= Amount(r) /\ Owed[r] = 0 /\ Owed'[r] \in Nat /\ Amount(r) \in Nat
    <3>1. Amount(r)' = Amount(r) /\ Amount(r) \in Nat
      BY <1>3, Amounts DEF Amount, SameOrder
    <3>2. Owed[r] = 0 /\ Owed'[r] \in {0, Amount(r)'}
      BY <1>1 DEF Owed
    <3>3. QED BY <3>1, <3>2
  <2>4. posted' + Owed'[r] + ledger <= ledger' + posted + Owed[r]
    BY <1>1, <2>1, <2>3
  <2>5. QED BY <1>1, <1>3, <1>5, <2>1, <2>2, <2>4, BudgetKept DEF IInv, BudgetInv
<1>7. StockInv'
  <2>1. QuietStock(r)
    BY <1>1, <1>2, <1>3, Types DEF QuietStock, Entering, Held, Holding, ReservePcs, Request0, SameOrder
  <2>2. QED BY <1>1, <1>3, <1>5, <2>1, StockQuiet DEF QuietStock
<1>8. OrderInv'
  <2>1. QuietOrders(r)
    BY <1>1, <1>2, <1>3 DEF QuietOrders, Works, UnderWay, Unbooked, Reenters, Before, SameOrder
  <2>2. QED BY <1>1, <1>3, <2>1, OrderQuiet DEF QuietOrders
<1>9. ListInv'
  <2>1. QuietList(r)
    BY <1>1, <1>2, <1>3 DEF QuietList, Wrote, CostPcs, SameOrder
  <2>2. QED BY <1>1, <1>3, <2>1, ListQuiet DEF QuietList
<1>10. QED BY <1>5, <1>6, <1>7, <1>8, <1>9 DEF IInv

LEMMA WriteBudgetStep == ASSUME IInv, NEW r \in Req, WriteBudget(r) PROVE IInv'
<1> DEFINE p == IF req[r].to = "rework" THEN "write" ELSE "sync"
           q == [req[r] EXCEPT !.pc = p, !.copy = NoBudget]
           b == RollUp(req[r].copy, r)
<1>1. /\ req[r].pc = "budget" /\ Become(r, q) /\ budget' = b
      /\ UNCHANGED <<status, reworks, unhoused, drawn, taken, reserved, reservations, leak, first, again,
                     captured, posted, ledger, checklist, fresh, raced, broken>>
  BY DEF WriteBudget, At, orderVars, stockVars, stageVars, damageVars
<1>2. q \in Request0 /\ SameOrder(q, req[r]) /\ q.copy = NoBudget /\ q.pc = p /\ q.line = req[r].line
  <2>1. req[r] \in Request0 /\ p \in Pcs /\ NoBudget \in Budget0
    BY Types, IdleType DEF Pcs
  <2> HIDE DEF p
  <2>2. q \in Request0
    BY <2>1 DEF Request0
  <2>3. QED BY <2>1, <2>2 DEF Request0, SameOrder
<1> HIDE DEF q
<1>3. Moved(r) /\ req'[r] = q /\ SameOrder(req'[r], req[r])
  BY <1>1, <1>2, GoOnFacts DEF SameOrder
<1>4. Placed(r)'
  BY <1>1, <1>2, <1>3, Types DEF Placed, OrderPcs, CostPcs, SameOrder
<1>5. b \in Budget0 /\ b.actual = req[r].copy.actual + Amount(r) /\ b.committed <= req[r].copy.committed
  <2>1. /\ req[r].copy.actual \in Nat /\ req[r].copy.committed \in Nat /\ Amount(r) \in Nat
    BY Types, Amounts DEF Budget0
  <2>2. /\ b.actual = req[r].copy.actual + Amount(r)
        /\ b = [actual |-> b.actual, committed |-> b.committed]
        /\ b.committed \in Nat /\ b.committed <= req[r].copy.committed
    BY <2>1 DEF RollUp
  <2>3. b.actual \in Nat
    BY <2>1, <2>2
  <2> HIDE DEF b
  <2>4. QED BY <2>2, <2>3 DEF Budget0
<1> HIDE DEF b
<1>6. TypeStored' /\ Shape'
  <2>1. TypeStored'
    BY <1>1, <1>5, Types DEF TypeOK, TypeStored
  <2>2. QED BY <1>3, <1>4, <2>1, ShapeKept DEF IInv
<1>7. BudgetInv'
  <2>1. /\ captured \in Nat /\ posted \in Nat /\ ledger \in Nat /\ Limit \in Nat /\ Limit' = Limit
    BY <1>1, Types, ValuesAssumption DEF TypeOK, TypeStored, Limit
  <2>2. budget'.actual <= captured /\ budget'.committed <= Limit
    <3>1. req[r].copy.actual + Amount(r) <= captured /\ req[r].copy.committed <= Limit
      BY <1>1 DEF IInv, BudgetInv, Covered
    <3>2. req[r].copy.committed \in Nat /\ b.committed \in Nat
      BY <1>5, Types DEF Budget0
    <3>3. QED BY <1>1, <1>5, <2>1, <3>1, <3>2
  <2>3. Covered(r)'
    BY <1>1, <1>2, <1>3, <2>1 DEF Covered, NoBudget
  <2>4. Owed'[r] = 0 /\ Owed[r] = 0
    BY <1>1, <1>2, <1>3 DEF Owed
  <2>5. QED BY <1>1, <1>3, <1>6, <2>1, <2>2, <2>3, <2>4, BudgetKept
<1>8. StockInv'
  <2>1. QuietStock(r)
    BY <1>1, <1>2, <1>3, Types DEF QuietStock, Entering, Held, Holding, ReservePcs, Request0, SameOrder
  <2>2. QED BY <1>1, <1>3, <1>6, <2>1, StockQuiet DEF QuietStock
<1>9. OrderInv'
  <2>1. QuietOrders(r)
    BY <1>1, <1>2, <1>3 DEF QuietOrders, Works, UnderWay, Unbooked, Reenters, Before, SameOrder
  <2>2. QED BY <1>1, <1>3, <2>1, OrderQuiet DEF QuietOrders
<1>10. ListInv'
  <2>1. QuietList(r)
    BY <1>1, <1>2, <1>3 DEF QuietList, Wrote, CostPcs, SameOrder
  <2>2. QED BY <1>1, <1>3, <2>1, ListQuiet DEF QuietList
<1>11. QED BY <1>6, <1>7, <1>8, <1>9, <1>10 DEF IInv

LEMMA CommitStep == ASSUME IInv, NEW r \in Req, Commit(r) PROVE IInv'
<1> DEFINE b == [req[r].copy EXCEPT !.committed = @ + MaterialValue]
<1>1. /\ req[r].pc = "commit" /\ Become(r, Idle) /\ budget' = b
      /\ reserved' = TRUE /\ reservations' = reservations + 1
      /\ UNCHANGED <<status, reworks, unhoused, drawn, taken, leak, first, again,
                     captured, posted, ledger, checklist, fresh, raced, broken>>
  BY DEF Commit, At, orderVars, stageVars, damageVars
<1>2. TypeOK /\ Moved(r) /\ Placed(r)'
  BY <1>1, EndFacts
<1>3. /\ b \in Budget0 /\ b.actual = req[r].copy.actual /\ b.committed = req[r].copy.committed + MaterialValue
      /\ req[r].copy.committed \in Nat /\ MaterialValue \in Nat
  BY Types, ValuesAssumption DEF Budget0
<1> HIDE DEF b
<1>4. TypeStored' /\ Shape'
  <2>1. reservations' \in Nat
    BY <1>1, <1>2 DEF TypeOK, TypeStored
  <2>2. TypeStored'
    BY <1>1, <1>2, <1>3, <2>1 DEF TypeOK, TypeStored
  <2>3. QED BY <1>2, <2>2, ShapeKept DEF IInv
<1>5. \A a, n \in Nat : a * (n + 1) = a * n + a /\ a * n \in Nat
  OBVIOUS
<1>6. BudgetInv'
  <2>1. /\ captured \in Nat /\ posted \in Nat /\ ledger \in Nat /\ Limit \in Nat /\ Limit' = Limit + MaterialValue
    BY <1>1, <1>2, <1>3, <1>5 DEF TypeOK, TypeStored, Limit
  <2>2. budget'.actual <= captured /\ budget'.committed <= Limit'
    BY <1>1, <1>3, <2>1 DEF IInv, BudgetInv, Covered
  <2>3. Covered(r)'
    <3>1. req'[r].copy.actual = 0 /\ req'[r].copy.committed = 0 /\ req'[r].pc = "idle"
      BY <1>1, EndFacts DEF NoBudget
    <3>2. QED BY <1>1, <1>3, <2>1, <3>1 DEF Covered
  <2>4. Owed'[r] = 0 /\ Owed[r] = 0
    BY <1>1, EndFacts DEF Owed
  <2>5. Limit <= Limit'
    BY <1>3, <2>1
  <2>6. QED BY <1>1, <1>2, <1>4, <2>1, <2>2, <2>3, <2>4, <2>5, BudgetKept
<1>7. StockInv'
  <2>1. ASSUME NEW w \in WO
        PROVE  /\ reworks'[w] + Entering(w)'[r] + again[w] <= again'[w] + reworks[w] + Entering(w)[r]
               /\ Lines * Due(w)' + Held(w)'[r] + drawn[w] <= drawn'[w] + Lines * Due(w) + Held(w)[r]
    <3>1. /\ reworks[w] \in Nat /\ again[w] \in Nat /\ drawn[w] \in Nat /\ Lines * Due(w) \in Int
          /\ Entering(w)[r] \in Nat /\ Held(w)[r] \in Nat /\ Held(w)'[r] = 0 /\ Entering(w)'[r] = 0
          /\ Due(w)' = Due(w)
      BY <1>1, <1>2, EndFacts, OrderShares, DueNumber DEF TypeOK, TypeStored, Due
    <3>2. QED BY <1>1, <3>1
  <2>2. taken' + Lines * reservations + leak + Holding[r] = taken + Lines * reservations' + leak' + Holding'[r]
    <3>1. Holding[r] = Lines /\ Holding'[r] = 0
      BY <1>1, Types, EndFacts DEF Holding, ReservePcs, Placed
    <3>2. Lines * reservations' = Lines * reservations + Lines /\ Lines * reservations \in Nat
      BY <1>1, <1>2, <1>5, SizesAssumption DEF TypeOK, TypeStored
    <3>3. taken \in Int /\ leak \in Nat /\ Lines \in Nat
      BY <1>2, SizesAssumption DEF TypeOK, TypeStored
    <3>4. QED BY <1>1, <3>1, <3>2, <3>3
  <2>3. QED BY <1>2, <1>4, <2>1, <2>2, StockKept
<1>8. OrderInv'
  <2>1. QuietOrders(r)
    BY <1>1, EndFacts DEF QuietOrders, Works, Unbooked, Reenters
  <2>2. QED BY <1>1, <1>2, <2>1, OrderQuiet DEF QuietOrders
<1>9. ListInv'
  BY <1>1, <1>2, EndFacts, ListQuiet DEF Wrote, CostPcs
<1>10. QED BY <1>4, <1>6, <1>7, <1>8, <1>9 DEF IInv
-----------------------------------------------------------------------------
(* Steps that move an order or book its material.  Whoever works on it      *)
(* alone knows its books.                                                   *)
Sole(r, w) ==
  /\ first[w] = IF Started(status[w]) /\ ~ Unbooked(r) THEN 1 ELSE 0
  /\ again[w] = reworks[w] + (IF Reenters(r) THEN 1 ELSE 0)
  /\ Before(r) => /\ status[w] # "none" /\ req[r].to \in ALLOWED_TRANSITIONS[status[w]]
                  /\ req[r].start <=> status[w] = "released"
  /\ Unbooked(r) => Started(status[w])

LEMMA SoleOf ==
  ASSUME IInv, NEW r \in Req, NEW w \in WO \ (raced \cup broken), Works(r, w)
  PROVE  Sole(r, w) /\ \A x \in Req : Works(x, w) => x = r
<1>1. \A x \in Req : Works(x, w) => x = r
  BY DEF IInv, OrderInv, Alone
<1>2. Right(w)
  BY DEF IInv, OrderInv
<1>3. /\ (\E x \in Req : Works(x, w) /\ Unbooked(x)) <=> Unbooked(r)
      /\ (\E x \in Req : Works(x, w) /\ Reenters(x)) <=> Reenters(r)
  BY <1>1
<1>4. QED BY <1>1, <1>2, <1>3 DEF Right, Sole

LEMMA OthersWork ==
  ASSUME NEW r \in Req, Moved(r), NEW x \in Req \ {r}
  PROVE  /\ \A w \in WO : Works(x, w)' <=> Works(x, w)
         /\ Before(x)' <=> Before(x)
         /\ Unbooked(x)' <=> Unbooked(x)
         /\ Reenters(x)' <=> Reenters(x)
         /\ req'[x].to = req[x].to /\ req'[x].start = req[x].start
BY DEF Moved, Stays, Works, UnderWay, Before, Unbooked, Reenters

(* The books of an order that r has nothing to do with.                     *)
LEMMA RightElsewhere ==
  ASSUME NEW r \in Req, Moved(r), NEW w \in WO, Right(w), ~ Works(r, w), ~ Works(r, w)',
         status'[w] = status[w], reworks'[w] = reworks[w], first'[w] = first[w], again'[w] = again[w]
  PROVE  Right(w)'
<1>1. (\E x \in Req : Works(x, w) /\ Unbooked(x))' <=> (\E x \in Req : Works(x, w) /\ Unbooked(x))
  BY OthersWork
<1>2. (\E x \in Req : Works(x, w) /\ Reenters(x))' <=> (\E x \in Req : Works(x, w) /\ Reenters(x))
  BY OthersWork
<1>3. ASSUME NEW x \in Req, (Works(x, w) /\ Before(x))'
      PROVE  Works(x, w) /\ Before(x) /\ req'[x].to = req[x].to /\ req'[x].start = req[x].start
  BY <1>3, OthersWork
<1>4. ASSUME NEW x \in Req, (Works(x, w) /\ Unbooked(x))' PROVE Works(x, w) /\ Unbooked(x)
  BY <1>4, OthersWork
<1>5. QED BY <1>1, <1>2, <1>3, <1>4 DEF Right

(* The books of the order that r alone works on.                            *)
LEMMA RightHere ==
  ASSUME NEW r \in Req, Moved(r), NEW w \in WO, \A x \in Req \ {r} : ~ Works(x, w), Works(r, w)', Sole(r, w)'
  PROVE  Right(w)'
<1>1. \A x \in Req : Works(x, w)' => x = r
  BY OthersWork
<1>2. /\ (\E x \in Req : Works(x, w) /\ Unbooked(x))' <=> Unbooked(r)'
      /\ (\E x \in Req : Works(x, w) /\ Reenters(x))' <=> Reenters(r)'
  BY <1>1
<1>3. QED BY <1>1, <1>2 DEF Right, Sole

LEMMA OrderMoves ==
  ASSUME IInv, NEW r \in Req, Moved(r), NEW w0 \in WO, Works(r, w0), Works(r, w0)',
         raced' = raced, broken' = broken,
         \A w \in WO \ {w0} : /\ status'[w] = status[w] /\ reworks'[w] = reworks[w]
                            /\ first'[w] = first[w] /\ again'[w] = again[w],
         w0 \notin raced \cup broken => Sole(r, w0)'
  PROVE  OrderInv'
<1>1. Alone'
  BY OthersWork DEF IInv, OrderInv, Alone, Works
<1>2. ASSUME NEW w \in WO \ (raced \cup broken)' PROVE Right(w)'
  <2>1. Right(w)
    BY DEF IInv, OrderInv
  <2>2. CASE w = w0
    <3>1. \A x \in Req \ {r} : ~ Works(x, w)
      BY <2>2, SoleOf
    <3>2. QED BY <2>2, <3>1, RightHere
  <2>3. CASE w # w0
    <3>1. ~ Works(r, w) /\ ~ Works(r, w)'
      BY <2>3 DEF Works
    <3>2. QED BY <2>1, <2>3, <3>1, RightElsewhere
  <2>4. QED BY <2>2, <2>3
<1>3. QED BY <1>1, <1>2 DEF OrderInv

LEMMA InsertCostStep == ASSUME IInv, NEW r \in Req, InsertCost(r) PROVE IInv'
<1> DEFINE q == [req[r] EXCEPT !.pc = "budget"]
           a == Amount(r)
<1>0. PICK o \in WO : o = req[r].wo
  BY Types DEF InsertCost, At, Placed, OrderPcs
<1>1. /\ req[r].pc = "row" /\ Become(r, q) /\ captured' = captured + a
      /\ posted' = IF req[r].post THEN posted + a ELSE posted
      /\ first' = IF req[r].start THEN [first EXCEPT ![o] = @ + 1] ELSE first
      /\ again' = IF req[r].to = "rework" THEN [again EXCEPT ![o] = @ + 1] ELSE again
      /\ unhoused' = IF req[r].housed THEN unhoused ELSE [unhoused EXCEPT ![o] = @ + 1]
      /\ UNCHANGED <<status, reworks, drawn, taken, reserved, reservations, leak, ledger, budget,
                     checklist, fresh, raced, broken>>
  BY <1>0 DEF InsertCost, At, Goto, orderVars, stockVars, stageVars, damageVars
<1>2. q \in Request0 /\ SameOrder(q, req[r]) /\ q.copy = req[r].copy /\ q.pc = "budget" /\ q.line = req[r].line
  BY Types DEF Request0, SameOrder, Pcs
<1>3. /\ o = req[r].wo
      /\ req[r].start => req[r].to = "in_progress"
      /\ req[r].to = "rework" /\ req[r].housed => req[r].line = Lines
      /\ ~ req[r].housed => req[r].to = "rework"
      /\ req[r].start \/ req[r].to \in {"qc_pending", "rework"}
  BY <1>0, <1>1, Types DEF Placed, OrderPcs, CostPcs
<1> HIDE DEF q
<1>4. Moved(r) /\ req'[r] = q /\ SameOrder(req'[r], req[r])
  BY <1>1, <1>2, GoOnFacts DEF SameOrder
<1>5. Placed(r)'
  BY <1>1, <1>2, <1>4, Types DEF Placed, OrderPcs, CostPcs, SameOrder
<1>6. /\ a \in Nat /\ a = Amount(r)' /\ captured \in Nat /\ posted \in Nat /\ ledger \in Nat
      /\ first \in [WO -> Nat] /\ again \in [WO -> Nat] /\ unhoused \in [WO -> Nat]
  BY <1>4, Types, Amounts DEF TypeOK, TypeStored, Amount, SameOrder
<1>7. TypeStored' /\ Shape'
  <2>1. captured' \in Nat /\ posted' \in Nat
    BY <1>1, <1>6
  <2>2. first' \in [WO -> Nat] /\ again' \in [WO -> Nat] /\ unhoused' \in [WO -> Nat]
    BY <1>1, <1>3, <1>6
  <2>3. TypeStored'
    BY <1>1, <2>1, <2>2, Types DEF TypeOK, TypeStored
  <2>4. QED BY <1>4, <1>5, <2>3, ShapeKept DEF IInv
<1>8. BudgetInv'
  <2>1. Limit \in Nat /\ Limit' = Limit
    BY <1>1, Types, ValuesAssumption DEF TypeOK, TypeStored, Limit
  <2>2. /\ req[r].copy.actual \in Nat /\ req[r].copy.actual <= captured /\ req[r].copy.committed <= Limit
        /\ budget.actual \in Nat /\ budget.actual <= captured /\ budget.committed <= Limit
    BY Types DEF Budget0, IInv, BudgetInv, Covered
  <2>3. Covered(r)'
    <3>1. req'[r].copy = req[r].copy
      BY <1>2, <1>4
    <3>2. QED BY <1>1, <1>6, <2>1, <2>2, <3>1 DEF Covered
  <2>4. Owed'[r] = 0 /\ Owed[r] = IF req[r].post THEN a ELSE 0
    BY <1>1, <1>2, <1>4 DEF Owed
  <2>5. posted' + Owed'[r] + ledger <= ledger' + posted + Owed[r]
    BY <1>1, <1>6, <2>4
  <2>6. captured <= captured' /\ budget'.actual <= captured' /\ budget'.committed <= Limit'
    BY <1>1, <1>6, <2>1, <2>2
  <2>7. Limit <= Limit'
    BY <2>1
  <2>8. QED BY <1>4, <1>7, <2>3, <2>5, <2>6, <2>7, BudgetKept
<1>9. StockInv'
  <2>1. Holding'[r] = Holding[r]
    BY <1>1, <1>2, <1>4 DEF Holding, ReservePcs
  <2>2. ASSUME NEW w \in WO
        PROVE  /\ reworks'[w] + Entering(w)'[r] + again[w] <= again'[w] + reworks[w] + Entering(w)[r]
               /\ Lines * Due(w)' + Held(w)'[r] + drawn[w] <= drawn'[w] + Lines * Due(w) + Held(w)[r]
    <3>1. /\ reworks[w] \in Nat /\ again[w] \in Nat /\ unhoused[w] \in Nat /\ drawn[w] \in Nat /\ Lines \in Nat
          /\ Lines * Due(w) \in Int /\ Due(w) \in Int
      BY <1>6, Types, SizesAssumption, DueNumber DEF TypeOK, TypeStored, Due
    <3>2. CASE w = o /\ req[r].to = "rework"
      <4>1. /\ Entering(w)'[r] = 1 /\ Entering(w)[r] = 0 /\ Held(w)'[r] = 0
            /\ Held(w)[r] = IF req[r].housed THEN Lines ELSE 0
        BY <1>1, <1>2, <1>3, <1>4, <3>2 DEF Entering, Held, SameOrder
      <4>2. /\ again'[w] = again[w] + 1
            /\ unhoused'[w] = IF req[r].housed THEN unhoused[w] ELSE unhoused[w] + 1
        BY <1>1, <1>3, <1>6, <3>2
      <4>3. Due(w)' = IF req[r].housed THEN Due(w) + 1 ELSE Due(w)
        BY <3>1, <4>2 DEF Due
      <4>4. Lines * (Due(w) + 1) = Lines * Due(w) + Lines
        <5>1. \A m \in Nat : \A k \in Int : m * (k + 1) = m * k + m
          OBVIOUS
        <5>2. QED BY <3>1, <5>1
      <4>5. CASE req[r].housed
        <5>1. Lines * Due(w)' = Lines * Due(w) + Lines
          BY <4>3, <4>4, <4>5
        <5>2. QED BY <1>1, <3>1, <4>1, <4>2, <4>5, <5>1
      <4>6. CASE ~ req[r].housed
        BY <1>1, <3>1, <4>1, <4>2, <4>3, <4>6
      <4>7. QED BY <4>5, <4>6
    <3>3. CASE ~ (w = o /\ req[r].to = "rework")
      <4>1. /\ Entering(w)'[r] = 0 /\ Entering(w)[r] = 0 /\ Held(w)[r] = 0 /\ Held(w)'[r] = 0
        BY <1>1, <1>2, <1>3, <1>4, <3>3 DEF Entering, Held, SameOrder
      <4>2. again'[w] = again[w] /\ unhoused'[w] = unhoused[w]
        BY <1>1, <1>3, <1>6, <3>3
      <4>3. Due(w)' = Due(w)
        BY <4>2 DEF Due
      <4>4. QED BY <1>1, <3>1, <4>1, <4>2, <4>3
    <3>4. QED BY <3>2, <3>3
  <2>3. taken' + Lines * reservations + leak + Holding[r] = taken + Lines * reservations' + leak' + Holding'[r]
    BY <1>1, <2>1
  <2>4. QED BY <1>4, <1>7, <2>2, <2>3, StockKept
<1>10. OrderInv'
  <2>1. Works(r, o) /\ Works(r, o)'
    BY <1>1, <1>2, <1>3, <1>4 DEF Works, UnderWay, SameOrder
  <2>2. \A w \in WO \ {o} : status'[w] = status[w] /\ reworks'[w] = reworks[w]
                            /\ first'[w] = first[w] /\ again'[w] = again[w]
    BY <1>1, <1>6
  <2>3. ASSUME o \notin raced \cup broken PROVE Sole(r, o)'
    <3>1. Sole(r, o)
      BY <1>3, <2>1, <2>3, SoleOf
    <3>2. /\ first'[o] = IF req[r].start THEN first[o] + 1 ELSE first[o]
          /\ again'[o] = IF req[r].to = "rework" THEN again[o] + 1 ELSE again[o]
      BY <1>1, <1>3, <1>6
    <3>3. Unbooked(r) <=> req[r].start
      BY <1>1 DEF Unbooked
    <3>4. ~ Unbooked(r)' /\ ~ Reenters(r) /\ (Reenters(r)' <=> req[r].to = "rework")
      BY <1>1, <1>2, <1>4 DEF Unbooked, Reenters, SameOrder
    <3>5. Before(r)' => Before(r)
      BY <1>1, <1>2, <1>4 DEF Before, SameOrder
    <3>6. first'[o] = IF Started(status'[o]) /\ ~ Unbooked(r)' THEN 1 ELSE 0
      BY <1>1, <3>1, <3>2, <3>3, <3>4 DEF Sole
    <3>7. again'[o] = reworks'[o] + (IF Reenters(r)' THEN 1 ELSE 0)
      <4>1. reworks[o] \in Nat /\ again[o] = reworks[o]
        BY <1>3, <3>1, <3>4, Types DEF Sole, TypeOK, TypeStored
      <4>2. QED BY <1>1, <3>2, <3>4, <4>1
    <3>8. Before(r)' => /\ status'[o] # "none" /\ req'[r].to \in ALLOWED_TRANSITIONS[status'[o]]
                        /\ req'[r].start <=> status'[o] = "released"
      <4>1. req'[r].to = req[r].to /\ req'[r].start = req[r].start /\ status' = status
        BY <1>1, <1>4 DEF SameOrder
      <4>2. QED BY <3>1, <3>5, <4>1 DEF Sole
    <3>9. QED BY <3>4, <3>6, <3>7, <3>8 DEF Sole
  <2>4. QED BY <1>1, <1>3, <1>4, <2>1, <2>2, <2>3, OrderMoves
<1>11. ListInv'
  <2>1. QuietList(r)
    BY <1>1, <1>2, <1>4 DEF QuietList, Wrote, CostPcs, SameOrder
  <2>2. QED BY <1>1, <1>4, <2>1, ListQuiet DEF QuietList
<1>12. QED BY <1>7, <1>8, <1>9, <1>10, <1>11 DEF IInv

LEMMA Transitions ==
  \A s \in Statuses : \A t \in ALLOWED_TRANSITIONS[s] :
    /\ t \in Statuses
    /\ s = "released" => t = "in_progress"
    /\ s # "released" => (Started(s) <=> Started(t))
    /\ t = "rework" => Started(s)
<1>1. \A s \in Statuses : ALLOWED_TRANSITIONS[s] =
        CASE s = "queued" -> {"released"} [] s = "released" -> {"in_progress"}
          [] s = "in_progress" -> {"qc_pending"} [] s = "qc_pending" -> {"passed", "qc_hold"}
          [] s = "qc_hold" -> {"rework"} [] s = "rework" -> {"in_progress"} [] s = "passed" -> {"packed"}
          [] s = "packed" -> {"staged"} [] s = "staged" -> {"dispatched"} [] s = "dispatched" -> {}
  BY DEF ALLOWED_TRANSITIONS, Statuses
<1>2. QED BY <1>1 DEF Statuses, Started

(* Nobody who is not r is alone, unless r was not under way.                *)
LEMMA AloneKept ==
  ASSUME IInv, NEW r \in Req, Moved(r), req[r].pc # "idle",
         req'[r].alone => req[r].alone /\ req'[r].pc # "idle"
  PROVE  /\ \A x \in Req : req'[x].alone => UnderWay' = {x}
         /\ \A x \in Req \ {r} : ~ req'[x].alone
<1>1. \A x \in Req \ {r} : Stays(x)
  BY DEF Moved
<1>2. ASSUME NEW x \in Req \ {r} PROVE ~ req'[x].alone
  BY <1>1 DEF Stays, UnderWay, IInv, ListInv
<1>3. ASSUME req'[r].alone PROVE UnderWay' = {r}
  BY <1>1, <1>3 DEF UnderWay, Stays, IInv, ListInv
<1>4. QED BY <1>2, <1>3

LEMMA WriteStatusStep == ASSUME IInv, NEW r \in Req, WriteStatus(r) PROVE IInv'
<1> DEFINE t == req[r].to
<1>0. PICK o \in WO : o = req[r].wo
  BY Types DEF WriteStatus, At, Placed, OrderPcs
<1>1. PICK p \in {"cost", "sync"} :
        /\ req[r].pc \in {"write", "start"} /\ Become(r, [req[r] EXCEPT !.pc = p])
        /\ p = "cost" => req[r].start \/ t = "qc_pending"
        /\ p = "sync" => ~ req[r].start
        /\ status' = [status EXCEPT ![o] = t]
        /\ reworks' = IF t = "rework" THEN [reworks EXCEPT ![o] = @ + 1] ELSE reworks
        /\ UNCHANGED <<unhoused, stockVars, costVars, stageVars, damageVars>>
  BY <1>0 DEF WriteStatus, At, Goto
<1> DEFINE q == [req[r] EXCEPT !.pc = p]
<1>2. q \in Request0 /\ SameOrder(q, req[r]) /\ q.copy = req[r].copy /\ q.pc = p /\ q.line = req[r].line
  BY Types DEF Request0, SameOrder, Pcs
<1>3. /\ o = req[r].wo
      /\ t \in Statuses
      /\ req[r].start => t = "in_progress"
      /\ req[r].pc = "start" <=> req[r].start
  BY <1>0, <1>1, Types DEF Placed, OrderPcs
<1>4. UNCHANGED <<unhoused, drawn, taken, reserved, reservations, leak, first, again, captured, posted, ledger, budget,
                  checklist, fresh, raced, broken>>
  BY <1>1 DEF stockVars, costVars, stageVars, damageVars
<1> HIDE DEF q
<1>5. Moved(r) /\ req'[r] = q /\ SameOrder(req'[r], req[r])
  BY <1>1, <1>2, GoOnFacts DEF SameOrder, q
<1>6. Placed(r)'
  BY <1>1, <1>2, <1>3, <1>5, Types DEF Placed, OrderPcs, CostPcs, SameOrder
<1>7. status \in [WO -> Statuses \cup {"none"}] /\ reworks \in [WO -> Nat]
  BY Types DEF TypeOK, TypeStored
<1>8. TypeStored' /\ Shape'
  <2>1. status' \in [WO -> Statuses \cup {"none"}] /\ reworks' \in [WO -> Nat]
    BY <1>1, <1>3, <1>7
  <2>2. TypeStored'
    BY <1>4, <2>1, Types DEF TypeOK, TypeStored
  <2>3. QED BY <1>5, <1>6, <2>2, ShapeKept DEF IInv
<1>9. BudgetInv'
  <2>1. QuietBudget(r)
    BY <1>1, <1>2, <1>5 DEF QuietBudget
  <2>2. QED BY <1>4, <1>5, <1>8, <2>1, BudgetQuiet DEF QuietBudget
<1>10. StockInv'
  <2>1. Holding'[r] = Holding[r]
    BY <1>1, <1>2, <1>5 DEF Holding, ReservePcs
  <2>2. ASSUME NEW w \in WO
        PROVE  /\ reworks'[w] + Entering(w)'[r] + again[w] <= again'[w] + reworks[w] + Entering(w)[r]
               /\ Lines * Due(w)' + Held(w)'[r] + drawn[w] <= drawn'[w] + Lines * Due(w) + Held(w)[r]
    <3>1. /\ reworks[w] \in Nat /\ again[w] \in Nat /\ drawn[w] \in Nat /\ Lines * Due(w) \in Int
          /\ Due(w)' = Due(w)
      BY <1>4, Types, DueNumber DEF TypeOK, TypeStored, Due
    <3>2. Held(w)[r] = 0 /\ Held(w)'[r] = 0 /\ Entering(w)'[r] = 0
      BY <1>1, <1>2, <1>3, <1>5 DEF Held, Entering, SameOrder
    <3>3. /\ reworks'[w] = IF w = o /\ t = "rework" THEN reworks[w] + 1 ELSE reworks[w]
          /\ Entering(w)[r] = IF w = o /\ t = "rework" THEN 1 ELSE 0
      BY <1>1, <1>3, <1>7 DEF Entering
    <3>4. QED BY <1>4, <3>1, <3>2, <3>3
  <2>3. taken' + Lines * reservations + leak + Holding[r] = taken + Lines * reservations' + leak' + Holding'[r]
    BY <1>4, <2>1
  <2>4. QED BY <1>5, <1>8, <2>2, <2>3, StockKept
<1>11. OrderInv'
  <2>1. Works(r, o) /\ Works(r, o)'
    BY <1>1, <1>2, <1>3, <1>5 DEF Works, UnderWay, SameOrder
  <2>2. \A w \in WO \ {o} : status'[w] = status[w] /\ reworks'[w] = reworks[w]
                            /\ first'[w] = first[w] /\ again'[w] = again[w]
    BY <1>1, <1>4, <1>7
  <2>3. ASSUME o \notin raced \cup broken PROVE Sole(r, o)'
    <3>1. Sole(r, o) /\ Before(r) /\ ~ Unbooked(r) /\ (Reenters(r) <=> t = "rework")
      BY <1>1, <1>3, <2>1, <2>3, SoleOf DEF Before, Unbooked, Reenters
    <3>2. /\ status'[o] = t
          /\ reworks'[o] = IF t = "rework" THEN reworks[o] + 1 ELSE reworks[o]
          /\ first'[o] = first[o] /\ again'[o] = again[o] /\ reworks[o] \in Nat
      BY <1>1, <1>3, <1>4, <1>7
    <3>3. /\ status[o] \in Statuses /\ t \in ALLOWED_TRANSITIONS[status[o]]
          /\ req[r].start <=> status[o] = "released"
      BY <1>3, <1>7, <3>1 DEF Sole
    <3>4. ~ Reenters(r)' /\ (Unbooked(r)' <=> req[r].start) /\ ~ Before(r)'
      BY <1>1, <1>2, <1>3, <1>5 DEF Reenters, Unbooked, Before, SameOrder
    <3>5. Unbooked(r)' => Started(status'[o])
      BY <1>3, <3>2, <3>4 DEF Started
    <3>6. first'[o] = IF Started(status'[o]) /\ ~ Unbooked(r)' THEN 1 ELSE 0
      <4>1. CASE req[r].start
        BY <3>1, <3>2, <3>3, <3>4, <4>1 DEF Sole, Started
      <4>2. CASE ~ req[r].start
        BY <3>1, <3>2, <3>3, <3>4, <4>2, Transitions DEF Sole
      <4>3. QED BY <4>1, <4>2
    <3>7. again'[o] = reworks'[o] + (IF Reenters(r)' THEN 1 ELSE 0)
      BY <3>1, <3>2, <3>4 DEF Sole
    <3>8. QED BY <3>4, <3>5, <3>6, <3>7 DEF Sole
  <2>4. QED BY <1>3, <1>4, <1>5, <2>1, <2>2, <2>3, OrderMoves
<1>12. ListInv'
  <2>1. /\ \A x \in Req : req'[x].alone => UnderWay' = {x}
        /\ \A x \in Req \ {r} : ~ req'[x].alone
    BY <1>1, <1>2, <1>5, AloneKept DEF SameOrder
  <2>2. req'[r].pc # "mark" /\ Wrote(r)'
    BY <1>1, <1>2, <1>3, <1>5 DEF Wrote, CostPcs, SameOrder
  <2>3. QED BY <2>1, <2>2 DEF ListInv
<1>13. QED BY <1>8, <1>9, <1>10, <1>11, <1>12 DEF IInv

LEMMA ReadOrdersStep == ASSUME IInv, NEW r \in Req, ReadOrders(r) PROVE IInv'
<1> DEFINE q == [req[r] EXCEPT !.pc = "mark", !.snap = Cleared]
<1>1. /\ req[r].pc = "sync" /\ Become(r, q)
      /\ UNCHANGED <<status, reworks, unhoused, drawn, taken, reserved, reservations, leak, first, again,
                     captured, posted, ledger, budget, checklist, fresh, raced, broken>>
  BY DEF ReadOrders, At, orderVars, stockVars, costVars, stageVars, damageVars
<1>2. /\ q \in Request0 /\ SameOrder(q, req[r]) /\ q.copy = req[r].copy /\ q.pc = "mark" /\ q.line = req[r].line
      /\ q.snap = Cleared
  <2>1. Cleared \subseteq Sections
    BY DEF Cleared
  <2> HIDE DEF Cleared
  <2>2. QED BY <2>1, Types DEF Request0, SameOrder, Pcs
<1> HIDE DEF q
<1>3. Moved(r) /\ req'[r] = q /\ SameOrder(req'[r], req[r])
  BY <1>1, <1>2, GoOnFacts DEF SameOrder
<1>4. Placed(r)'
  BY <1>1, <1>2, <1>3, Types DEF Placed, OrderPcs, CostPcs, SameOrder
<1>5. TypeStored' /\ Shape'
  <2>1. TypeStored'
    BY <1>1, Types DEF TypeOK, TypeStored
  <2>2. QED BY <1>3, <1>4, <2>1, ShapeKept DEF IInv
<1>6. BudgetInv'
  <2>1. QuietBudget(r)
    BY <1>2, <1>3 DEF QuietBudget
  <2>2. QED BY <1>1, <1>3, <1>5, <2>1, BudgetQuiet DEF QuietBudget
<1>7. StockInv'
  <2>1. QuietStock(r)
    BY <1>1, <1>2, <1>3, Types DEF QuietStock, Entering, Held, Holding, ReservePcs, Request0, SameOrder
  <2>2. QED BY <1>1, <1>3, <1>5, <2>1, StockQuiet DEF QuietStock
<1>8. OrderInv'
  <2>1. QuietOrders(r)
    BY <1>1, <1>2, <1>3 DEF QuietOrders, Works, UnderWay, Unbooked, Reenters, Before, SameOrder
  <2>2. QED BY <1>1, <1>3, <2>1, OrderQuiet DEF QuietOrders
<1>9. ListInv'
  <2>1. /\ \A x \in Req : req'[x].alone => UnderWay' = {x}
        /\ \A x \in Req \ {r} : ~ req'[x].alone
    BY <1>1, <1>2, <1>3, AloneKept DEF SameOrder
  <2>2. Cleared' = Cleared
    BY <1>1 DEF Cleared, Live
  <2>3. req'[r].snap = Cleared' /\ Wrote(r)'
    BY <1>2, <1>3, <2>2 DEF Wrote
  <2>4. QED BY <2>1, <2>3 DEF ListInv
<1>10. QED BY <1>5, <1>6, <1>7, <1>8, <1>9 DEF IInv

LEMMA SyncChecklistStep == ASSUME IInv, NEW r \in Req, SyncChecklist(r) PROVE IInv'
<1>1. /\ req[r].pc = "mark" /\ Become(r, Idle) /\ checklist' = req[r].snap /\ fresh' = req[r].alone
      /\ UNCHANGED <<status, reworks, unhoused, drawn, taken, reserved, reservations, leak, first, again,
                     captured, posted, ledger, budget, raced, broken>>
  BY DEF SyncChecklist, At, Synced, orderVars, stockVars, costVars, damageVars
<1>2. TypeOK /\ Moved(r) /\ Placed(r)'
  BY <1>1, EndFacts
<1>3. TypeStored' /\ Shape'
  <2>1. fresh' \in BOOLEAN
    BY <1>1, <1>2 DEF TypeOK, Request0
  <2>2. TypeStored'
    BY <1>1, <2>1, Types DEF TypeOK, TypeStored
  <2>3. QED BY <1>2, <2>2, ShapeKept DEF IInv
<1>4. BudgetInv'
  BY <1>1, <1>2, <1>3, EndFacts, BudgetQuiet DEF QuietBudget
<1>5. StockInv'
  <2>1. QuietStock(r)
    BY <1>1, EndFacts, Types, OrderShares DEF QuietStock, Holding, ReservePcs
  <2>2. QED BY <1>1, <1>2, <1>3, <2>1, StockQuiet DEF QuietStock
<1>6. OrderInv'
  <2>1. QuietOrders(r)
    BY <1>1, EndFacts DEF QuietOrders, Works, Unbooked, Reenters
  <2>2. QED BY <1>1, <1>2, <2>1, OrderQuiet DEF QuietOrders
<1>7. ListInv'
  <2>1. \A x \in Req : ~ req'[x].alone
    BY <1>1, <1>2, EndFacts, AloneKept
  <2>2. Cleared' = Cleared
    BY <1>1 DEF Cleared, Live
  <2>3. fresh' => checklist' = Cleared'
    BY <1>1, <2>2 DEF IInv, ListInv
  <2>4. QED BY <2>1, <2>3 DEF ListInv
<1>8. QED BY <1>3, <1>4, <1>5, <1>6, <1>7 DEF IInv

(* A move of an order is asked for.                                         *)
LEMMA AskStep ==
  ASSUME IInv, NEW r \in Req, NEW w \in WO, NEW to, NEW pc, Ask(r, w, to, pc),
         to = "rework" => pc \in {"issue", "cost"},
         to # "rework" => pc = IF status[w] = "released" THEN "start" ELSE "write"
  PROVE  IInv'
<1> DEFINE q == [Idle EXCEPT !.wo = w, !.to = to, !.pc = pc, !.start = (pc = "start"), !.housed = (pc # "cost")]
<1>1. /\ status[w] # "none" /\ to \in ALLOWED_TRANSITIONS[status[w]] /\ Begin(r, q)
      /\ raced' = IF \E x \in Req : Works(x, w) THEN raced \cup {w} ELSE raced
      /\ UNCHANGED <<status, reworks, unhoused, drawn, taken, reserved, reservations, leak, first, again,
                     captured, posted, ledger, budget, checklist, fresh, broken>>
  BY DEF Ask, orderVars, stockVars, costVars, stageVars
<1>2. /\ status[w] \in Statuses /\ to \in Statuses
      /\ pc = "start" => to = "in_progress"
      /\ pc \in {"write", "start", "issue", "cost"} /\ (pc \in {"issue", "cost"} <=> to = "rework")
      /\ pc = "start" <=> status[w] = "released"
      /\ pc # "start" => (Started(status[w]) <=> Started(to))
  <2>1. status[w] \in Statuses
    BY <1>1, Types DEF TypeOK, TypeStored
  <2>2. /\ to \in Statuses
        /\ status[w] = "released" => to = "in_progress"
        /\ status[w] # "released" => (Started(status[w]) <=> Started(to))
    BY <1>1, <2>1, Transitions
  <2>3. QED BY <2>1, <2>2
<1>3. /\ q \in Request0 /\ q.wo = w /\ q.to = to /\ q.pc = pc /\ q.line = 0 /\ q.copy = NoBudget
      /\ q.start = (pc = "start") /\ q.housed = (pc # "cost")
  BY <1>2, IdleType DEF Request0, Pcs
<1> HIDE DEF q
<1>4. Moved(r) /\ req[r].pc = "idle" /\ Asked(r, q) /\ \A x \in Req \ {r} : ~ req'[x].alone
  BY <1>1, <1>3, Types, BeginFacts
<1>5. Placed(r)'
  BY <1>2, <1>3, <1>4 DEF Placed, OrderPcs, CostPcs, Asked
<1>6. TypeStored' /\ Shape'
  <2>1. raced' \subseteq WO
    BY <1>1, Types
  <2>2. TypeStored'
    BY <1>1, <2>1, Types DEF TypeOK, TypeStored
  <2>3. QED BY <1>4, <1>5, <2>2, ShapeKept DEF IInv
<1>7. BudgetInv'
  <2>1. QuietBudget(r)
    BY <1>2, <1>3, <1>4 DEF QuietBudget, Asked
  <2>2. QED BY <1>1, <1>4, <1>6, <2>1, BudgetQuiet DEF QuietBudget
<1>8. StockInv'
  <2>1. QuietStock(r)
    BY <1>2, <1>3, <1>4 DEF QuietStock, Entering, Held, Holding, ReservePcs, Asked
  <2>2. QED BY <1>1, <1>4, <1>6, <2>1, StockQuiet DEF QuietStock
<1>9. OrderInv'
  <2>1. \A v \in WO : ~ Works(r, v) /\ (Works(r, v)' <=> v = w)
    BY <1>2, <1>3, <1>4 DEF Works, UnderWay, Asked
  <2>2. Alone'
    <3>1. ASSUME NEW v \in WO \ raced', NEW x \in Req, NEW y \in Req, Works(x, v)', Works(y, v)'
          PROVE  x = y
      <4>1. v \notin raced
        BY <1>1
      <4>2. CASE v = w
        <5>1. ~ \E z \in Req : Works(z, w)
          BY <1>1, <4>2
        <5>2. QED BY <1>4, <3>1, <4>2, <5>1, OthersWork
      <4>3. CASE v # w
        BY <1>4, <2>1, <3>1, <4>1, <4>3, OthersWork DEF IInv, OrderInv, Alone
      <4>4. QED BY <4>2, <4>3
    <3>2. QED BY <3>1 DEF Alone
  <2>3. ASSUME NEW v \in WO \ (raced \cup broken)' PROVE Right(v)'
    <3>1. Right(v)
      BY <1>1 DEF IInv, OrderInv
    <3>2. CASE v # w
      BY <1>1, <1>4, <2>1, <3>1, <3>2, RightElsewhere
    <3>3. CASE v = w
      <4>1. \A x \in Req : ~ Works(x, w)
        BY <1>1, <3>3
      <4>2. /\ first[w] = IF Started(status[w]) THEN 1 ELSE 0
            /\ again[w] = reworks[w] + 0
        BY <3>1, <3>3, <4>1 DEF Right
      <4>3. ~ Unbooked(r)' /\ ~ Reenters(r)' /\ req'[r].to = to /\ (req'[r].start <=> pc = "start")
        BY <1>2, <1>3, <1>4 DEF Unbooked, Reenters, Asked
      <4>4. first'[w] = IF Started(status'[w]) /\ ~ Unbooked(r)' THEN 1 ELSE 0
        BY <1>1, <4>2, <4>3
      <4>5. again'[w] = reworks'[w] + (IF Reenters(r)' THEN 1 ELSE 0)
        BY <1>1, <4>2, <4>3
      <4>6. /\ status'[w] # "none" /\ req'[r].to \in ALLOWED_TRANSITIONS[status'[w]]
            /\ req'[r].start <=> status'[w] = "released"
        BY <1>1, <1>2, <4>3
      <4>7. Sole(r, w)'
        BY <4>3, <4>4, <4>5, <4>6 DEF Sole
      <4>8. QED BY <1>4, <2>1, <3>3, <4>1, <4>7, RightHere
    <3>4. QED BY <3>2, <3>3
  <2>4. QED BY <2>2, <2>3 DEF OrderInv
<1>10. ListInv'
  <2>1. QuietList(r)
    BY <1>2, <1>3, <1>4 DEF QuietList, Wrote, CostPcs, Asked
  <2>2. QED BY <1>1, <1>4, <2>1, ListQuiet DEF QuietList
<1>11. QED BY <1>6, <1>7, <1>8, <1>9, <1>10 DEF IInv

LEMMA AskOrderStep == ASSUME IInv, NEW r \in Req, NEW w \in WO, AskOrder(r, w) PROVE IInv'
<1>1. ASSUME NEW to \in Statuses, Ask(r, w, to, "write"), to \notin {"in_progress", "rework"} PROVE IInv'
  <2>1. status[w] \in Statuses /\ to \in ALLOWED_TRANSITIONS[status[w]]
    BY <1>1, Types DEF Ask, TypeOK, TypeStored
  <2>2. status[w] # "released"
    BY <1>1, <2>1, Transitions
  <2>3. QED BY <1>1, <2>2, AskStep
<1>2. CASE \E to \in {"released", "qc_pending", "passed", "qc_hold", "packed", "staged", "dispatched"} : Ask(r, w, to, "write")
  <2>1. PICK to \in {"released", "qc_pending", "passed", "qc_hold", "packed", "staged", "dispatched"} : Ask(r, w, to, "write")
    BY <1>2
  <2>2. to \in Statuses /\ to \notin {"in_progress", "rework"}
    BY DEF Statuses
  <2>3. QED BY <1>1, <2>1, <2>2
<1>3. CASE StartOrder(r, w)
  <2>1. PICK pc : pc = IF status[w] = "released" THEN "start" ELSE "write"
    OBVIOUS
  <2>2. Ask(r, w, "in_progress", pc)
    BY <1>3, <2>1 DEF StartOrder
  <2>3. QED BY <2>1, <2>2, AskStep
<1>4. CASE ReworkOrder(r, w) \/ ReworkUnhoused(r, w)
  <2>1. PICK pc \in {"issue", "cost"} : Ask(r, w, "rework", pc)
    BY <1>4 DEF ReworkOrder, ReworkUnhoused
  <2>2. QED BY <2>1, AskStep
<1>5. QED BY <1>2, <1>3, <1>4 DEF AskOrder, ReleaseOrder, RequestQC, RecordQC, PackOrder, StageOrder, DispatchOrder

(* A step that moves no request.                                            *)
LEMMA SameTotals ==
  ASSUME req' \in [Req -> Request0], \A x \in Req : Stays(x)
  PROVE  /\ Owed' = Owed /\ Holding' = Holding
         /\ \A w \in WO : Held(w)' = Held(w) /\ Entering(w)' = Entering(w)
<1>1. Owed' = Owed
  BY DEF Owed, Amount, Stays
<1>2. Holding' = Holding
  BY DEF Holding, Stays
<1>3. QED BY <1>1, <1>2 DEF Held, Entering, Stays

LEMMA CreateOrderStep == ASSUME IInv, NEW w0 \in WO, CreateOrder(w0) PROVE IInv'
<1>1. /\ status[w0] = "none" /\ status' = [status EXCEPT ![w0] = "queued"] /\ fresh' = FALSE /\ req' = Overlapped
      /\ UNCHANGED <<reworks, unhoused, drawn, taken, reserved, reservations, leak, first, again,
                     captured, posted, ledger, budget, checklist, raced, broken>>
  BY DEF CreateOrder, stockVars, costVars, damageVars
<1>2. TypeOK
  BY DEF IInv, Shape
<1>3. /\ req' \in [Req -> Request0]
      /\ \A x \in Req : Stays(x) /\ req'[x].alone = FALSE
  BY <1>1, <1>2, OverlappedFacts DEF Stays
<1>4. TypeStored' /\ Shape'
  <2>1. status' \in [WO -> Statuses \cup {"none"}]
    BY <1>1, <1>2 DEF TypeOK, TypeStored, Statuses
  <2>2. fresh' \in BOOLEAN
    BY <1>1, Zenon
  <2>3. TypeStored'
    BY <1>1, <1>2, <2>1, <2>2 DEF TypeOK, TypeStored
  <2>4. \A x \in Req : Placed(x)'
    BY <1>3 DEF IInv, Shape, Placed, Stays
  <2>5. QED BY <1>3, <2>3, <2>4 DEF Shape, TypeOK
<1>5. BudgetInv'
  <2>1. Limit' = Limit /\ Owed' = Owed
    BY <1>1, <1>3, SameTotals DEF Limit
  <2>2. \A x \in Req : Covered(x)'
    BY <1>1, <1>3, <2>1 DEF IInv, BudgetInv, Covered, Stays, Amount
  <2>3. QED BY <1>1, <2>1, <2>2 DEF IInv, BudgetInv, Total
<1>6. StockInv'
  <2>1. \A w \in WO : Due(w)' = Due(w)
    BY <1>1 DEF Due
  <2>2. QED BY <1>1, <1>3, <2>1, SameTotals DEF IInv, StockInv, Total
<1>7. OrderInv'
  <2>1. \A x \in Req : /\ \A w \in WO : Works(x, w)' <=> Works(x, w)
                      /\ (Before(x)' <=> Before(x)) /\ (Unbooked(x)' <=> Unbooked(x)) /\ (Reenters(x)' <=> Reenters(x))
                      /\ req'[x].to = req[x].to /\ req'[x].start = req[x].start
    BY <1>3 DEF Stays, Works, UnderWay, Before, Unbooked, Reenters
  <2>2. Alone'
    BY <1>1, <2>1 DEF IInv, OrderInv, Alone
  <2>3. ASSUME NEW w \in WO \ (raced \cup broken)' PROVE Right(w)'
    <3>1. Right(w)
      BY <1>1 DEF IInv, OrderInv
    <3>2. Started(status'[w]) <=> Started(status[w])
      BY <1>1, <1>2 DEF Started, TypeOK, TypeStored
    <3>3. \A x \in Req : Works(x, w) /\ Before(x) => status'[w] = status[w]
      BY <1>1, <1>2, <3>1 DEF Right, TypeOK, TypeStored
    <3>4. /\ (\E x \in Req : Works(x, w) /\ Unbooked(x))' <=> (\E x \in Req : Works(x, w) /\ Unbooked(x))
          /\ (\E x \in Req : Works(x, w) /\ Reenters(x))' <=> (\E x \in Req : Works(x, w) /\ Reenters(x))
      BY <2>1
    <3>5. first'[w] = first[w] /\ again'[w] = again[w] /\ reworks'[w] = reworks[w]
      BY <1>1
    <3>6. QED BY <2>1, <3>1, <3>2, <3>3, <3>4, <3>5 DEF Right
  <2>4. QED BY <2>2, <2>3 DEF OrderInv
<1>8. ListInv'
  BY <1>1, <1>3 DEF ListInv
<1>9. QED BY <1>4, <1>5, <1>6, <1>7, <1>8 DEF IInv

LEMMA Stutter == ASSUME IInv, UNCHANGED vars PROVE IInv'
<1>1. UNCHANGED <<status, reworks, unhoused, drawn, taken, reserved, reservations, leak, first, again, captured, posted,
                  ledger, budget, checklist, fresh, raced, broken, req>>
  BY DEF vars, orderVars, stockVars, costVars, stageVars, damageVars
<1>2. Shape'
  BY <1>1 DEF IInv, Shape, TypeOK, TypeStored, Placed
<1>3. BudgetInv'
  BY <1>1 DEF IInv, BudgetInv, Covered, Limit, Total, Owed, Amount
<1>4. StockInv'
  BY <1>1 DEF IInv, StockInv, Total, Held, Entering, Holding, Due
<1>5. OrderInv'
  BY <1>1 DEF IInv, OrderInv, Alone, Right, Works, UnderWay, Before, Unbooked, Reenters
<1>6. ListInv'
  BY <1>1 DEF IInv, ListInv, Wrote, UnderWay, Cleared, Live
<1>7. QED BY <1>2, <1>3, <1>4, <1>5, <1>6 DEF IInv
-----------------------------------------------------------------------------
LEMMA Inductive == Spec => []IInv
<1>1. ASSUME IInv, NEW r \in Req, OrderStep(r) \/ CostStep(r) PROVE IInv'
  BY <1>1, WriteStatusStep, ReworkLineStep, ReworkRefusedStep, ReadProjectStep, ArchivedStep, StillArchivedStep,
     EnterStep, NoAccountsStep, InsertCostStep, WriteBudgetStep DEF OrderStep, CostStep
<1>2. ASSUME IInv, NEW r \in Req, ChecklistStep(r) \/ ReserveStep(r) PROVE IInv'
  BY <1>2, ReadOrdersStep, SyncChecklistStep, MarkSectionStep, ReserveLineStep, LineRefusedStep,
     ReleaseLineStep, ReadCommitmentStep, CommitStep DEF ChecklistStep, ReserveStep
<1>3. ASSUME IInv, Next PROVE IInv'
  BY <1>1, <1>2, <1>3, CreateOrderStep, AskOrderStep, AskSectionStep, AskReservationStep, AskPlanStep,
     WritePlanStep, CrashStep DEF Next
<1>4. IInv /\ [Next]_vars => IInv'
  BY <1>3, Stutter
<1>5. QED BY <1>4, InitRight, PTL DEF Spec

(* create_job_cost: for any number of orders and requests, values and       *)
(* faults, the budget never shows cost without a row or commitment without  *)
(* a reservation, nor the rows a posting that the ledger does not have.     *)
THEOREM BudgetBehind == Spec => []BudgetNeverAhead
BY Inductive, Answers, PTL

(* start_work_order and rework_work_order: an order that one request at a   *)
(* time works on has its material booked once, and once per rework.         *)
THEOREM BookedOnce == Spec => []MaterialBookedOnce
BY Inductive, Answers, PTL

(* _rework_material and _reserve_stock: no rework without its lines issued  *)
(* and booked, and a reservation that fails returns what it took.           *)
THEOREM StockBehind == Spec => []StockBehindWork
BY Inductive, Answers, PTL

(* _recompute_pipeline: a request that ran alone leaves the checklist       *)
(* exact.                                                                   *)
THEOREM ChecklistExact == Spec => []ChecklistFollowsOrders
BY Inductive, Answers, PTL
=============================================================================
