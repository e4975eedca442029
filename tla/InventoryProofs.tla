-------------------------- MODULE InventoryProofs --------------------------
(***************************************************************************)
(* Proofs about Inventory, for any requests, documents, keys and opening   *)
(* stock: its type, that a level never goes below zero (NoOversell), that  *)
(* the cache agrees with the ledger (CacheMatchesLedger), that a document  *)
(* posts all its rows or none (AllOrNothing), and that Inventory           *)
(* implements StockPromise (ImplementsPromise).                            *)
(***************************************************************************)
EXTENDS Inventory, SignedSumProofs

(* A document of the system: legs it has, keys it names, what they add.    *)
LEMMA PlanFacts ==
  ASSUME TypeOK, NEW r \in Req
  PROVE  /\ plan[r] \in Plans
         /\ WellFormed(plan[r])
         /\ LastLeg(r) \in Nat /\ LastLeg(r) >= 1
         /\ \A i \in 1 .. LastLeg(r) :
              /\ <<r, i>> \in Rows
              /\ KeyOf(<<r, i>>) \in Keys
              /\ Delta[<<r, i>>] \in Int
              /\ Delta[<<r, i>>] = plan[r].legs[i].delta
<1>1. plan[r] \in Plans /\ WellFormed(plan[r])
  BY PlansAssumption DEF TypeOK
<1>2. /\ plan[r].legs \in Seq(Legs)
      /\ LastLeg(r) \in Nat /\ LastLeg(r) >= 1
  BY <1>1 DEF WellFormed, LastLeg
<1>3. ASSUME NEW i \in 1 .. LastLeg(r)
      PROVE  /\ <<r, i>> \in Rows
             /\ KeyOf(<<r, i>>) \in Keys
             /\ Delta[<<r, i>>] \in Int
             /\ Delta[<<r, i>>] = plan[r].legs[i].delta
  <2>1. <<r, i>> \in Rows
    BY DEF Rows, LastLeg
  <2>2. plan[r].legs[i] \in Legs
    BY <1>2 DEF LastLeg
  <2>3. KeyOf(<<r, i>>) \in Keys /\ plan[r].legs[i].delta \in Int
    BY <2>2 DEF KeyOf, Legs
  <2>4. Delta[<<r, i>>] = plan[r].legs[i].delta
    BY <2>1 DEF Delta
  <2>5. QED BY <2>1, <2>3, <2>4
<1>4. QED BY <1>1, <1>2, <1>3

(* The rows and their quantities are fixed with the documents. *)
LEMMA RowsFixed ==
  ASSUME UNCHANGED plan
  PROVE  /\ Rows' = Rows /\ Delta' = Delta
         /\ \A l : KeyOf(l)' = KeyOf(l)
         /\ \A r \in Req : LastLeg(r)' = LastLeg(r)
         /\ \A S, k : OnKey(S, k)' = OnKey(S, k)
BY DEF Rows, Delta, KeyOf, LastLeg, OnKey

(* Delta gives every row an integer. *)
LEMMA DeltaType == TypeOK => Delta \in [Rows -> Int]
<1> SUFFICES ASSUME TypeOK PROVE Delta \in [Rows -> Int]
  OBVIOUS
<1>1. ASSUME NEW l \in Rows PROVE plan[l[1]].legs[l[2]].delta \in Int
  <2>1. PICK r \in Req : l \in {r} \X (1 .. Len(plan[r].legs))
    BY DEF Rows
  <2>2. l = <<r, l[2]>> /\ l[2] \in 1 .. LastLeg(r)
    BY <2>1 DEF LastLeg
  <2>3. Delta[<<r, l[2]>>] \in Int
    BY <2>2, PlanFacts
  <2>4. Delta[l] = plan[l[1]].legs[l[2]].delta
    BY DEF Delta
  <2>5. QED BY <2>2, <2>3, <2>4
<1>2. QED BY <1>1 DEF Delta
-----------------------------------------------------------------------------
(* A handler stays on a leg of its document wherever an exception takes it. *)
LEMMA AbortType ==
  ASSUME TypeOK, NEW r \in Req, Abort(r)
  PROVE  /\ pc' \in [Req -> PcStates]
         /\ at' \in [Req -> Nat]
         /\ \A q \in Req : at'[q] \in 1 .. LastLeg(q)
<1>1. \A q \in Req : 1 \in 1 .. LastLeg(q) /\ at[q] \in 1 .. LastLeg(q)
  BY PlanFacts DEF TypeOK
<1>2. \/ at' = [at EXCEPT ![r] = 1]
      \/ at' = at
  BY DEF Abort
<1>3. /\ at' \in [Req -> Nat]
      /\ \A q \in Req : at'[q] \in 1 .. LastLeg(q)
  BY <1>1, <1>2 DEF TypeOK
<1>4. pc' \in [Req -> PcStates]
  BY DEF Abort, Goto, TypeOK, PcStates
<1>5. QED BY <1>3, <1>4

(* The initial states have the types. *)
LEMMA InitType == Init => TypeOK
<1> SUFFICES ASSUME Init PROVE TypeOK
  OBVIOUS
<1>1. \A r \in Req : Len(plan[r].legs) >= 1 /\ Len(plan[r].legs) \in Nat
  BY PlansAssumption DEF Init, WellFormed
<1>2. \A r \in Req : at[r] \in 1 .. LastLeg(r) /\ returned[r] \in 0 .. LastLeg(r)
  BY <1>1 DEF Init, LastLeg
<1>3. Opening \in [Keys -> Int]
  BY OpeningAssumption
<1>4. QED BY <1>2, <1>3 DEF Init, TypeOK, PcStates

(* The parts of the type that a handler's step leaves or moves. *)
ControlType ==
  /\ pc \in [Req -> PcStates]
  /\ at \in [Req -> Nat]
  /\ returned \in [Req -> Nat]
  /\ \A r \in Req : at[r] \in 1 .. LastLeg(r) /\ returned[r] \in 0 .. LastLeg(r)
  /\ negOK \in [Req -> BOOLEAN]
  /\ dead \subseteq Req

StockType ==
  /\ onHand \in [Keys -> Int]
  /\ applied \subseteq Rows
  /\ posted \subseteq Rows

CatalogType ==
  /\ live \subseteq Products \cup Warehouses
  /\ deleting \in [Deletions -> {"idle", "checked", "done"}]
  /\ allowNegative \in BOOLEAN
  /\ toggles \in Nat

(* No step of a handler leaves the types. *)
LEMMA HandlerType ==
  ASSUME TypeOK, NEW r \in Req, Handler(r)
  PROVE  TypeOK'
<1> USE DEF Ready, Goto
<1>1. plan' = plan /\ UNCHANGED catalogVars
  BY DEF Handler, Check, ReadSetting, Claim, Refuse, Insert, InsertRaises, Release,
         GiveBackStock, Audit, AuditRaises, CallerCompletes, CallerRaises,
         UndoRow, UndoStock, GiveBack, DropRow
<1>2. /\ Rows' = Rows
      /\ \A q \in Req : LastLeg(q)' = LastLeg(q)
  BY <1>1, RowsFixed
<1>3. /\ at[r] \in 1 .. LastLeg(r) /\ LastLeg(r) \in Nat
      /\ Current(r) \in Rows /\ KeyOf(Current(r)) \in Keys
      /\ Delta[Current(r)] \in Int
  BY PlanFacts DEF Current, TypeOK
<1>4. plan' \in [Req -> Plans] /\ CatalogType'
  BY <1>1 DEF TypeOK, CatalogType, catalogVars
<1>5. StockType'
  <2>1. /\ onHand' \in [Keys -> Int]
        /\ applied' \subseteq Rows
        /\ posted' \subseteq Rows
    BY <1>3 DEF TypeOK, stockVars, Handler, Check, ReadSetting, Claim, Refuse, Insert,
       InsertRaises, Release, GiveBackStock, Audit, AuditRaises, CallerCompletes,
       CallerRaises, UndoRow, UndoStock, GiveBack, DropRow
  <2>2. QED BY <2>1, <1>2 DEF StockType
<1>6. /\ returned' \in [Req -> Nat]
      /\ \A q \in Req : returned'[q] \in 0 .. LastLeg(q)
      /\ negOK' \in [Req -> BOOLEAN]
      /\ dead' = dead
  BY <1>3 DEF TypeOK, Handler, Check, ReadSetting, Claim, Refuse, Insert,
         InsertRaises, Release, GiveBackStock, Audit, AuditRaises, CallerCompletes,
         CallerRaises, UndoRow, UndoStock, GiveBack, DropRow
<1>7. /\ pc' \in [Req -> PcStates]
      /\ at' \in [Req -> Nat]
      /\ \A q \in Req : at'[q] \in 1 .. LastLeg(q)
  <2>1. CASE Abort(r)
    BY <2>1, AbortType
  <2>2. CASE UNCHANGED at /\ \E s \in PcStates : Goto(r, s)
    BY <2>2 DEF TypeOK
  <2>3. CASE at' = [at EXCEPT ![r] = @ + 1] /\ at[r] < LastLeg(r)
             /\ \E s \in PcStates : Goto(r, s)
    BY <2>3, <1>3 DEF TypeOK
  <2>4. CASE Insert(r)
    <3>1. CASE plan[r].kind = "transfer" /\ at[r] = 1
      <4>1. LastLeg(r) = 2
        BY <3>1, PlanFacts DEF WellFormed, LastLeg
      <4>2. at' = [at EXCEPT ![r] = 2] /\ pc' = [pc EXCEPT ![r] = "claim"]
        BY <2>4, <3>1 DEF Insert
      <4>3. QED BY <4>1, <4>2 DEF TypeOK, PcStates
    <3>2. CASE ~ (plan[r].kind = "transfer" /\ at[r] = 1)
      BY <2>4, <3>2, <2>2 DEF Insert, PcStates
    <3>3. QED BY <3>1, <3>2
  <2>5. CASE DropRow(r)
    <3>1. CASE at[r] = returned[r] /\ Goto(r, "ended") /\ UNCHANGED at
      BY <3>1, <2>2 DEF PcStates
    <3>2. CASE at[r] < returned[r] /\ at' = [at EXCEPT ![r] = @ + 1] /\ Goto(r, "giveBack")
      <4>1. at[r] < LastLeg(r)
        BY <1>3, <3>2 DEF TypeOK
      <4>2. QED BY <3>2, <4>1, <2>3 DEF PcStates
    <3>3. QED BY <2>5, <3>1, <3>2 DEF DropRow
  <2>6. CASE Audit(r)
    BY <2>6, <2>2, <2>3 DEF Audit, PcStates
  <2>7. CASE Check(r) \/ Refuse(r) \/ Release(r) \/ AuditRaises(r) \/ CallerRaises(r)
    BY <2>7, <2>1, <2>2 DEF Check, Refuse, Release, AuditRaises, CallerRaises, PcStates
  <2>8. CASE ReadSetting(r) \/ Claim(r) \/ InsertRaises(r) \/ CallerCompletes(r)
             \/ UndoRow(r) \/ UndoStock(r) \/ GiveBack(r)
    BY <2>8, <2>2 DEF ReadSetting, Claim, InsertRaises, CallerCompletes, UndoRow,
       UndoStock, GiveBack, PcStates
  <2>9. QED BY <2>4, <2>5, <2>6, <2>7, <2>8 DEF Handler
<1>8. ControlType'
  <2>1. \A q \in Req : at'[q] \in 1 .. LastLeg(q)' /\ returned'[q] \in 0 .. LastLeg(q)'
    BY <1>2, <1>6, <1>7
  <2>2. QED BY <1>6, <1>7, <2>1 DEF ControlType, TypeOK
<1>9. QED BY <1>4, <1>5, <1>8 DEF TypeOK, ControlType, StockType, CatalogType

(* Deletions and the setting touch neither stock nor handlers, and keep the *)
(* catalog's types.                                                         *)
LEMMA CatalogStepType ==
  ASSUME TypeOK,
         \/ \E t \in Deletions : DeleteCheck(t) \/ SoftDelete(t)
         \/ SetAllowNegative
  PROVE  TypeOK'
<1>1. UNCHANGED <<handlerVars, stockVars>>
  BY DEF DeleteCheck, SoftDelete, SetAllowNegative
<1>2. /\ Rows' = Rows
      /\ \A q \in Req : LastLeg(q)' = LastLeg(q)
  BY <1>1, RowsFixed DEF handlerVars
<1>3. ControlType' /\ StockType' /\ plan' \in [Req -> Plans]
  <2>1. UNCHANGED <<plan, pc, at, returned, negOK, dead, onHand, applied, posted>>
    BY <1>1 DEF handlerVars, stockVars
  <2>2. ControlType'
    BY <1>2, <2>1 DEF TypeOK, ControlType
  <2>3. StockType' /\ plan' \in [Req -> Plans]
    BY <1>2, <2>1 DEF TypeOK, StockType
  <2>4. QED BY <2>2, <2>3
<1>4. CatalogType'
  <2>1. /\ live' \subseteq Products \cup Warehouses
        /\ deleting' \in [Deletions -> {"idle", "checked", "done"}]
        /\ toggles' \in Nat
    BY DEF TypeOK, DeleteCheck, SoftDelete, SetAllowNegative
  <2>2. allowNegative' \in BOOLEAN
    <3>1. allowNegative' = allowNegative \/ allowNegative' = ~ allowNegative
      BY DEF DeleteCheck, SoftDelete, SetAllowNegative
    <3>2. QED BY <3>1 DEF TypeOK
  <2>3. QED BY <2>1, <2>2 DEF CatalogType
<1>5. QED BY <1>3, <1>4 DEF TypeOK, ControlType, StockType, CatalogType

(* A crash, or nothing, leaves everything but the set of dead handlers.     *)
LEMMA StillType ==
  ASSUME TypeOK, (\E r \in Req : Crash(r)) \/ UNCHANGED vars
  PROVE  TypeOK'
<1>1. /\ UNCHANGED <<plan, pc, at, returned, negOK, stockVars, catalogVars>>
      /\ dead' \subseteq Req
  BY DEF Crash, vars, handlerVars, TypeOK
<1>2. /\ Rows' = Rows
      /\ \A q \in Req : LastLeg(q)' = LastLeg(q)
  BY <1>1, RowsFixed
<1>3. QED BY <1>1, <1>2 DEF TypeOK, stockVars, catalogVars

(* Type correctness: every request is on a leg of its document, the rows    *)
(* and claims are those of some document, whatever fails or crashes.        *)
THEOREM TypeCorrect == Spec => []TypeOK
<1>1. Init => TypeOK
  BY InitType
<1>2. TypeOK /\ [Next]_vars => TypeOK'
  <2> SUFFICES ASSUME TypeOK, [Next]_vars PROVE TypeOK'
    OBVIOUS
  <2>1. CASE \E r \in Req : Handler(r)
    BY <2>1, HandlerType
  <2>2. CASE (\E t \in Deletions : DeleteCheck(t) \/ SoftDelete(t)) \/ SetAllowNegative
    BY <2>2, CatalogStepType
  <2>3. CASE (\E r \in Req : Crash(r)) \/ UNCHANGED vars
    BY <2>3, StillType
  <2>4. QED BY <2>1, <2>2, <2>3 DEF Next, Finished
<1>3. QED BY <1>1, <1>2, PTL DEF Spec
-----------------------------------------------------------------------------
(* While the setting was never on, no handler holds permission to go below  *)
(* zero.                                                                    *)
NeverAllowed == toggles = 0 /\ ~ allowNegative
NoPermission == NeverAllowed => \A r \in Req : ~ negOK[r]

(* Legs that only ever put stock back when they are undone: with no insert  *)
(* that raises, no receipt is ever taken back.                              *)
UndoesIssues ==
  \A r \in Req :
    /\ pc[r] # "release"
    /\ pc[r] \in {"undoRow", "undoStock"} => plan[r].kind = "transfer" /\ at[r] = 1
    /\ pc[r] \in {"giveBack", "dropRow"} => plan[r].kind = "batch"

OversellInv == NoOversell /\ NoPermission /\ UndoesIssues

(* What those legs do to the cache. *)
LEMMA UndoneLegIsAnIssue ==
  ASSUME TypeOK, UndoesIssues, NEW r \in Req,
         pc[r] \in {"release", "undoStock", "giveBack"}
  PROVE  Delta[Current(r)] < 0
<1>1. at[r] \in 1 .. LastLeg(r) /\ WellFormed(plan[r])
      /\ Delta[Current(r)] = plan[r].legs[at[r]].delta
  BY PlanFacts DEF TypeOK, Current
<1>2. CASE pc[r] = "undoStock"
  BY <1>1, <1>2 DEF UndoesIssues, WellFormed
<1>3. CASE pc[r] = "giveBack"
  BY <1>1, <1>3 DEF UndoesIssues, WellFormed, LastLeg
<1>4. QED BY <1>2, <1>3 DEF UndoesIssues

(* One handler's step, when no insert raises. *)
LEMMA HandlerOversell ==
  ASSUME TypeOK, OversellInv, "insert" \notin Faults, "reply" \notin Faults,
         NEW r \in Req, Handler(r)
  PROVE  OversellInv'
<1> USE DEF Ready, Goto
<1>1. /\ UNCHANGED <<plan, allowNegative, toggles>>
      /\ pc \in [Req -> PcStates] /\ at \in [Req -> Nat] /\ negOK \in [Req -> BOOLEAN]
      /\ onHand \in [Keys -> Int]
  BY DEF TypeOK, catalogVars, Handler, Check, ReadSetting, Claim, Refuse, Insert, InsertRaises, Release,
         GiveBackStock, Audit, AuditRaises, CallerCompletes, CallerRaises,
         UndoRow, UndoStock, GiveBack, DropRow
<1>2. KeyOf(Current(r)) \in Keys /\ Delta[Current(r)] \in Int
  BY PlanFacts DEF Current, TypeOK
<1>3. NoOversell'
  <2> SUFFICES ASSUME NeverAllowed, NEW k \in Keys PROVE onHand'[k] >= 0
    BY <1>1 DEF NoOversell, NeverAllowed
  <2>1. onHand[k] >= 0 /\ ~ negOK[r]
    BY DEF OversellInv, NoOversell, NoPermission, NeverAllowed
  <2>2. CASE Claim(r)
    BY <1>1, <1>2, <2>1, <2>2 DEF Claim
  <2>3. CASE UndoStock(r) \/ GiveBack(r) \/ Release(r)
    <3>1. Delta[Current(r)] < 0
      BY <2>3, UndoneLegIsAnIssue DEF OversellInv, UndoStock, GiveBack, Release
    <3>2. onHand' = [onHand EXCEPT ![KeyOf(Current(r))] = @ - Delta[Current(r)]]
      BY <2>3 DEF UndoStock, GiveBack, Release, GiveBackStock
    <3>3. QED BY <1>1, <1>2, <2>1, <3>1, <3>2
  <2>4. CASE onHand' = onHand
    BY <2>1, <2>4
  <2>5. QED BY <2>2, <2>3, <2>4 DEF stockVars, Handler, Check, ReadSetting, Refuse, Insert,
       InsertRaises, Audit, AuditRaises, CallerCompletes, CallerRaises, UndoRow, DropRow
<1>4. NoPermission'
  BY <1>1 DEF OversellInv, NoPermission, NeverAllowed, Handler, Check, ReadSetting, Claim,
     Refuse, Insert, InsertRaises, Release, Audit, AuditRaises, CallerCompletes,
     CallerRaises, UndoRow, UndoStock, GiveBack, DropRow
<1>5. UndoesIssues'
  <2>1. \A q \in Req \ {r} : pc'[q] = pc[q] /\ at'[q] = at[q]
    BY <1>1 DEF Abort, Handler, Check, ReadSetting, Claim,
       Refuse, Insert, InsertRaises, Release, Audit, AuditRaises, CallerCompletes,
       CallerRaises, UndoRow, UndoStock, GiveBack, DropRow
  <2>2. /\ pc'[r] # "release"
        /\ pc'[r] \in {"undoRow", "undoStock"} => plan[r].kind = "transfer" /\ at'[r] = 1
        /\ pc'[r] \in {"giveBack", "dropRow"} => plan[r].kind = "batch"
    <3>1. CASE Abort(r)
      BY <1>1, <3>1 DEF Abort
    <3>2. CASE UndoRow(r) \/ GiveBack(r) \/ DropRow(r)
      BY <1>1, <3>2 DEF OversellInv, UndoesIssues, UndoRow, GiveBack, DropRow
    <3>3. CASE pc'[r] \in {"setting", "claim", "insert", "audit", "check", "caller", "ended"}
      BY <3>3
    <3>4. QED BY <1>1, <3>1, <3>2, <3>3 DEF Handler, Check, ReadSetting, Claim,
       Refuse, Insert, InsertRaises, Release, Audit, AuditRaises, CallerCompletes,
       CallerRaises, UndoStock
  <2>3. QED BY <1>1, <2>1, <2>2 DEF OversellInv, UndoesIssues
<1>6. QED BY <1>3, <1>4, <1>5 DEF OversellInv

(* No level goes below zero while the negative-stock setting was never on,  *)
(* for any number of requests of any kind, with audit failures, callers     *)
(* that fail and crashes - as long as no insert raises.                     *)
THEOREM StockNeverNegative ==
  ASSUME "insert" \notin Faults, "reply" \notin Faults
  PROVE  Spec => []NoOversell
<1>1. Init => OversellInv
  BY OpeningAssumption DEF Init, OversellInv, NoOversell, NoPermission, UndoesIssues
<1>2. TypeOK /\ OversellInv /\ [Next]_vars => OversellInv'
  <2> SUFFICES ASSUME TypeOK, OversellInv, [Next]_vars PROVE OversellInv'
    OBVIOUS
  <2>1. CASE \E r \in Req : Handler(r)
    BY <2>1, HandlerOversell
  <2>2. CASE (\E r \in Req : Crash(r)) \/ UNCHANGED vars
        \/ \E t \in Deletions : DeleteCheck(t) \/ SoftDelete(t)
    <3>1. UNCHANGED <<plan, pc, at, negOK, onHand, allowNegative, toggles>>
      BY <2>2 DEF Crash, DeleteCheck, SoftDelete, vars, handlerVars, stockVars, catalogVars
    <3>2. QED BY <3>1 DEF OversellInv, NoOversell, NoPermission, NeverAllowed, UndoesIssues
  <2>3. CASE SetAllowNegative
    <3>1. toggles' # 0 /\ UNCHANGED <<plan, pc, at>>
      BY <2>3 DEF SetAllowNegative, TypeOK, handlerVars
    <3>2. QED BY <3>1 DEF OversellInv, NoOversell, NoPermission, NeverAllowed, UndoesIssues
  <2>4. QED BY <2>1, <2>2, <2>3 DEF Next, Finished
<1>3. OversellInv => NoOversell
  BY DEF OversellInv
<1>4. QED BY <1>1, <1>2, <1>3, TypeCorrect, PTL DEF Spec
-----------------------------------------------------------------------------
(* Sums of integers may be regrouped. *)
LEMMA Regroup ==
  \A i, j, n \in Int : (i + j) + n = i + (j + n) /\ (i + j) - n = i + (j - n)
OBVIOUS

(* A claim adds its leg to the cache and to the history of claims.          *)
LEMMA ClaimAccounted ==
  ASSUME TypeOK, Accounted, UNCHANGED plan, NEW l \in Rows \ applied, KeyOf(l) \in Keys,
         onHand' = [onHand EXCEPT ![KeyOf(l)] = @ + Delta[l]],
         applied' = applied \cup {l}
  PROVE  Accounted'
<1>1. Delta \in [Rows -> Int] /\ applied \in SUBSET Rows /\ onHand \in [Keys -> Int]
  BY DeltaType DEF TypeOK
<1>2. IsFiniteSet(applied \cup {l})
  BY FS_AddElement DEF Accounted
<1>3. ASSUME NEW k \in Keys
      PROVE  onHand'[k] = Opening[k] + Net(OnKey(applied \cup {l}, k), Delta)
  <2>1. /\ OnKey(applied, k) \in SUBSET Rows
        /\ IsFiniteSet(OnKey(applied, k))
        /\ l \in Rows \ OnKey(applied, k)
    BY <1>1, FS_Subset DEF Accounted, OnKey
  <2>2. onHand[k] = Opening[k] + Net(OnKey(applied, k), Delta)
    BY DEF Accounted
  <2>3. /\ Net(OnKey(applied, k), Delta) \in Int
        /\ Opening[k] \in Int /\ Delta[l] \in Int
    <3>1. Net(OnKey(applied, k), Delta) \in Int
      BY <1>1, <2>1, NetInt
    <3>2. Opening[k] \in Int /\ Delta[l] \in Int
      BY <1>1, OpeningAssumption
    <3>3. QED BY <3>1, <3>2
  <2>4. CASE KeyOf(l) = k
    <3>1. OnKey(applied \cup {l}, k) = OnKey(applied, k) \cup {l}
      BY <2>4 DEF OnKey
    <3>2. Net(OnKey(applied, k) \cup {l}, Delta) = Net(OnKey(applied, k), Delta) + Delta[l]
      BY <1>1, <2>1, NetAdd
    <3>3. onHand'[k] = onHand[k] + Delta[l]
      BY <1>1, <2>4
    <3>4. (Opening[k] + Net(OnKey(applied, k), Delta)) + Delta[l]
            = Opening[k] + (Net(OnKey(applied, k), Delta) + Delta[l])
      BY <2>3, Regroup
    <3>5. QED BY <2>2, <3>1, <3>2, <3>3, <3>4, Zenon
  <2>5. CASE KeyOf(l) # k
    <3>1. OnKey(applied \cup {l}, k) = OnKey(applied, k)
      BY <2>5 DEF OnKey
    <3>2. onHand'[k] = onHand[k]
      BY <1>1, <2>5
    <3>3. QED BY <2>2, <3>1, <3>2
  <2>6. QED BY <2>4, <2>5
<1>4. QED BY <1>2, <1>3, RowsFixed DEF Accounted

(* Releasing a claim takes it out of both again. *)
LEMMA GiveBackAccounted ==
  ASSUME TypeOK, Accounted, UNCHANGED plan, NEW l \in applied, KeyOf(l) \in Keys,
         GiveBackStock(l)
  PROVE  Accounted'
<1>1. /\ Delta \in [Rows -> Int] /\ applied \in SUBSET Rows /\ l \in Rows
      /\ onHand \in [Keys -> Int]
      /\ onHand' = [onHand EXCEPT ![KeyOf(l)] = @ - Delta[l]]
      /\ applied' = applied \ {l}
  BY DeltaType DEF TypeOK, GiveBackStock
<1>2. IsFiniteSet(applied \ {l})
  BY FS_RemoveElement DEF Accounted
<1>3. ASSUME NEW k \in Keys
      PROVE  onHand'[k] = Opening[k] + Net(OnKey(applied \ {l}, k), Delta)
  <2>1. /\ OnKey(applied, k) \in SUBSET Rows
        /\ IsFiniteSet(OnKey(applied, k))
    BY <1>1, FS_Subset DEF Accounted, OnKey
  <2>2. onHand[k] = Opening[k] + Net(OnKey(applied, k), Delta)
    BY DEF Accounted
  <2>3. /\ Net(OnKey(applied, k), Delta) \in Int
        /\ Opening[k] \in Int /\ Delta[l] \in Int
    <3>1. Net(OnKey(applied, k), Delta) \in Int
      BY <1>1, <2>1, NetInt
    <3>2. Opening[k] \in Int
      BY OpeningAssumption
    <3>3. Delta[l] \in Int
      BY <1>1
    <3>4. QED BY <3>1, <3>2, <3>3
  <2>4. CASE KeyOf(l) = k
    <3>1. OnKey(applied \ {l}, k) = OnKey(applied, k) \ {l} /\ l \in OnKey(applied, k)
      BY <2>4 DEF OnKey
    <3>2. Net(OnKey(applied, k) \ {l}, Delta) = Net(OnKey(applied, k), Delta) - Delta[l]
      BY <1>1, <2>1, <3>1, NetRemove
    <3>3. onHand'[k] = onHand[k] - Delta[l]
      BY <1>1, <2>4
    <3>4. (Opening[k] + Net(OnKey(applied, k), Delta)) - Delta[l]
            = Opening[k] + (Net(OnKey(applied, k), Delta) - Delta[l])
      BY <2>3, Regroup
    <3>5. QED BY <2>2, <3>1, <3>2, <3>3, <3>4, Zenon
  <2>5. CASE KeyOf(l) # k
    <3>1. OnKey(applied \ {l}, k) = OnKey(applied, k)
      BY <2>5 DEF OnKey
    <3>2. onHand'[k] = onHand[k]
      BY <1>1, <2>5
    <3>3. QED BY <2>2, <3>1, <3>2
  <2>6. QED BY <2>4, <2>5
<1>4. QED BY <1>1, <1>2, <1>3, RowsFixed DEF Accounted

Own(r) == Matched(r) /\ Progress(r) /\ Handed(r)

(* A handler's step leaves the legs of the other requests as they are. *)
LEMMA OthersKeep ==
  ASSUME UNCHANGED plan, NEW q \in Req, Own(q),
         pc'[q] = pc[q], at'[q] = at[q], returned'[q] = returned[q],
         \A i : <<q, i>> \in applied' <=> <<q, i>> \in applied,
         \A i : <<q, i>> \in posted' <=> <<q, i>> \in posted
  PROVE  Own(q)'
BY DEF Own, Matched, Progress, Handed, HalfWritten, Current, LastLeg

(* Wherever an exception takes a handler, its legs are accounted for, if    *)
(* they match and those before the current one, and those handed to a batch, *)
(* are claimed.                                                             *)
LEMMA AbortOwn ==
  ASSUME TypeOK, UNCHANGED <<plan, returned>>, NEW r \in Req, Abort(r),
         \A i \in 1 .. LastLeg(r) : <<r, i>> \in applied' <=> <<r, i>> \in posted',
         \A i \in 1 .. LastLeg(r) : i < at[r] => <<r, i>> \in applied',
         plan[r].kind = "batch" =>
           \A i \in 1 .. LastLeg(r) : i <= returned[r] => <<r, i>> \in applied'
  PROVE  Own(r)'
<1>0. LastLeg(r) \in Nat /\ LastLeg(r) >= 1 /\ LastLeg(r)' = LastLeg(r)
      /\ returned[r] \in 0 .. LastLeg(r) /\ at[r] \in 1 .. LastLeg(r)
      /\ pc \in [Req -> PcStates] /\ at \in [Req -> Nat]
  BY PlanFacts, RowsFixed DEF TypeOK
<1>1. CASE pc'[r] = "giveBack" /\ at'[r] = 1 /\ returned[r] > 0 /\ plan[r].kind = "batch"
  BY <1>0, <1>1 DEF Own, Matched, Progress, Handed, HalfWritten, Current
<1>2. CASE pc'[r] = "undoRow" /\ at'[r] = 1 /\ at[r] = 2 /\ plan[r].kind = "transfer"
  BY <1>0, <1>2 DEF Own, Matched, Progress, Handed, HalfWritten, Current
<1>3. CASE pc'[r] = "ended"
  BY <1>0, <1>3 DEF Own, Matched, Progress, Handed, HalfWritten, Current
<1>4. QED BY <1>0, <1>1, <1>2, <1>3 DEF Abort, Goto

(* One handler's step keeps its own legs accounted for, if no reply of an   *)
(* insert is lost.                                                          *)
LEMMA HandlerOwn ==
  ASSUME TypeOK, NEW r \in Req, Own(r), Handler(r), "reply" \notin Faults
  PROVE  Own(r)'
<1> USE DEF Ready, Goto
<1> DEFINE Legs1 == 1 .. LastLeg(r)
<1>0. /\ LastLeg(r) \in Nat /\ at[r] \in Legs1 /\ returned[r] \in 0 .. LastLeg(r)
      /\ pc \in [Req -> PcStates] /\ at \in [Req -> Nat] /\ returned \in [Req -> Nat]
  BY PlanFacts DEF TypeOK
<1>1. UNCHANGED plan /\ LastLeg(r)' = LastLeg(r)
  BY RowsFixed DEF Handler, Check, ReadSetting, Claim, Refuse, Insert, InsertRaises, Release,
         GiveBackStock, Audit, AuditRaises, CallerCompletes, CallerRaises,
         UndoRow, UndoStock, GiveBack, DropRow
<1>2. CASE Check(r)
  <2>1. CASE Abort(r)
    BY <1>0, <1>1, <1>2, <2>1, AbortOwn
       DEF Check, stockVars, Own, Matched, Progress, Handed, HalfWritten
  <2>2. CASE pc' = [pc EXCEPT ![r] = "setting"] /\ UNCHANGED at
    BY <1>0, <1>1, <1>2, <2>2
       DEF Check, stockVars, Own, Matched, Progress, Handed, HalfWritten, Current
  <2>3. QED BY <1>2, <2>1, <2>2 DEF Check
<1>3. CASE ReadSetting(r)
  BY <1>0, <1>1, <1>3
     DEF ReadSetting, stockVars, Own, Matched, Progress, Handed, HalfWritten, Current
<1>4. CASE Claim(r)
  BY <1>0, <1>1, <1>4
     DEF Claim, Own, Matched, Progress, Handed, HalfWritten, Current
<1>5. CASE Refuse(r)
  BY <1>0, <1>1, <1>5, AbortOwn
     DEF Refuse, stockVars, Own, Matched, Progress, Handed, HalfWritten
<1>6. CASE Insert(r)
  <2>1. \A i \in Legs1 : <<r, i>> \in applied' <=> <<r, i>> \in posted'
    BY <1>0, <1>6 DEF Insert, Own, Matched, Progress, HalfWritten, Current
  <2>2. \A i \in Legs1 : <<r, i>> \in applied' <=> i <= at[r]
    BY <1>0, <1>6 DEF Insert, Own, Progress
  <2>3. CASE pc' = [pc EXCEPT ![r] = "audit"] /\ UNCHANGED at
    BY <1>0, <1>1, <1>6, <2>1, <2>2, <2>3
       DEF Insert, Own, Matched, Progress, Handed, HalfWritten, Current
  <2>4. CASE pc' = [pc EXCEPT ![r] = "claim"] /\ at' = [at EXCEPT ![r] = 2]
             /\ at[r] = 1 /\ plan[r].kind = "transfer"
    BY <1>0, <1>1, <1>6, <2>1, <2>2, <2>4
       DEF Insert, Own, Matched, Progress, Handed, HalfWritten, Current
  <2>5. QED BY <1>6, <2>3, <2>4 DEF Insert
<1>7. CASE InsertRaises(r)
  BY <1>0, <1>1, <1>7
     DEF InsertRaises, Own, Matched, Progress, Handed, HalfWritten, Current
<1>8. CASE Release(r)
  <2>1. \A i \in Legs1 : <<r, i>> \in applied' <=> <<r, i>> \in posted'
    BY <1>0, <1>8 DEF Release, GiveBackStock, Own, Matched, Progress, HalfWritten, Current
  <2>2. \A i \in Legs1 : i < at[r] => <<r, i>> \in applied'
    BY <1>0, <1>8 DEF Release, GiveBackStock, Own, Progress, Current
  <2>3. plan[r].kind = "batch" => returned[r] < at[r]
    BY <1>0, <1>8 DEF Release, Own, Handed
  <2>4. plan[r].kind = "batch" =>
          \A i \in Legs1 : i <= returned[r] => <<r, i>> \in applied'
    BY <1>0, <2>2, <2>3
  <2>5. UNCHANGED <<plan, returned>> /\ Abort(r)
    BY <1>8 DEF Release
  <2>6. QED BY <2>1, <2>2, <2>4, <2>5, AbortOwn
<1>9. CASE Audit(r)
  BY <1>0, <1>1, <1>9
     DEF Audit, stockVars, Own, Matched, Progress, Handed, HalfWritten, Current
<1>10. CASE AuditRaises(r)
  <2>1. CASE Abort(r)
    BY <1>0, <1>1, <1>10, <2>1, AbortOwn
       DEF AuditRaises, stockVars, Own, Matched, Progress, Handed, HalfWritten
  <2>2. CASE pc' = [pc EXCEPT ![r] = "ended"] /\ UNCHANGED at
    BY <1>0, <1>1, <1>10, <2>2
       DEF AuditRaises, stockVars, Own, Matched, Progress, Handed, HalfWritten, Current
  <2>3. QED BY <1>10, <2>1, <2>2 DEF AuditRaises
<1>11. CASE CallerCompletes(r)
  BY <1>0, <1>1, <1>11
     DEF CallerCompletes, stockVars, Own, Matched, Progress, Handed, HalfWritten, Current
<1>12. CASE CallerRaises(r)
  BY <1>0, <1>1, <1>12, AbortOwn
     DEF CallerRaises, stockVars, Own, Matched, Progress, Handed, HalfWritten
<1>13. CASE UndoRow(r)
  BY <1>0, <1>1, <1>13
     DEF UndoRow, Own, Matched, Progress, Handed, HalfWritten, Current
<1>14. CASE UndoStock(r)
  BY <1>0, <1>1, <1>14
     DEF UndoStock, GiveBackStock, Own, Matched, Progress, Handed, HalfWritten, Current
<1>15. CASE GiveBack(r)
  BY <1>0, <1>1, <1>15
     DEF GiveBack, GiveBackStock, Own, Matched, Progress, Handed, HalfWritten, Current
<1>16. CASE DropRow(r)
  <2>1. \A i \in Legs1 : <<r, i>> \in applied' <=> <<r, i>> \in posted'
    BY <1>0, <1>16 DEF DropRow, Own, Matched, Progress, HalfWritten, Current
  <2>2. CASE pc' = [pc EXCEPT ![r] = "ended"]
    BY <1>0, <1>1, <1>16, <2>1, <2>2 DEF Own, Matched, Progress, Handed, HalfWritten
  <2>3. CASE pc' = [pc EXCEPT ![r] = "giveBack"] /\ at' = [at EXCEPT ![r] = @ + 1]
             /\ at[r] < returned[r]
    BY <1>0, <1>1, <1>16, <2>1, <2>3
       DEF DropRow, Own, Matched, Progress, Handed, HalfWritten, Current
  <2>4. QED BY <1>16, <2>2, <2>3 DEF DropRow
<1>17. QED
  BY <1>2, <1>3, <1>4, <1>5, <1>6, <1>7, <1>8, <1>9, <1>10, <1>11, <1>12, <1>13, <1>14,
     <1>15, <1>16 DEF Handler

(* No handler touches the legs of another. *)
LEMMA HandlerOthers ==
  ASSUME TypeOK, NEW r \in Req, Handler(r), NEW q \in Req, q # r, Own(q)
  PROVE  Own(q)'
<1>1. UNCHANGED plan /\ pc'[q] = pc[q] /\ at'[q] = at[q] /\ returned'[q] = returned[q]
  BY DEF TypeOK, Ready, Goto, Abort, Handler, Check, ReadSetting, Claim, Refuse, Insert,
         InsertRaises, Release, GiveBackStock, Audit, AuditRaises, CallerCompletes,
         CallerRaises, UndoRow, UndoStock, GiveBack, DropRow
<1>2. /\ applied' \in {applied, applied \cup {Current(r)}, applied \ {Current(r)}}
      /\ posted' \in {posted, posted \cup {Current(r)}, posted \ {Current(r)}}
  BY DEF stockVars, Handler, Check, ReadSetting, Claim, Refuse, Insert,
         InsertRaises, Release, GiveBackStock, Audit, AuditRaises, CallerCompletes,
         CallerRaises, UndoRow, UndoStock, GiveBack, DropRow
<1>3. \A i : <<q, i>> # Current(r)
  BY DEF Current
<1>4. /\ \A i : <<q, i>> \in applied' <=> <<q, i>> \in applied
      /\ \A i : <<q, i>> \in posted' <=> <<q, i>> \in posted
  BY <1>2, <1>3
<1>5. QED BY <1>1, <1>4, OthersKeep

(* A handler's step moves the cache by the leg it claims or releases. *)
LEMMA HandlerAccounted ==
  ASSUME TypeOK, Accounted, NEW r \in Req, Own(r), Handler(r)
  PROVE  Accounted'
<1>1. /\ at[r] \in 1 .. LastLeg(r)
      /\ Current(r) \in Rows /\ KeyOf(Current(r)) \in Keys
  BY PlanFacts DEF TypeOK, Current
<1>2. CASE Claim(r)
  <2>1. Current(r) \notin applied
    BY <1>1, <1>2 DEF Claim, Ready, Own, Progress, Current, TypeOK
  <2>2. QED BY <1>1, <1>2, <2>1, ClaimAccounted DEF Claim
<1>3. CASE Release(r) \/ UndoStock(r) \/ GiveBack(r)
  <2>1. Current(r) \in applied
    <3>1. pc[r] = "release" => at[r] <= at[r]
      BY DEF TypeOK
    <3>2. QED BY <1>1, <1>3, <3>1 DEF Release, UndoStock, GiveBack, Ready, Own, Progress, Current, TypeOK
  <2>2. UNCHANGED plan /\ GiveBackStock(Current(r))
    BY <1>3 DEF Release, UndoStock, GiveBack
  <2>3. QED BY <1>1, <2>1, <2>2, GiveBackAccounted
<1>4. CASE UNCHANGED <<plan, onHand, applied>>
  BY <1>4, RowsFixed DEF Accounted
<1>5. QED BY <1>2, <1>3, <1>4 DEF stockVars, Handler, Check, ReadSetting, Refuse, Insert,
         InsertRaises, Audit, AuditRaises, CallerCompletes, CallerRaises, UndoRow, DropRow

(* The inductive invariant: the cache is the sum of the claims in it, and   *)
(* claims and rows match but for the leg a handler is working on.           *)
THEOREM BooksInvariant ==
  ASSUME "reply" \notin Faults
  PROVE  Spec => []IInv
<1>1. Init => IInv
  <2> SUFFICES ASSUME Init PROVE IInv
    OBVIOUS
  <2>1. Accounted
    <3>1. \A k \in Keys : OnKey(applied, k) = {} /\ onHand[k] = Opening[k] /\ Opening[k] \in Int
      BY OpeningAssumption DEF Init, OnKey
    <3>2. Net({}, Delta) = 0
      BY NetEmpty
    <3>3. \A k \in Keys : onHand[k] = Opening[k] + Net(OnKey(applied, k), Delta)
      BY <3>1, <3>2
    <3>4. QED BY <3>3, FS_EmptySet DEF Init, Accounted
  <2>2. ASSUME NEW r \in Req PROVE Own(r)
    BY PlanFacts, InitType DEF Init, Own, Matched, Progress, Handed, Current, HalfWritten
  <2>3. QED BY <2>1, <2>2 DEF IInv, Own
<1>2. TypeOK /\ IInv /\ [Next]_vars => IInv'
  <2> SUFFICES ASSUME TypeOK, IInv, [Next]_vars PROVE IInv'
    OBVIOUS
  <2>1. Accounted /\ \A r \in Req : Own(r)
    BY DEF IInv, Own
  <2>2. CASE \E r \in Req : Handler(r)
    <3>1. PICK r \in Req : Handler(r)
      BY <2>2
    <3>2. \A q \in Req : Own(q)'
      BY <2>1, <3>1, HandlerOwn, HandlerOthers
    <3>3. QED BY <2>1, <3>1, <3>2, HandlerAccounted DEF IInv, Own
  <2>3. CASE UNCHANGED <<plan, pc, at, returned, stockVars>>
    <3>1. Accounted'
      BY <2>1, <2>3, RowsFixed DEF Accounted, stockVars
    <3>2. \A q \in Req : Own(q)'
      BY <2>1, <2>3, OthersKeep DEF stockVars
    <3>3. QED BY <3>1, <3>2 DEF IInv, Own
  <2>4. QED
    BY <2>2, <2>3 DEF Next, Finished, Crash, DeleteCheck, SoftDelete, SetAllowNegative,
       vars, handlerVars, stockVars
<1>3. QED BY <1>1, <1>2, TypeCorrect, PTL DEF Spec

(* The cache agrees with the ledger on every key no handler is, or died,    *)
(* half way through: for any documents, interleaving, failed insert, audit  *)
(* entry or caller, and any crash.                                          *)
THEOREM CacheIsLedger ==
  ASSUME "reply" \notin Faults
  PROVE  Spec => []CacheMatchesLedger
<1>1. TypeOK /\ IInv => CacheMatchesLedger
  <2> SUFFICES ASSUME TypeOK, IInv, NEW k \in Keys,
                      \A r \in Req : HalfWritten(r) => KeyOf(Current(r)) # k
               PROVE  onHand[k] = LedgerSum(k)
    BY DEF CacheMatchesLedger
  <2>1. ASSUME NEW l \in Rows, KeyOf(l) = k PROVE l \in applied <=> l \in posted
    <3>1. PICK r \in Req : l \in {r} \X (1 .. Len(plan[r].legs))
      BY DEF Rows
    <3>2. l = <<r, l[2]>> /\ l[2] \in 1 .. LastLeg(r)
      BY <3>1 DEF LastLeg
    <3>3. HalfWritten(r) => l[2] # at[r]
      BY <2>1, <3>2 DEF Current
    <3>4. QED BY <3>2, <3>3 DEF IInv, Matched
  <2>2. OnKey(applied, k) = OnKey(posted, k)
    BY <2>1 DEF OnKey, TypeOK
  <2>3. QED BY <2>2 DEF IInv, Accounted, LedgerSum
<1>2. QED BY <1>1, TypeCorrect, BooksInvariant, PTL
-----------------------------------------------------------------------------
(* Which rows of a document are in the ledger, by where its handler stands. *)
Posts(r, S) == \A i \in 1 .. LastLeg(r) : <<r, i>> \in posted <=> i \in S

Stands(r) ==
  /\ pc[r] \in {"check", "setting", "claim", "insert", "release"} => Posts(r, 1 .. at[r] - 1)
  /\ pc[r] \in {"audit", "caller"} => Posts(r, 1 .. at[r])
  /\ pc[r] = "audit" /\ plan[r].kind = "transfer" => at[r] = 2
  /\ pc[r] = "caller" => plan[r].kind = "batch" /\ at[r] = LastLeg(r)
  /\ pc[r] = "undoRow" => Posts(r, {1}) /\ at[r] = 1
  /\ pc[r] = "undoStock" => Posts(r, {})
  /\ pc[r] \in {"giveBack", "dropRow"} => Posts(r, at[r] .. returned[r])
  /\ pc[r] = "ended" => Posts(r, {}) \/ Posts(r, 1 .. LastLeg(r))

(* An exception finds the rows of the legs before the current one (of those *)
(* handed to a batch), and leaves every row it does not undo to the undo.   *)
LEMMA AbortStands ==
  ASSUME TypeOK, UNCHANGED <<plan, returned>>, NEW r \in Req, Abort(r),
         \A i : <<r, i>> \in posted' <=> <<r, i>> \in posted,
         \/ Posts(r, 1 .. at[r] - 1) /\ (plan[r].kind = "batch" => returned[r] = at[r] - 1)
         \/ Posts(r, 1 .. at[r]) /\ plan[r].kind = "batch" /\ returned[r] = at[r]
  PROVE  Stands(r)'
<1>0. /\ LastLeg(r) \in Nat /\ LastLeg(r) >= 1 /\ LastLeg(r)' = LastLeg(r)
      /\ returned[r] \in 0 .. LastLeg(r) /\ at[r] \in 1 .. LastLeg(r)
      /\ pc \in [Req -> PcStates] /\ at \in [Req -> Nat]
      /\ returned'[r] = returned[r] /\ plan'[r] = plan[r]
  BY PlanFacts, RowsFixed DEF TypeOK
<1>k. /\ plan[r].kind \in {"movement", "transfer", "batch"}
      /\ plan[r].kind = "movement" => LastLeg(r) = 1
      /\ plan[r].kind = "transfer" => LastLeg(r) = 2
  BY PlanFacts DEF WellFormed, Kinds, LastLeg
<1>1. CASE pc'[r] = "giveBack" /\ at'[r] = 1 /\ returned[r] > 0 /\ plan[r].kind = "batch"
  <2>1. Posts(r, 1 .. returned[r])
    BY <1>0, <1>1
  <2>2. QED BY <1>0, <1>1, <2>1 DEF Stands, Posts
<1>2. CASE pc'[r] = "undoRow" /\ at'[r] = 1 /\ at[r] = 2 /\ plan[r].kind = "transfer"
  <2>1. Posts(r, 1 .. 1)
    BY <1>2
  <2>2. QED BY <1>0, <1>2, <2>1 DEF Stands, Posts
<1>3. CASE /\ pc'[r] = "ended" /\ at'[r] = at[r]
           /\ ~ (plan[r].kind = "batch" /\ returned[r] > 0)
           /\ ~ (plan[r].kind = "transfer" /\ at[r] = 2)
  <2>1. Posts(r, 1 .. at[r] - 1) /\ at[r] = 1
    BY <1>0, <1>k, <1>3
  <2>2. QED BY <1>0, <1>3, <2>1 DEF Stands, Posts
<1>4. QED BY <1>0, <1>1, <1>2, <1>3 DEF Abort, Goto

LEMMA HandlerStands ==
  ASSUME TypeOK, NEW r \in Req, Own(r), Stands(r), Handler(r),
         "reply" \notin Faults, "audit" \notin Faults
  PROVE  Stands(r)'
<1> USE DEF Ready, Goto
<1>0. /\ LastLeg(r) \in Nat /\ at[r] \in 1 .. LastLeg(r) /\ returned[r] \in 0 .. LastLeg(r)
      /\ pc \in [Req -> PcStates] /\ at \in [Req -> Nat] /\ returned \in [Req -> Nat]
  BY PlanFacts DEF TypeOK
<1>1. UNCHANGED plan /\ LastLeg(r)' = LastLeg(r)
  BY RowsFixed DEF Handler, Check, ReadSetting, Claim, Refuse, Insert, InsertRaises, Release,
         GiveBackStock, Audit, AuditRaises, CallerCompletes, CallerRaises,
         UndoRow, UndoStock, GiveBack, DropRow
<1>k. /\ plan[r].kind \in {"movement", "transfer", "batch"}
      /\ plan[r].kind = "movement" => LastLeg(r) = 1
      /\ plan[r].kind = "transfer" => LastLeg(r) = 2
  BY PlanFacts DEF WellFormed, Kinds, LastLeg
<1>2. CASE Check(r) \/ Refuse(r) \/ Release(r)
  <2>1. /\ Posts(r, 1 .. at[r] - 1) /\ (plan[r].kind = "batch" => returned[r] = at[r] - 1)
        /\ UNCHANGED <<posted, returned>>
    BY <1>2 DEF Check, Refuse, Release, stockVars, Own, Handed, Stands
  <2>2. CASE Abort(r)
    BY <1>1, <2>1, <2>2, AbortStands
  <2>3. CASE pc' = [pc EXCEPT ![r] = "setting"] /\ UNCHANGED at
    BY <1>0, <1>1, <2>1, <2>3 DEF Stands, Posts
  <2>4. QED BY <1>2, <2>2, <2>3 DEF Check, Refuse, Release
<1>3. CASE ReadSetting(r) \/ Claim(r)
  BY <1>0, <1>1, <1>3 DEF ReadSetting, Claim, stockVars, Stands, Posts
<1>4. CASE Insert(r)
  <2>1. Posts(r, 1 .. at[r])'
          \/ (at'[r] = 2 /\ at[r] = 1 /\ Posts(r, 1 .. at[r] - 1)')
    BY <1>0, <1>1, <1>4 DEF Insert, Stands, Posts, Current
  <2>2. CASE pc' = [pc EXCEPT ![r] = "audit"] /\ UNCHANGED at
             /\ ~ (plan[r].kind = "transfer" /\ at[r] = 1)
    BY <1>0, <1>1, <1>k, <1>4, <2>1, <2>2 DEF Stands
  <2>3. CASE pc' = [pc EXCEPT ![r] = "claim"] /\ at' = [at EXCEPT ![r] = 2] /\ at[r] = 1
    <3>1. Posts(r, 1 .. at[r] - 1)'
      BY <1>0, <1>1, <1>4, <2>3 DEF Insert, Stands, Posts, Current
    <3>2. QED BY <1>0, <1>1, <2>3, <3>1 DEF Stands
  <2>4. QED BY <1>4, <2>2, <2>3 DEF Insert
<1>5. CASE InsertRaises(r)
  BY <1>0, <1>1, <1>5 DEF InsertRaises, Stands, Posts
<1>6. CASE Audit(r)
  <2>1. Posts(r, 1 .. at[r]) /\ UNCHANGED posted
    BY <1>6 DEF Audit, stockVars, Stands
  <2>2. CASE plan[r].kind # "batch" /\ pc' = [pc EXCEPT ![r] = "ended"]
    <3>1. at[r] = LastLeg(r)
      BY <1>0, <1>k, <1>6, <2>2 DEF Audit, Stands
    <3>2. QED BY <1>0, <1>1, <2>1, <2>2, <3>1 DEF Stands, Posts
  <2>3. CASE /\ plan[r].kind = "batch" /\ at[r] < LastLeg(r)
             /\ at' = [at EXCEPT ![r] = @ + 1] /\ pc' = [pc EXCEPT ![r] = "check"]
    BY <1>0, <1>1, <2>1, <2>3 DEF Stands, Posts
  <2>4. CASE /\ plan[r].kind = "batch" /\ at[r] = LastLeg(r)
             /\ UNCHANGED at /\ pc' = [pc EXCEPT ![r] = "caller"]
    BY <1>0, <1>1, <2>1, <2>4 DEF Stands, Posts
  <2>5. QED BY <1>6, <2>2, <2>3, <2>4 DEF Audit
<1>7. CASE AuditRaises(r)
  BY <1>7 DEF AuditRaises
<1>8. CASE CallerCompletes(r)
  BY <1>0, <1>1, <1>8 DEF CallerCompletes, stockVars, Stands, Posts
<1>9. CASE CallerRaises(r)
  <2>1. /\ Posts(r, 1 .. at[r]) /\ plan[r].kind = "batch" /\ returned[r] = at[r]
        /\ UNCHANGED <<posted, returned>> /\ Abort(r)
    BY <1>9 DEF CallerRaises, stockVars, Own, Handed, Stands
  <2>2. QED BY <1>1, <2>1, AbortStands
<1>10. CASE UndoRow(r)
  BY <1>0, <1>1, <1>10 DEF UndoRow, Stands, Posts, Current
<1>11. CASE UndoStock(r)
  BY <1>0, <1>1, <1>11 DEF UndoStock, Stands, Posts
<1>12. CASE GiveBack(r)
  BY <1>0, <1>1, <1>12 DEF GiveBack, Stands, Posts
<1>13. CASE DropRow(r)
  <2>1. CASE pc' = [pc EXCEPT ![r] = "ended"] /\ at[r] = returned[r]
    <3>1. Posts(r, {})'
      BY <1>0, <1>1, <1>13, <2>1 DEF DropRow, Stands, Posts, Current
    <3>2. QED BY <1>0, <1>1, <2>1, <3>1 DEF Stands
  <2>2. CASE pc' = [pc EXCEPT ![r] = "giveBack"] /\ at' = [at EXCEPT ![r] = @ + 1]
    <3>1. Posts(r, at[r] .. returned[r])'
      BY <1>0, <1>1, <1>13, <2>2 DEF DropRow, Stands, Posts, Current
    <3>2. QED BY <1>0, <1>1, <2>2, <3>1 DEF Stands
  <2>3. QED BY <1>13, <2>1, <2>2 DEF DropRow
<1>14. QED
  BY <1>2, <1>3, <1>4, <1>5, <1>6, <1>7, <1>8, <1>9, <1>10, <1>11, <1>12, <1>13 DEF Handler

LEMMA OthersStand ==
  ASSUME TypeOK, NEW r \in Req, Handler(r), NEW q \in Req, q # r, Stands(q)
  PROVE  Stands(q)'
<1>1. UNCHANGED plan /\ pc'[q] = pc[q] /\ at'[q] = at[q] /\ returned'[q] = returned[q]
  BY DEF TypeOK, Ready, Goto, Abort, Handler, Check, ReadSetting, Claim, Refuse, Insert,
         InsertRaises, Release, GiveBackStock, Audit, AuditRaises, CallerCompletes,
         CallerRaises, UndoRow, UndoStock, GiveBack, DropRow
<1>2. posted' \in {posted, posted \cup {Current(r)}, posted \ {Current(r)}}
  BY DEF stockVars, Handler, Check, ReadSetting, Claim, Refuse, Insert,
         InsertRaises, Release, GiveBackStock, Audit, AuditRaises, CallerCompletes,
         CallerRaises, UndoRow, UndoStock, GiveBack, DropRow
<1>3. \A i : <<q, i>> \in posted' <=> <<q, i>> \in posted
  BY <1>2 DEF Current
<1>4. LastLeg(q)' = LastLeg(q)
  BY <1>1, RowsFixed
<1>5. QED BY <1>1, <1>3, <1>4 DEF Stands, Posts

(* The ledger has all rows of an ended document or none.                    *)
LEMMA EndedWhole ==
  ASSUME TypeOK, NEW r \in Req, Stands(r), pc[r] = "ended"
  PROVE  RowsOf(r) \in {{}, {r} \X (1 .. LastLeg(r))}
<1>1. ASSUME NEW l \in RowsOf(r) PROVE l = <<r, l[2]>> /\ l[2] \in 1 .. LastLeg(r) /\ l \in posted
  <2>1. l \in Rows /\ l \in posted /\ l[1] = r
    BY DEF RowsOf, TypeOK
  <2>2. QED BY <2>1 DEF Rows, LastLeg
<1>2. CASE Posts(r, {})
  BY <1>1, <1>2 DEF Posts
<1>3. CASE Posts(r, 1 .. LastLeg(r))
  <2>1. \A l \in {r} \X (1 .. LastLeg(r)) : l \in RowsOf(r)
    BY <1>3 DEF Posts, RowsOf
  <2>2. QED BY <1>1, <2>1
<1>4. QED BY <1>2, <1>3 DEF Stands

LEMMA StandsInvariant ==
  ASSUME "reply" \notin Faults, "audit" \notin Faults
  PROVE  Spec => [](\A r \in Req : Stands(r))
<1> DEFINE Rowed == \A r \in Req : Stands(r)
<1>1. Init => Rowed
  BY DEF Init, Stands, Posts
<1>2. TypeOK /\ IInv /\ Rowed /\ [Next]_vars => Rowed'
  <2> SUFFICES ASSUME TypeOK, IInv, Rowed, [Next]_vars, NEW q \in Req PROVE Stands(q)'
    OBVIOUS
  <2>1. CASE \E r \in Req : Handler(r)
    BY <2>1, HandlerStands, OthersStand DEF IInv, Own
  <2>2. CASE UNCHANGED <<plan, pc, at, returned, posted>>
    BY <2>2, RowsFixed DEF Stands, Posts
  <2>3. QED
    BY <2>1, <2>2 DEF Next, Finished, Crash, DeleteCheck, SoftDelete, SetAllowNegative,
       vars, handlerVars, stockVars
<1>3. QED BY <1>1, <1>2, TypeCorrect, BooksInvariant, PTL DEF Spec

(* A document that ran to its end posted all its rows or none, for any      *)
(* documents and interleaving, with inserts and callers that fail and       *)
(* handlers that die - as long as no activity entry raises.                 *)
THEOREM WholeOrNothing ==
  ASSUME "reply" \notin Faults, "audit" \notin Faults
  PROVE  Spec => []AllOrNothing
<1>1. TypeOK /\ (\A r \in Req : Stands(r)) => AllOrNothing
  BY EndedWhole DEF AllOrNothing
<1>2. QED BY <1>1, TypeCorrect, StandsInvariant, PTL
-----------------------------------------------------------------------------
(* The promise.  Seen from outside, the stock levels are the opening stock  *)
(* and the claims of ended requests.                                        *)
EndedClaims(k) == {l \in OnKey(applied, k) : l[1] \in Ended}
LegsOn(r, k)   == {i \in 1 .. LastLeg(r) : KeyOf(<<r, i>>) = k}

BookOfClaims ==
  \A k \in Keys : /\ EndedClaims(k) \in SUBSET Rows /\ IsFiniteSet(EndedClaims(k))
                  /\ Net(EndedClaims(k), Delta) \in Int
                  /\ Book[k] = Opening[k] + Net(EndedClaims(k), Delta)

LEMMA BookIsClaims == TypeOK /\ Accounted => BookOfClaims
<1> SUFFICES ASSUME TypeOK, Accounted, NEW k \in Keys
             PROVE  /\ EndedClaims(k) \in SUBSET Rows /\ IsFiniteSet(EndedClaims(k))
                    /\ Net(EndedClaims(k), Delta) \in Int
                    /\ Book[k] = Opening[k] + Net(EndedClaims(k), Delta)
  BY DEF BookOfClaims
<1> DEFINE E == EndedClaims(k)
           O == {l \in OnKey(applied, k) : l[1] \notin Ended}
<1>1. Delta \in [Rows -> Int] /\ applied \in SUBSET Rows
  BY DeltaType DEF TypeOK
<1>2. /\ E \in SUBSET Rows /\ O \in SUBSET Rows /\ E \cap O = {} /\ OnKey(applied, k) = E \cup O
      /\ E \subseteq applied /\ O \subseteq applied
  BY <1>1 DEF EndedClaims, OnKey
<1>3. IsFiniteSet(E) /\ IsFiniteSet(O)
  BY <1>2, FS_Subset DEF Accounted
<1> HIDE DEF E, O
<1>4. Net(E \cup O, Delta) = Net(E, Delta) + Net(O, Delta)
  BY <1>1, <1>2, <1>3, NetUnion
<1>5. Net(E, Delta) \in Int /\ Net(O, Delta) \in Int
  BY <1>1, <1>2, <1>3, NetInt
<1>6. onHand[k] = Opening[k] + Net(E \cup O, Delta) /\ Opening[k] \in Int
  BY <1>2, OpeningAssumption DEF Accounted
<1>7. Book[k] = onHand[k] - Net(O, Delta)
  BY DEF Book, O
<1>8. \A a, b, c \in Int : (a + (b + c)) - c = a + b
  OBVIOUS
<1>9. Book[k] = Opening[k] + Net(E, Delta)
  <2>1. (Opening[k] + (Net(E, Delta) + Net(O, Delta))) - Net(O, Delta) = Opening[k] + Net(E, Delta)
    BY <1>5, <1>6, <1>8
  <2>2. QED BY <1>4, <1>6, <1>7, <2>1, Zenon
<1>10. QED BY <1>2, <1>3, <1>5, <1>9 DEF E

(* What a document does to a level by the promise is what its legs do.      *)
LEMMA SameNet ==
  ASSUME NEW S, NEW d PROVE Promise!Net(S, d) = Net(S, d)
<1>1. ASSUME NEW T PROVE Promise!Cardinality(T) = Cardinality(T)
  BY Zenon DEF Promise!Cardinality, Cardinality
<1>2. QED
  BY <1>1 DEF Promise!Net, Promise!Units, Promise!Gains, Promise!Losses, Net, Units, Gains, Losses

LEMMA EffectIsLegs ==
  ASSUME TypeOK, NEW r \in Req, NEW k \in Keys
  PROVE  /\ {r} \X LegsOn(r, k) \in SUBSET Rows
         /\ IsFiniteSet({r} \X LegsOn(r, k))
         /\ Promise!Effect(plan[r], k) = Net({r} \X LegsOn(r, k), Delta)
<1> DEFINE n == LastLeg(r)
           I == LegsOn(r, k)
           d == [i \in 1 .. n |-> plan[r].legs[i].delta]
           f == [i \in I |-> <<r, i>>]
<1>1. Promise!Effect(plan[r], k) = Net(I, d)
  <2>1. I = {i \in 1 .. Len(plan[r].legs) : plan[r].legs[i].key = k}
    BY DEF LegsOn, LastLeg, KeyOf
  <2>2. Promise!Effect(plan[r], k)
          = Promise!Net({i \in 1 .. Len(plan[r].legs) : plan[r].legs[i].key = k},
                        [i \in 1 .. Len(plan[r].legs) |-> plan[r].legs[i].delta])
    BY DEF Promise!Effect
  <2>3. QED BY <2>1, <2>2, SameNet, Zenon DEF LastLeg
<1>2. /\ n \in Nat /\ I \in SUBSET (1 .. n)
      /\ \A i \in 1 .. n : /\ <<r, i>> \in Rows /\ Delta[<<r, i>>] \in Int
                           /\ Delta[<<r, i>>] = plan[r].legs[i].delta
  BY PlanFacts DEF LegsOn
<1>3. IsFiniteSet(I)
  <2>1. IsFiniteSet(1 .. n)
    BY <1>2, FS_Interval
  <2>2. QED BY <1>2, <2>1, FS_Subset
<1>4. d \in [1 .. n -> Int] /\ Delta \in [Rows -> Int]
  BY <1>2, DeltaType
<1>5. f \in Bijection(I, {r} \X I)
  <2>1. f \in [I -> {r} \X I]
    OBVIOUS
  <2>2. \A i, j \in I : f[i] = f[j] => i = j
    OBVIOUS
  <2>3. \A t \in {r} \X I : \E i \in I : f[i] = t
    <3>1. TAKE t \in {r} \X I
    <3>2. t[2] \in I /\ t = <<r, t[2]>>
      OBVIOUS
    <3>3. f[t[2]] = t
      BY <3>2
    <3>4. QED BY <3>2, <3>3
  <2>4. QED
    <3> HIDE DEF f
    <3>1. QED BY <2>1, <2>2, <2>3 DEF Bijection, Injection, Surjection, IsInjective
<1>6. {r} \X I \in SUBSET Rows
  BY <1>2
<1>7. \A i \in I : Delta[f[i]] = d[i]
  BY <1>2
<1>8. Net({r} \X I, Delta) = Net(I, d)
  <2> HIDE DEF I, d, f, n
  <2>1. QED BY <1>2, <1>3, <1>4, <1>5, <1>6, <1>7, NetRenamed
<1>9. IsFiniteSet({r} \X I)
  BY <1>3, <1>5, FS_Bijection DEF ExistsBijection
<1>10. QED BY <1>1, <1>6, <1>8, <1>9

LEMMA BookStaysClaims == TypeOK' /\ Accounted' => BookOfClaims'
BY BookIsClaims, PTL

(* The levels move by what the ended requests claimed.                      *)
LEMMA BookMoves ==
  ASSUME TypeOK, Accounted, TypeOK', Accounted', UNCHANGED plan, NEW k \in Keys,
         NEW S \in SUBSET Rows, IsFiniteSet(S), EndedClaims(k) \cap S = {},
         EndedClaims(k)' = EndedClaims(k) \cup S
  PROVE  Book'[k] = Book[k] + Net(S, Delta)
<1>1. Delta' = Delta /\ Delta \in [Rows -> Int]
  BY DeltaType, RowsFixed
<1>2. BookOfClaims /\ BookOfClaims'
  BY BookIsClaims, BookStaysClaims
<1>3. /\ EndedClaims(k) \in SUBSET Rows /\ IsFiniteSet(EndedClaims(k))
      /\ Net(EndedClaims(k), Delta) \in Int
      /\ Book[k] = Opening[k] + Net(EndedClaims(k), Delta)
  BY <1>2 DEF BookOfClaims
<1>4. Book'[k] = Opening[k] + Net(EndedClaims(k)', Delta)
  BY <1>1, <1>2 DEF BookOfClaims
<1>5. Net(EndedClaims(k) \cup S, Delta) = Net(EndedClaims(k), Delta) + Net(S, Delta)
  BY <1>1, <1>3, NetUnion
<1>6. Net(S, Delta) \in Int /\ Opening[k] \in Int
  BY <1>1, NetInt, OpeningAssumption
<1>7. \A a, b, c \in Int : a + (b + c) = (a + b) + c
  OBVIOUS
<1>8. Opening[k] + (Net(EndedClaims(k), Delta) + Net(S, Delta))
        = (Opening[k] + Net(EndedClaims(k), Delta)) + Net(S, Delta)
  BY <1>3, <1>6, <1>7
<1>9. QED BY <1>3, <1>4, <1>5, <1>8, Zenon

LEMMA BookStays ==
  ASSUME TypeOK, Accounted, TypeOK', Accounted', UNCHANGED plan,
         \A k \in Keys : EndedClaims(k)' = EndedClaims(k)
  PROVE  Book' = Book
<1>1. ASSUME NEW k \in Keys PROVE Book'[k] = Book[k]
  <2>1. Delta' = Delta
    BY RowsFixed
  <2>2. BookOfClaims /\ BookOfClaims'
    BY BookIsClaims, BookStaysClaims
  <2>3. Book'[k] = Opening[k] + Net(EndedClaims(k), Delta)
    BY <2>1, <2>2 DEF BookOfClaims
  <2>4. QED BY <2>2, <2>3 DEF BookOfClaims
<1>2. /\ Book = [k \in Keys |-> Book[k]]
      /\ Book' = [k \in Keys |-> Book'[k]]
  BY DEF Book
<1>3. QED BY <1>1, <1>2

(* A handler's step leaves the rows and claims of the other requests.       *)
LEMMA OthersRows ==
  ASSUME TypeOK, TypeOK', NEW r \in Req, Handler(r)
  PROVE  /\ UNCHANGED plan /\ r \notin Ended
         /\ \A q \in Req : q # r => (q \in Ended' <=> q \in Ended)
         /\ Rows' = Rows
         /\ \A l \in Rows : l[1] # r => /\ l \in posted' <=> l \in posted
                                        /\ l \in applied' <=> l \in applied
<1>1. UNCHANGED plan /\ pc[r] # "ended" /\ \A q \in Req \ {r} : pc'[q] = pc[q]
  BY DEF TypeOK, Ready, Goto, Abort, Handler, Check, ReadSetting, Claim, Refuse, Insert,
         InsertRaises, Release, GiveBackStock, Audit, AuditRaises, CallerCompletes,
         CallerRaises, UndoRow, UndoStock, GiveBack, DropRow
<1>2. /\ applied' \in {applied, applied \cup {Current(r)}, applied \ {Current(r)}}
      /\ posted' \in {posted, posted \cup {Current(r)}, posted \ {Current(r)}}
  BY DEF stockVars, Handler, Check, ReadSetting, Claim, Refuse, Insert,
         InsertRaises, Release, GiveBackStock, Audit, AuditRaises, CallerCompletes,
         CallerRaises, UndoRow, UndoStock, GiveBack, DropRow
<1>3. QED BY <1>1, <1>2, RowsFixed DEF Ended, Current

LEMMA HandlerPromised ==
  ASSUME TypeOK, TypeOK', IInv, IInv', NEW r \in Req, Handler(r), Stands(r)'
  PROVE  Promise!Keep(r) \/ Promise!Drop(r) \/ UNCHANGED Promise!vars
<1> DEFINE n == LastLeg(r)
<1>1. /\ UNCHANGED plan /\ r \notin Ended
      /\ \A q \in Req : q # r => (q \in Ended' <=> q \in Ended)
      /\ Rows' = Rows
      /\ \A l \in Rows : l[1] # r => /\ l \in posted' <=> l \in posted
                                     /\ l \in applied' <=> l \in applied
  BY OthersRows
<1>2. /\ Accounted /\ Accounted'
      /\ Ended \subseteq Req /\ Ended' \subseteq Req
      /\ posted \subseteq Rows /\ posted' \subseteq Rows
      /\ applied \subseteq Rows /\ applied' \subseteq Rows
  BY <1>1 DEF IInv, Ended, TypeOK
<1>3. /\ n \in Nat /\ n >= 1 /\ n' = n
      /\ \A i \in 1 .. n : <<r, i>> \in Rows
      /\ \A l \in Rows : l[1] = r => l = <<r, l[2]>> /\ l[2] \in 1 .. n
      /\ \A l \in Rows : l[1] \in Req
  BY <1>1, PlanFacts, RowsFixed DEF Rows, LastLeg
<1>4. \A l \in Rows : KeyOf(l)' = KeyOf(l)
  BY <1>1 DEF KeyOf
<1>5. \A q \in Req : q # r => RowsOf(q)' = RowsOf(q)
  BY <1>1, <1>2 DEF RowsOf
<1> HIDE DEF n
<1>6. CASE r \notin Ended'
  <2>1. Ended' = Ended
    BY <1>1, <1>2, <1>6
  <2>2. EndedRows' = EndedRows
    BY <1>1, <1>2, <2>1 DEF EndedRows
  <2>3. \A k \in Keys : EndedClaims(k)' = EndedClaims(k)
    BY <1>1, <1>2, <1>4, <2>1 DEF EndedClaims, OnKey
  <2>4. Book' = Book
    BY <1>1, <1>2, <2>3, BookStays
  <2>5. Answer' = Answer
    BY <1>1, <1>5, <2>1 DEF Answer
  <2>6. QED BY <1>1, <2>2, <2>4, <2>5 DEF Promise!vars
<1>7. CASE r \in Ended' /\ Posts(r, {})'
  <2>1. Ended' = Ended \cup {r} /\ pc'[r] = "ended"
    BY <1>1, <1>2, <1>7 DEF Ended
  <2>2. \A l \in Rows : l[1] = r => l \notin posted' /\ l \notin applied'
    <3>1. Matched(r)' /\ ~ HalfWritten(r)'
      BY <2>1 DEF IInv, HalfWritten
    <3>2. \A i \in 1 .. n : <<r, i>> \notin posted' /\ <<r, i>> \notin applied'
      BY <1>3, <1>7, <3>1 DEF Posts, Matched, n
    <3>3. QED BY <1>3, <3>2
  <2>3. EndedRows' = EndedRows
    BY <1>1, <1>2, <1>3, <2>1, <2>2 DEF EndedRows
  <2>4. \A k \in Keys : EndedClaims(k)' = EndedClaims(k)
    BY <1>1, <1>2, <1>3, <1>4, <2>1, <2>2 DEF EndedClaims, OnKey
  <2>5. Book' = Book
    BY <1>1, <1>2, <2>4, BookStays
  <2>6. RowsOf(r)' = {}
    BY <1>2, <2>2 DEF RowsOf
  <2>7. Answer[r] = "open" /\ Answer' = [Answer EXCEPT ![r] = "dropped"]
    BY <1>1, <1>5, <2>1, <2>6 DEF Answer
  <2>8. QED BY <1>1, <2>3, <2>5, <2>7 DEF Promise!Drop
<1>8. CASE r \in Ended' /\ Posts(r, 1 .. n)'
  <2>1. Ended' = Ended \cup {r} /\ pc'[r] = "ended"
    BY <1>1, <1>2, <1>8 DEF Ended
  <2>2. \A l \in Rows : l[1] = r => l \in posted' /\ l \in applied'
    <3>1. Matched(r)' /\ ~ HalfWritten(r)'
      BY <2>1 DEF IInv, HalfWritten
    <3>2. \A i \in 1 .. n : <<r, i>> \in posted' /\ <<r, i>> \in applied'
      BY <1>3, <1>8, <3>1 DEF Posts, Matched, n
    <3>3. QED BY <1>3, <3>2
  <2>3. EndedRows' = EndedRows \cup ({r} \X (1 .. Len(plan[r].legs)))
    <3>1. {r} \X (1 .. n) = {l \in Rows : l[1] = r}
      BY <1>3
    <3>2. EndedRows' = EndedRows \cup {l \in Rows : l[1] = r}
      BY <1>1, <1>2, <1>3, <2>1, <2>2 DEF EndedRows
    <3>3. QED BY <3>1, <3>2 DEF n, LastLeg
  <2>4. Book' = [k \in Keys |-> Book[k] + Promise!Effect(plan[r], k)]
    <3>1. ASSUME NEW k \in Keys PROVE Book'[k] = Book[k] + Promise!Effect(plan[r], k)
      <4>1. EndedClaims(k)' = EndedClaims(k) \cup ({r} \X LegsOn(r, k))
        <5>1. {r} \X LegsOn(r, k) = {l \in Rows : l[1] = r /\ KeyOf(l) = k}
          BY <1>3 DEF LegsOn, n
        <5>2. QED BY <1>1, <1>2, <1>3, <1>4, <2>1, <2>2, <5>1 DEF EndedClaims, OnKey
      <4>2. EndedClaims(k) \cap ({r} \X LegsOn(r, k)) = {}
        BY <1>1 DEF EndedClaims
      <4>3. /\ {r} \X LegsOn(r, k) \in SUBSET Rows
            /\ IsFiniteSet({r} \X LegsOn(r, k))
            /\ Promise!Effect(plan[r], k) = Net({r} \X LegsOn(r, k), Delta)
        BY EffectIsLegs
      <4>4. Book'[k] = Book[k] + Net({r} \X LegsOn(r, k), Delta)
        BY <1>1, <1>2, <4>1, <4>2, <4>3, BookMoves
      <4>5. QED BY <4>3, <4>4, Zenon
    <3>2. Book' = [k \in Keys |-> Book'[k]]
      BY DEF Book
    <3>3. QED BY <3>1, <3>2
  <2>5. RowsOf(r)' # {}
    <3>1. <<r, 1>> \in Rows /\ <<r, 1>>[1] = r
      BY <1>3
    <3>2. QED BY <2>2, <3>1 DEF RowsOf
  <2>6. Answer[r] = "open" /\ Answer' = [Answer EXCEPT ![r] = "kept"]
    BY <1>1, <1>5, <2>1, <2>5 DEF Answer
  <2>7. QED BY <1>1, <2>3, <2>4, <2>6 DEF Promise!Keep
<1>9. QED BY <1>3, <1>6, <1>7, <1>8 DEF Stands, Ended, n

(* Inventory implements its promise, for any documents and interleaving,    *)
(* with inserts and callers that fail and handlers that die (their requests *)
(* stay open): every step, seen from outside, keeps a whole document, drops *)
(* one without a trace, or changes nothing.                                 *)
THEOREM PromiseImplemented ==
  ASSUME "reply" \notin Faults, "audit" \notin Faults
  PROVE  Spec => ImplementsPromise
<1> DEFINE Rowed == \A r \in Req : Stands(r)
<1>1. Init => Promise!Init
  <2> SUFFICES ASSUME Init PROVE Promise!Init
    OBVIOUS
  <2>1. Ended = {} /\ EndedRows = {}
    BY DEF Init, Ended, EndedRows
  <2>2. Answer = [r \in Req |-> "open"]
    BY <2>1 DEF Answer
  <2>3. Book = Opening
    <3>1. ASSUME NEW k \in Keys PROVE Book[k] = Opening[k]
      <4>1. {l \in OnKey(applied, k) : l[1] \notin Ended} = {}
        BY DEF Init, OnKey
      <4>2. Book[k] = onHand[k] - 0
        BY <4>1, NetEmpty DEF Book
      <4>3. onHand[k] = Opening[k] /\ Opening[k] \in Int
        BY OpeningAssumption DEF Init
      <4>4. QED BY <4>2, <4>3
    <3>2. Book = [k \in Keys |-> Book[k]] /\ Opening = [k \in Keys |-> Opening[k]]
      BY OpeningAssumption DEF Book
    <3>3. QED BY <3>1, <3>2
  <2>4. QED BY <2>1, <2>2, <2>3 DEF Promise!Init, Init
<1>2. /\ TypeOK /\ IInv /\ Rowed
      /\ TypeOK' /\ IInv' /\ Rowed'
      /\ [Next]_vars
      => [Promise!Next]_Promise!vars
  <2> SUFFICES ASSUME TypeOK, IInv, Rowed, TypeOK', IInv', Rowed', [Next]_vars
               PROVE  [Promise!Next]_Promise!vars
    OBVIOUS
  <2>1. CASE \E r \in Req : Handler(r)
    BY <2>1, HandlerPromised DEF Promise!Next
  <2>2. CASE UNCHANGED <<plan, pc, onHand, applied, posted>>
    <3>1. Ended' = Ended /\ EndedRows' = EndedRows /\ Answer' = Answer
      BY <2>2 DEF Ended, EndedRows, Answer, RowsOf
    <3>2. Rows' = Rows /\ \A k \in Keys : OnKey(applied, k)' = OnKey(applied, k)
      BY <2>2, RowsFixed DEF OnKey, KeyOf
    <3>3. \A k \in Keys : EndedClaims(k)' = EndedClaims(k)
      BY <3>1, <3>2 DEF EndedClaims
    <3>4. Book' = Book
      BY <2>2, <3>3, BookStays DEF IInv
    <3>5. QED BY <2>2, <3>1, <3>4 DEF Promise!vars
  <2>3. QED
    BY <2>1, <2>2 DEF Next, Finished, Crash, DeleteCheck, SoftDelete, SetAllowNegative,
       vars, handlerVars, stockVars
<1>3. QED
  BY <1>1, <1>2, TypeCorrect, BooksInvariant, StandsInvariant, PTL
     DEF Spec, ImplementsPromise, Promise!Spec
=============================================================================
