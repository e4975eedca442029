-------------------------- MODULE FinanceProofs ---------------------------
(***************************************************************************)
(* Proofs about Invoices and Ledger.  For any number of requests that      *)
(* overlap, fail and crash: numbers are never shared (NumbersUnique), and  *)
(* without edits no document is paid beyond its total (PaidWithinTotal).   *)
(* For requests that do not overlap on one document: the books agree with  *)
(* the documents (BooksMatchDocs), and every handler acts as one step on   *)
(* the document and its account (ImplementsReceivables).  For any clerks   *)
(* and any chart of accounts: the reports balance (ReportsReconcile).      *)
(***************************************************************************)
EXTENDS Invoices, Ledger, SignedSumProofs, WellFoundedInduction

(* The part of TypeOK these proofs rest on, and which operation a request   *)
(* at each step is about.                                                   *)
OnTask(r) ==
  /\ pc[r] # "idle" => task[r] \in Tasks /\ task[r].op \in Ops
  /\ pc[r] \in {"number", "stock"} => Asked(r, "send")
  /\ pc[r] = "entry" => Asked(r, "send") \/ Asked(r, "void") \/ Asked(r, "pay")
  /\ pc[r] = "mark" => Asked(r, "void")
  /\ pc[r] = "payment" => Asked(r, "pay")

Typed ==
  /\ pc \in [Req -> PcStates]
  /\ task \in [Req -> Tasks \cup {NoTask}]
  /\ \A r \in Req : OnTask(r)
  /\ seen \in [Req -> [status : Statuses, total : Nat, paid : Nat]]
  /\ num \in [Req -> Nat]
  /\ status \in [Docs -> Statuses]
  /\ total \in [Docs -> Nat]
  /\ paid \in [Docs -> Nat]
  /\ number \in [Docs -> Nat]
  /\ counter \in [Kinds -> Nat]

(* A request between its number and its last write touches no document, no  *)
(* counter and nobody's number, and it stays on its operation.              *)
Between(r) ==
  \/ IssueStock(r) \/ StockShort(r) \/ PostEntry(r) \/ PostingRaises(r)
  \/ MarkReversal(r) \/ InsertPayment(r)

LEMMA BetweenSteps ==
  ASSUME Typed, NEW r \in Req, Between(r)
  PROVE  /\ UNCHANGED <<task, seen, num, docVars, counter>>
         /\ pc[r] \notin {"idle", "number"}
         /\ \E s \in {"entry", "mark", "payment", "write", "ended"} :
              /\ pc' = [pc EXCEPT ![r] = s]
              /\ s = "entry" => Asked(r, "send")
              /\ s = "mark" => Asked(r, "void")
              /\ s = "payment" => Asked(r, "pay")
<1>1. CASE PostEntry(r)
  <2>1. /\ UNCHANGED <<task, seen, num, docVars, counter>>
        /\ pc[r] = "entry"
        /\ pc' = [pc EXCEPT ![r] = AfterPosting(r)]
    BY <1>1 DEF PostEntry, Goto, Ready
  <2>2. \/ Asked(r, "send") /\ AfterPosting(r) = "write"
        \/ Asked(r, "void") /\ AfterPosting(r) = "mark"
        \/ Asked(r, "pay") /\ AfterPosting(r) = "payment"
    BY <2>1 DEF Typed, OnTask, AfterPosting, Asked
  <2>3. QED BY <2>1, <2>2
<1>2. CASE IssueStock(r)
  BY <1>2 DEF IssueStock, Goto, Ready, Typed, OnTask
<1>3. CASE StockShort(r) \/ PostingRaises(r) \/ MarkReversal(r) \/ InsertPayment(r)
  BY <1>3 DEF StockShort, PostingRaises, MarkReversal, InsertPayment, bookVars, Goto, Ready
<1>4. QED BY <1>1, <1>2, <1>3 DEF Between

LEMMA BeginTyped ==
  ASSUME Typed, NEW r \in Req, Begin(r)
  PROVE  Typed'
<1>1. PICK op \in Ops, d \in Docs, arg \in Totals \cup Amounts \cup {0} :
        /\ Accepts(op, d, arg)
        /\ task' = [task EXCEPT ![r] = [op |-> op, doc |-> d, arg |-> arg]]
        /\ seen' = [seen EXCEPT ![r] =
                      [status |-> status[d], total |-> total[d], paid |-> paid[d]]]
        /\ pc' = [pc EXCEPT ![r] = FirstStep(op)]
  BY DEF Begin, Goto
<1>2. UNCHANGED <<num, docVars, counter>>
  BY DEF Begin, bookVars
<1>3. /\ op \in AllOps /\ arg \in Nat
      /\ [status |-> status[d], total |-> total[d], paid |-> paid[d]]
           \in [status : Statuses, total : Nat, paid : Nat]
  BY OpsAssumption, TotalsAssumption DEF Typed
<1>4. [op |-> op, doc |-> d, arg |-> arg] \in Tasks
  BY <1>3 DEF Tasks
<1>5. \/ op = "send" /\ FirstStep(op) = "number"
      \/ op \in {"void", "pay"} /\ FirstStep(op) = "entry"
      \/ op \in {"edit", "delete"} /\ FirstStep(op) = "write"
  BY <1>3 DEF AllOps, FirstStep
<1>6. ASSUME NEW q \in Req PROVE OnTask(q)'
  <2>1. CASE q = r
    <3>1. /\ task'[q] = [op |-> op, doc |-> d, arg |-> arg] /\ pc'[q] = FirstStep(op)
          /\ task'[q].op = op
      BY <1>1, <2>1 DEF Typed
    <3>2. QED BY <1>4, <1>5, <3>1 DEF OnTask, Asked
  <2>2. CASE q # r
    BY <1>1, <2>2 DEF Typed, OnTask, Asked
  <2>3. QED BY <2>1, <2>2
<1>7. QED
  BY <1>1, <1>2, <1>3, <1>4, <1>5, <1>6 DEF Typed, PcStates, docVars

LEMMA WriteTyped ==
  ASSUME Typed, NEW r \in Req, WriteDoc(r)
  PROVE  Typed'
<1>1. /\ pc' = [pc EXCEPT ![r] = "ended"]
      /\ UNCHANGED <<task, seen, num, counter>>
      /\ pc[r] = "write" /\ Doc(r) \in Docs /\ task[r] \in Tasks
  BY DEF WriteDoc, Ready, Goto, bookVars, Typed, OnTask, Doc, Tasks
<1>2. seen[r].paid \in Nat /\ task[r].arg \in Nat /\ num[r] \in Nat
  BY <1>1 DEF Typed, Tasks
<1>3. /\ status' \in [Docs -> Statuses] /\ paid' \in [Docs -> Nat]
      /\ number' \in [Docs -> Nat] /\ total' \in [Docs -> Nat]
  <2>1. CASE WriteSent(r) \/ WriteVoid(r) \/ WriteDeleted(r)
    BY <1>1, <1>2, <2>1 DEF WriteSent, WriteVoid, WriteDeleted, Typed, Statuses
  <2>2. CASE WritePaid(r)
    BY <1>1, <1>2, <2>2 DEF WritePaid, StatusFor, Typed, Statuses
  <2>3. CASE WriteEdit(r)
    BY <1>1, <1>2, <2>3 DEF WriteEdit, Typed
  <2>4. QED BY <2>1, <2>2, <2>3 DEF WriteDoc
<1>4. ASSUME NEW q \in Req PROVE OnTask(q)'
  BY <1>1 DEF Typed, OnTask, Asked
<1>5. QED BY <1>1, <1>3, <1>4 DEF Typed, PcStates

LEMMA BetweenTyped ==
  ASSUME Typed, NEW r \in Req, Between(r)
  PROVE  Typed'
<1>1. UNCHANGED <<task, seen, num, status, total, paid, number, counter>>
  BY BetweenSteps DEF docVars
<1>2. PICK s \in {"entry", "mark", "payment", "write", "ended"} :
        /\ pc' = [pc EXCEPT ![r] = s]
        /\ s = "entry" => Asked(r, "send")
        /\ s = "mark" => Asked(r, "void")
        /\ s = "payment" => Asked(r, "pay")
  BY BetweenSteps
<1>3. pc[r] # "idle"
  BY BetweenSteps
<1>4. ASSUME NEW q \in Req PROVE OnTask(q)'
  BY <1>1, <1>2, <1>3 DEF Typed, OnTask, Asked
<1>5. QED BY <1>1, <1>2, <1>4 DEF Typed, PcStates

LEMMA ClaimTyped ==
  ASSUME Typed, NEW r \in Req, ClaimNumber(r)
  PROVE  Typed'
<1>1. /\ pc[r] = "number" /\ KindOf(Doc(r)) \in Kinds
      /\ UNCHANGED <<task, seen, status, total, paid, number>>
      /\ \E s \in {"stock", "entry"} : pc' = [pc EXCEPT ![r] = s]
  BY DEF ClaimNumber, Ready, Goto, docVars, KindOf, Kinds
<1>2. counter' \in [Kinds -> Nat] /\ num' \in [Req -> Nat]
  BY <1>1 DEF ClaimNumber, Typed
<1>3. ASSUME NEW q \in Req PROVE OnTask(q)'
  BY <1>1 DEF Typed, OnTask, Asked
<1>4. QED BY <1>1, <1>2, <1>3 DEF Typed, PcStates

(* Typed is an invariant by itself.                                         *)
LEMMA InitTyped == Init => Typed
<1>1. 1 \in Nat /\ \A t \in Totals : t \in Nat
  BY TotalsAssumption
<1>2. QED
  BY <1>1 DEF Init, Typed, OnTask, PcStates, Statuses

LEMMA StillTyped ==
  ASSUME Typed, (\E r \in Req : Crash(r)) \/ UNCHANGED vars
  PROVE  /\ UNCHANGED <<pc, task, seen, num, docVars, bookVars>>
         /\ Typed'
<1>1. UNCHANGED <<pc, task, seen, num, docVars, bookVars>>
  BY DEF Crash, vars, handlerVars
<1>2. QED BY <1>1 DEF Typed, OnTask, Asked, docVars, bookVars

(* The steps of Next, as the proofs below split them. *)
LEMMA StepsOfNext ==
  ASSUME [Next]_vars
  PROVE  \/ \E r \in Req : Begin(r)
         \/ \E r \in Req : ClaimNumber(r)
         \/ \E r \in Req : Between(r)
         \/ \E r \in Req : WriteDoc(r)
         \/ (\E r \in Req : Crash(r)) \/ UNCHANGED vars
BY DEF Next, Handler, Between, Quiet

LEMMA NextTyped == Typed /\ [Next]_vars => Typed'
BY StepsOfNext, BeginTyped, ClaimTyped, BetweenTyped, WriteTyped, StillTyped
-----------------------------------------------------------------------------
(* Why numbers are unique: a claimed number is not above the counter, no    *)
(* two requests hold one number of a kind, and the number of a document is  *)
(* held by a request for it - which keeps it when it ends or dies.          *)
Holds(r, k) == num[r] # 0 /\ KindOf(Doc(r)) = k

ClaimedOnce ==
  /\ \A r \in Req : pc[r] \in {"idle", "number"} => num[r] = 0
  /\ \A r \in Req, k \in Kinds : Holds(r, k) => num[r] <= counter[k]
  /\ \A r, q \in Req, k \in Kinds :
       Holds(r, k) /\ Holds(q, k) /\ num[r] = num[q] => r = q

NumbersHeld ==
  \A d \in Docs : number[d] # 0 => \E r \in Req : num[r] = number[d] /\ Doc(r) = d

NumberInv == ClaimedOnce /\ NumbersHeld

LEMMA NumberInvImplies == NumberInv => NumbersUnique
<1> SUFFICES ASSUME NumberInv, NEW d \in Docs, NEW e \in Docs,
                    KindOf(d) = KindOf(e), number[d] = number[e], number[d] # 0
             PROVE  d = e
  BY DEF NumbersUnique
<1>1. PICK r \in Req : num[r] = number[d] /\ Doc(r) = d
  BY DEF NumberInv, NumbersHeld
<1>2. PICK q \in Req : num[q] = number[e] /\ Doc(q) = e
  BY DEF NumberInv, NumbersHeld
<1>3. KindOf(d) \in Kinds
  BY DEF KindOf, Kinds
<1>4. r = q
  BY <1>1, <1>2, <1>3 DEF NumberInv, ClaimedOnce, Holds
<1>5. QED BY <1>1, <1>2, <1>4

LEMMA NumberBegin ==
  ASSUME Typed, NumberInv, NEW r \in Req, Begin(r)
  PROVE  NumberInv'
<1>1. /\ UNCHANGED <<num, number, counter>>
      /\ pc[r] = "idle"
      /\ \A q \in Req \ {r} : pc'[q] = pc[q] /\ task'[q] = task[q]
  BY DEF Begin, Goto, Ready, docVars, bookVars, Typed
<1>2. num[r] = 0
  BY <1>1 DEF NumberInv, ClaimedOnce
<1>3. ClaimedOnce'
  BY <1>1, <1>2 DEF NumberInv, ClaimedOnce, Holds, Doc
<1>4. NumbersHeld'
  BY <1>1, <1>2 DEF NumberInv, NumbersHeld, Doc
<1>5. QED BY <1>3, <1>4 DEF NumberInv

(* The claimed number is one above the counter: nobody holds it.            *)
LEMMA NumberClaim ==
  ASSUME Typed, NumberInv, NEW r \in Req, ClaimNumber(r)
  PROVE  NumberInv'
<1> DEFINE c == KindOf(Doc(r))
<1>1. /\ c \in Kinds /\ counter[c] \in Nat
      /\ counter' = [counter EXCEPT ![c] = @ + 1]
      /\ num' = [num EXCEPT ![r] = counter[c] + 1]
      /\ pc[r] = "number" /\ pc'[r] \notin {"idle", "number"}
      /\ \A q \in Req \ {r} : pc'[q] = pc[q]
      /\ UNCHANGED <<task, number>>
  BY DEF ClaimNumber, Ready, Goto, docVars, Typed, KindOf, Kinds
<1>2. /\ num[r] = 0 /\ num'[r] = counter[c] + 1
      /\ \A q \in Req \ {r} : num'[q] = num[q]
      /\ \A q \in Req : num[q] \in Nat
  BY <1>1 DEF NumberInv, ClaimedOnce, Typed
<1>3. \A q \in Req, k \in Kinds : Holds(q, k)' =>
        IF q = r THEN k = c ELSE Holds(q, k)
  BY <1>1, <1>2 DEF Holds, Doc
<1>4. \A k \in Kinds : counter[k] \in Nat /\ counter'[k] = IF k = c THEN counter[k] + 1 ELSE counter[k]
  BY <1>1 DEF Typed
<1>5. \A q \in Req, k \in Kinds : Holds(q, k)' => num'[q] <= counter'[k]
  BY <1>2, <1>3, <1>4 DEF NumberInv, ClaimedOnce
<1>6. \A q \in Req \ {r} : Holds(q, c) => num'[q] < num'[r]
  BY <1>1, <1>2 DEF NumberInv, ClaimedOnce
<1>7. \A p, q \in Req, k \in Kinds :
        Holds(p, k)' /\ Holds(q, k)' /\ num'[p] = num'[q] => p = q
  BY <1>1, <1>2, <1>3, <1>6 DEF NumberInv, ClaimedOnce
<1>8. ClaimedOnce'
  BY <1>1, <1>2, <1>5, <1>7 DEF NumberInv, ClaimedOnce
<1>9. NumbersHeld'
  BY <1>1, <1>2 DEF NumberInv, NumbersHeld, Doc
<1>10. QED BY <1>8, <1>9 DEF NumberInv

LEMMA NumberBetween ==
  ASSUME Typed, NumberInv, NEW r \in Req, Between(r)
  PROVE  NumberInv'
<1>1. /\ UNCHANGED <<task, num, number, counter>>
      /\ \A q \in Req : pc'[q] \in {"idle", "number"} => pc[q] \in {"idle", "number"}
  BY BetweenSteps DEF docVars, Typed
<1>2. QED
  BY <1>1 DEF NumberInv, ClaimedOnce, NumbersHeld, Holds, Doc

LEMMA NumberWrite ==
  ASSUME Typed, NumberInv, NEW r \in Req, WriteDoc(r)
  PROVE  NumberInv'
<1>1. /\ UNCHANGED <<task, num, counter>>
      /\ \A q \in Req : pc'[q] \in {"idle", "number"} => pc[q] \in {"idle", "number"}
  BY DEF WriteDoc, Ready, Goto, bookVars, Typed
<1>2. ClaimedOnce'
  BY <1>1 DEF NumberInv, ClaimedOnce, Holds, Doc
<1>3. number' = number \/ number' = [number EXCEPT ![Doc(r)] = num[r]]
  BY DEF WriteDoc, WriteSent, WriteVoid, WritePaid, WriteEdit, WriteDeleted
<1>4. NumbersHeld'
  BY <1>1, <1>3 DEF NumberInv, NumbersHeld, Doc, Typed
<1>5. QED BY <1>2, <1>4 DEF NumberInv

(* The atomic $inc of next_number is enough: no two documents of a kind     *)
(* ever carry one number, whatever sends overlap, fail or crash.            *)
THEOREM NumbersNeverShared == Spec => []NumbersUnique
<1>1. Init => Typed /\ NumberInv
  <2>1. Init => NumberInv
    BY DEF Init, NumberInv, ClaimedOnce, NumbersHeld, Holds
  <2>2. QED BY <2>1, InitTyped
<1>2. Typed /\ NumberInv /\ [Next]_vars => Typed' /\ NumberInv'
  <2> SUFFICES ASSUME Typed, NumberInv, [Next]_vars PROVE NumberInv'
    BY NextTyped
  <2>1. CASE (\E r \in Req : Crash(r)) \/ UNCHANGED vars
    BY <2>1, StillTyped DEF NumberInv, ClaimedOnce, NumbersHeld, Holds, Doc, docVars, bookVars
  <2>2. QED BY <2>1, StepsOfNext, NumberBegin, NumberClaim, NumberBetween, NumberWrite
<1>3. Typed /\ NumberInv => NumbersUnique
  BY NumberInvImplies
<1>4. QED BY <1>1, <1>2, <1>3, PTL DEF Spec
-----------------------------------------------------------------------------
(* Why nothing is overpaid although a payment is checked against a copy and *)
(* written later: without edits a total never changes, so what a payment    *)
(* will write stays within it, whatever was written in between.             *)
PaymentFits(r) ==
  pc[r] # "idle" /\ Asked(r, "pay") => seen[r].paid + task[r].arg <= total[Doc(r)]

PaidInv == PaidWithinTotal /\ \A r \in Req : PaymentFits(r)

LEMMA PaidBegin ==
  ASSUME Typed, PaidInv, NEW r \in Req, Begin(r)
  PROVE  PaidInv'
<1>1. PICK op \in Ops, d \in Docs, arg \in Totals \cup Amounts \cup {0} :
        /\ Accepts(op, d, arg)
        /\ task' = [task EXCEPT ![r] = [op |-> op, doc |-> d, arg |-> arg]]
        /\ seen' = [seen EXCEPT ![r] =
                      [status |-> status[d], total |-> total[d], paid |-> paid[d]]]
        /\ pc' = [pc EXCEPT ![r] = FirstStep(op)]
  BY DEF Begin, Goto
<1>2. UNCHANGED <<total, paid>>
  BY DEF Begin, docVars
<1>3. PaidWithinTotal'
  BY <1>2 DEF PaidInv, PaidWithinTotal
<1>4. op = "pay" => arg <= total[d] - paid[d] /\ arg \in Nat
  BY <1>1, TotalsAssumption DEF Accepts, CanPay
<1>5. PaymentFits(r)'
  <2>1. /\ task'[r].op = op /\ task'[r].doc = d /\ task'[r].arg = arg
        /\ seen'[r].paid = paid[d]
    BY <1>1 DEF Typed
  <2>2. total[d] \in Nat /\ paid[d] \in Nat
    BY DEF Typed
  <2>3. QED BY <1>2, <1>4, <2>1, <2>2 DEF PaymentFits, Asked, Doc
<1>6. \A q \in Req \ {r} : PaymentFits(q)'
  BY <1>1, <1>2 DEF PaidInv, PaymentFits, Asked, Doc, Typed
<1>7. QED BY <1>3, <1>5, <1>6 DEF PaidInv

(* Every other step of a handler but its last write: totals, paid amounts   *)
(* and the copies stay as they are.                                         *)
LEMMA PaidKept ==
  ASSUME PaidInv, UNCHANGED <<task, seen, total, paid>>,
         \A r \in Req : pc'[r] # "idle" => pc[r] # "idle"
  PROVE  PaidInv'
BY DEF PaidInv, PaidWithinTotal, PaymentFits, Asked, Doc

LEMMA PaidWrite ==
  ASSUME Typed, PaidInv, "edit" \notin Ops, NEW r \in Req, WriteDoc(r)
  PROVE  PaidInv'
<1>1. /\ UNCHANGED <<task, seen>>
      /\ pc[r] = "write" /\ \A q \in Req : pc'[q] # "idle" => pc[q] # "idle"
  BY DEF WriteDoc, Ready, Goto, Typed
<1>2. /\ Doc(r) \in Docs /\ task[r].op # "edit" /\ task[r].arg \in Nat
      /\ seen[r].paid \in Nat
  BY <1>1 DEF Typed, OnTask, Tasks, Doc
<1>3. CASE WritePaid(r)
  <2>1. /\ paid' = [paid EXCEPT ![Doc(r)] = seen[r].paid + task[r].arg]
        /\ UNCHANGED total
        /\ seen[r].paid + task[r].arg <= total[Doc(r)]
    BY <1>1, <1>3 DEF WritePaid, PaidInv, PaymentFits
  <2>2. PaidWithinTotal'
    BY <2>1 DEF PaidInv, PaidWithinTotal, Typed
  <2>3. QED BY <1>1, <2>1, <2>2 DEF PaidInv, PaymentFits, Asked, Doc
<1>4. CASE WriteSent(r) \/ WriteVoid(r) \/ WriteDeleted(r)
  <2>1. UNCHANGED <<total, paid>>
    BY <1>4 DEF WriteSent, WriteVoid, WriteDeleted
  <2>2. QED BY <1>1, <2>1, PaidKept
<1>5. QED BY <1>2, <1>3, <1>4 DEF WriteDoc, WriteEdit, Asked

(* Payments that overlap each other, a void or a send never bring the paid  *)
(* amount over the total - as long as no edit of the draft is still to be   *)
(* written.                                                                 *)
THEOREM NeverOverpaid ==
  ASSUME "edit" \notin Ops
  PROVE  Spec => []PaidWithinTotal
<1>1. Init => PaidInv
  <2> SUFFICES ASSUME Init PROVE PaidInv
    OBVIOUS
  <2>1. \A d \in Docs : paid[d] = 0 /\ total[d] \in Totals /\ total[d] \in Nat
    BY TotalsAssumption DEF Init
  <2>2. \A r \in Req : pc[r] = "idle"
    BY DEF Init
  <2>3. QED BY <2>1, <2>2 DEF PaidInv, PaidWithinTotal, PaymentFits
<1>2. Typed /\ PaidInv /\ [Next]_vars => Typed' /\ PaidInv'
  <2> SUFFICES ASSUME Typed, PaidInv, [Next]_vars PROVE PaidInv'
    BY NextTyped
  <2>1. ASSUME NEW r \in Req, ClaimNumber(r) \/ Between(r) PROVE PaidInv'
    <3>1. /\ UNCHANGED <<task, seen, total, paid>>
          /\ \A q \in Req : pc'[q] # "idle" => pc[q] # "idle"
      BY <2>1, BetweenSteps DEF ClaimNumber, Ready, Goto, docVars, Typed
    <3>2. QED BY <3>1, PaidKept
  <2>2. CASE (\E r \in Req : Crash(r)) \/ UNCHANGED vars
    BY <2>2, StillTyped, PaidKept DEF docVars
  <2>3. QED BY <2>1, <2>2, StepsOfNext, PaidBegin, PaidWrite
<1>3. PaidInv => PaidWithinTotal
  BY DEF PaidInv
<1>4. QED BY <1>1, <1>2, <1>3, InitTyped, PTL DEF Spec
-----------------------------------------------------------------------------
(***************************************************************************)
(* The books, while two requests never work on one document at once.  Why  *)
(* they agree with a document at rest: every entry is by a request that    *)
(* posted it once, for its own document; what the entries of requests that *)
(* are through add up to is what the document owes (Settled); and what a   *)
(* request decided on its copy still holds while it works, and what it     *)
(* wrote so far is exactly what its last write will account for (Through). *)
(* A request that dies leaves its document out of all this for good.       *)
(***************************************************************************)
(* The requests that post an entry, and those that did and go on.           *)
Posts(r)  == task[r].op \in {"send", "void", "pay"}
Posted(r) == Posts(r) /\ pc[r] \in {"mark", "payment", "write"}
Source(r) == IF Asked(r, "pay") THEN "payment" ELSE "document"
Postings  == [doc : Docs, source : {"document", "payment"}, amount : Int,
              by : Req, reverses : Nat]

(* No document is worked on twice. *)
OneRequest ==
  \A q, r \in Req : Busy(q) /\ Busy(r) /\ Doc(q) = Doc(r) => q = r

(* The journal: who posted an entry, for which document, and once. *)
Entered ==
  /\ journal \in Seq(Postings)
  /\ \A i \in DOMAIN journal :
       LET r == journal[i].by
       IN  /\ Posts(r) /\ pc[r] \in {"mark", "payment", "write", "ended"}
           /\ journal[i].doc = Doc(r) /\ journal[i].source = Source(r)
  /\ \A i, j \in DOMAIN journal : journal[i].by = journal[j].by => i = j
  /\ \A r \in Req : Posted(r) => \E i \in DOMAIN journal : journal[i].by = r

BookTypes ==
  /\ target \in [Req -> Nat]
  /\ \A r \in Req : pc[r] # "idle" /\ Asked(r, "void") => target[r] \in DOMAIN journal
  /\ received \in [Docs -> Int] /\ shipped \in [Docs -> Int]
  /\ dead \subseteq {r \in Req : pc[r] # "idle"}

(* The entries of d by requests that are through, and those of them that a  *)
(* void may reverse.                                                        *)
Done(d) == {i \in EntriesOf(d) : pc[journal[i].by] = "ended"}
Old(d)  == {i \in Reversible(d) : pc[journal[i].by] = "ended"}

(* What the documents say: what d owes, and how often its stock is issued.  *)
Outstanding(d) == IF status[d] \in {"draft", "void"} THEN 0 ELSE total[d] - paid[d]
Issued(d) == IF d \in Shipping /\ status[d] # "draft" THEN 1 ELSE 0

(* What r's entry amounts to, and how far the payments and the stock of its *)
(* document are ahead of the document until its last write.                 *)
Due(r) ==
  CASE Asked(r, "send") -> total[Doc(r)]
    [] Asked(r, "void") -> - total[Doc(r)]
    [] OTHER -> - task[r].arg
Ahead(r) == IF Asked(r, "pay") /\ pc[r] = "write" THEN task[r].arg ELSE 0
Moved(r) ==
  IF Asked(r, "send") /\ pc[r] \in {"entry", "write"} /\ Doc(r) \in Shipping THEN 1 ELSE 0

(* What r decided on its copy of d still holds of d ... *)
StillHolds(r, d) ==
  /\ d \in live
  /\ seen[r] = [status |-> status[d], total |-> total[d], paid |-> paid[d]]
  /\ task[r].op \in {"send", "edit", "delete"} => status[d] = "draft"
  /\ Asked(r, "edit") => task[r].arg \in Totals
  /\ Asked(r, "void") =>
       /\ d \notin Bills /\ status[d] = "sent" /\ paid[d] = 0
       /\ journal[target[r]].amount = total[d]
  /\ Asked(r, "pay") =>
       /\ status[d] \in {"sent", "partly_paid"} /\ task[r].arg \in Amounts
       /\ task[r].arg <= total[d] - paid[d]

(* ... and what it wrote so far is what its last write will account for.    *)
WroteItsPart(r, d) ==
  /\ pc[r] = "stock" => d \in Shipping
  /\ Posted(r) => \A i \in DOMAIN journal : journal[i].by = r => journal[i].amount = Due(r)
  /\ received[d] = paid[d] + Ahead(r)
  /\ shipped[d] = Issued(d) + Moved(r)

Through(r, d) == StillHolds(r, d) /\ WroteItsPart(r, d)

(* The document and its account. *)
Settled(d) ==
  /\ total[d] \in Totals
  /\ OwedSoFar[d] = Outstanding(d)
  /\ status[d] = "draft" => paid[d] = 0 /\ Old(d) = {}
  /\ status[d] \notin {"draft", "void"} =>
       status[d] = StatusFor(paid[d], total[d]) /\ paid[d] <= total[d]
  /\ status[d] # "void" => \A i \in Old(d) : journal[i].amount = total[d]

InOrder(d) ==
  /\ Settled(d)
  /\ \A r \in Req : Busy(r) /\ Doc(r) = d => Through(r, d)
  /\ ~ AtWork(d) => received[d] = paid[d] /\ shipped[d] = Issued(d)

(* Nobody was cut off on d. *)
Uncut(d) == \A r \in dead : Doc(r) # d

BookInv ==
  /\ Typed /\ BookTypes /\ OneRequest /\ Entered
  /\ \A d \in Docs : Uncut(d) => InOrder(d)
-----------------------------------------------------------------------------
(* The entries of a journal, and their amounts as quantities to add up.     *)
LEMMA PostingsOf ==
  ASSUME NEW J \in Seq(Postings)
  PROVE  /\ DOMAIN J = 1 .. Len(J) /\ Len(J) \in Nat /\ IsFiniteSet(DOMAIN J)
         /\ \A i \in DOMAIN J : J[i] \in Postings /\ J[i].by \in Req /\ J[i].amount \in Int
         /\ [i \in DOMAIN J |-> J[i].amount] \in [DOMAIN J -> Int]
<1>1. DOMAIN J = 1 .. Len(J) /\ Len(J) \in Nat
  OBVIOUS
<1>2. IsFiniteSet(DOMAIN J)
  BY <1>1, FS_Interval
<1>3. \A i \in DOMAIN J : J[i] \in Postings
  OBVIOUS
<1>4. \A i \in DOMAIN J : J[i].by \in Req /\ J[i].amount \in Int
  BY <1>3 DEF Postings
<1>5. QED BY <1>1, <1>2, <1>3, <1>4

LEMMA JournalTypes ==
  ASSUME Entered
  PROVE  /\ DOMAIN journal = 1 .. Len(journal) /\ Len(journal) \in Nat
         /\ IsFiniteSet(DOMAIN journal)
         /\ \A i \in DOMAIN journal :
              journal[i] \in Postings /\ journal[i].by \in Req /\ journal[i].amount \in Int
         /\ EntryAmount \in [DOMAIN journal -> Int]
         /\ \A d : Done(d) \in SUBSET DOMAIN journal /\ IsFiniteSet(Done(d))
<1>1. journal \in Seq(Postings)
  BY DEF Entered
<1>2. \A d : Done(d) \in SUBSET DOMAIN journal
  BY DEF Done, EntriesOf
<1>3. QED BY <1>1, <1>2, PostingsOf, FS_Subset DEF EntryAmount

(* What r's step may do to the journal: entries stay, but for the mark of a *)
(* reversal on its own, and new ones are its own.                           *)
Grows(r) ==
  /\ Entered'
  /\ \A i \in DOMAIN journal :
       /\ i \in DOMAIN journal'
       /\ journal'[i].doc = journal[i].doc /\ journal'[i].source = journal[i].source
       /\ journal'[i].amount = journal[i].amount /\ journal'[i].by = journal[i].by
       /\ journal[i].by # r => journal'[i] = journal[i]
  /\ \A i \in DOMAIN journal' : i \notin DOMAIN journal => journal'[i].by = r

Alone(r) == \A q \in Req \ {r} : pc'[q] = pc[q] /\ task'[q] = task[q]

(* An account changes only when a request with an entry ends.               *)
LEMMA AccountKept ==
  ASSUME Entered, NEW r \in Req, Grows(r), Alone(r), pc[r] # "ended",
         \A i \in DOMAIN journal' : journal'[i].by = r => pc'[r] # "ended",
         NEW d \in Docs
  PROVE  /\ OwedSoFar'[d] = OwedSoFar[d]
         /\ Old(d)' = Old(d)
         /\ \A i \in Old(d) : journal'[i].amount = journal[i].amount
<1>1. /\ EntryAmount \in [DOMAIN journal -> Int]
      /\ Done(d) \in SUBSET DOMAIN journal /\ IsFiniteSet(Done(d))
      /\ \A i \in DOMAIN journal : journal[i].by \in Req
  BY JournalTypes
<1>2. /\ EntryAmount' \in [DOMAIN journal' -> Int]
      /\ \A i \in DOMAIN journal' : journal'[i].by \in Req
  <2>1. journal' \in Seq(Postings)
    BY DEF Grows, Entered
  <2>2. QED BY <2>1, PostingsOf DEF EntryAmount
<1>3. \A i \in DOMAIN journal' :
        pc'[journal'[i].by] = "ended" => i \in DOMAIN journal /\ journal'[i] = journal[i]
                                         /\ pc[journal[i].by] = "ended"
  BY <1>2 DEF Grows, Alone
<1>4. \A i \in DOMAIN journal :
        pc[journal[i].by] = "ended" => i \in DOMAIN journal' /\ journal'[i] = journal[i]
                                         /\ pc'[journal'[i].by] = "ended"
  BY <1>1 DEF Grows, Alone
<1>5. Done(d)' = Done(d) /\ Old(d)' = Old(d)
  BY <1>3, <1>4 DEF Done, Old, Reversible, EntriesOf
<1>6. \A i \in Done(d) : EntryAmount'[i] = EntryAmount[i]
  BY <1>4 DEF EntryAmount, Done, EntriesOf
<1>7. Done(d) \subseteq DOMAIN journal'
  BY <1>4 DEF Done, EntriesOf
<1>8. Net(Done(d), EntryAmount') = Net(Done(d), EntryAmount)
  BY <1>1, <1>2, <1>6, <1>7, NetSame
<1>9. OwedSoFar[d] = Net(Done(d), EntryAmount) /\ OwedSoFar'[d] = Net(Done(d)', EntryAmount')
  BY DEF OwedSoFar, Done
<1>10. \A i \in Old(d) : journal'[i].amount = journal[i].amount
  BY <1>4 DEF Old, Reversible, EntriesOf
<1>11. QED BY <1>5, <1>8, <1>9, <1>10

(* A step of r that leaves the journal alone. *)
LEMMA EnteredKept ==
  ASSUME Entered, NEW r \in Req, Alone(r), UNCHANGED journal, pc[r] # "ended",
         pc[r] \in {"mark", "payment", "write"} =>
           task'[r] = task[r] /\ pc'[r] \in {"mark", "payment", "write", "ended"},
         Posted(r)' => Posted(r)
  PROVE  Entered' /\ Grows(r)
<1>1. \A i \in DOMAIN journal : journal[i].by \in Req
  BY JournalTypes
<1>2. ASSUME NEW i \in DOMAIN journal', NEW q, q = journal'[i].by
      PROVE  /\ Posts(q)' /\ pc'[q] \in {"mark", "payment", "write", "ended"}
             /\ journal'[i].doc = Doc(q)' /\ journal'[i].source = Source(q)'
  <2>1. q \in Req /\ i \in DOMAIN journal /\ journal' = journal
    BY <1>1, <1>2
  <2>2. /\ Posts(q) /\ pc[q] \in {"mark", "payment", "write", "ended"}
        /\ journal[i].doc = Doc(q) /\ journal[i].source = Source(q)
    BY <1>2, <2>1 DEF Entered
  <2>3. task'[q] = task[q] /\ pc'[q] \in {"mark", "payment", "write", "ended"}
    BY <2>1, <2>2 DEF Alone
  <2>4. QED BY <2>1, <2>2, <2>3 DEF Posts, Doc, Source, Asked
<1>3. ASSUME NEW q \in Req, Posted(q)' PROVE Posted(q)
  BY <1>3 DEF Posted, Posts, Alone
<1>4. Entered'
  BY <1>2, <1>3 DEF Entered
<1>5. QED BY <1>4 DEF Grows

(* r posts its entry. *)
LEMMA EnteredPost ==
  ASSUME Typed, BookTypes, Entered, NEW r \in Req, PostEntry(r)
  PROVE  /\ Entered' /\ Grows(r)
         /\ \A i \in DOMAIN journal' : journal'[i].by = r => journal'[i] = Posting(r)
<1> DEFINE e == Posting(r)
           n == Len(journal) + 1
<1>1. /\ pc[r] = "entry" /\ task[r] \in Tasks /\ Doc(r) \in Docs
      /\ seen[r].total \in Int /\ task[r].arg \in Int
      /\ Asked(r, "send") \/ Asked(r, "void") \/ Asked(r, "pay")
  BY DEF PostEntry, Ready, Typed, OnTask, Tasks, Doc
<1>2. Asked(r, "void") => journal[target[r]].amount \in Int
  BY <1>1, JournalTypes DEF BookTypes
<1>3. /\ e \in Postings /\ e.by = r /\ e.doc = Doc(r) /\ e.source = Source(r)
      /\ Posts(r)
  <2>1. CASE Asked(r, "send")
    BY <1>1, <2>1 DEF Posting, Entry, Asked, Source, Postings, Posts
  <2>2. CASE Asked(r, "void")
    BY <1>1, <1>2, <2>2 DEF Posting, Entry, Asked, Source, Postings, Posts
  <2>3. CASE Asked(r, "pay")
    BY <1>1, <2>3 DEF Posting, Entry, Asked, Source, Postings, Posts
  <2>4. QED BY <1>1, <2>1, <2>2, <2>3
<1>4. /\ journal' = Append(journal, e) /\ UNCHANGED task
      /\ pc' = [pc EXCEPT ![r] = AfterPosting(r)]
      /\ AfterPosting(r) \in {"mark", "payment", "write"}
  BY <1>1 DEF PostEntry, Goto, AfterPosting, Asked
<1> HIDE DEF e
<1>5. /\ journal \in Seq(Postings) /\ DOMAIN journal = 1 .. Len(journal)
      /\ Len(journal) \in Nat /\ \A i \in DOMAIN journal : journal[i].by \in Req
  BY JournalTypes DEF Entered
<1>6. /\ journal' \in Seq(Postings)
      /\ DOMAIN journal' = (DOMAIN journal) \cup {n} /\ n \notin DOMAIN journal
      /\ journal'[n] = e /\ \A i \in DOMAIN journal : journal'[i] = journal[i]
  BY <1>3, <1>4, <1>5
<1> HIDE DEF n
<1>7. \A i \in DOMAIN journal : journal[i].by # r
  BY <1>1 DEF Entered
<1>8. /\ pc'[r] \in {"mark", "payment", "write"}
      /\ \A q \in Req : q # r => pc'[q] = pc[q]
  BY <1>4 DEF Typed
<1>9. Entered'
  <2>1. ASSUME NEW i \in DOMAIN journal', NEW q, q = journal'[i].by
        PROVE  /\ Posts(q)' /\ pc'[q] \in {"mark", "payment", "write", "ended"}
               /\ journal'[i].doc = Doc(q)' /\ journal'[i].source = Source(q)'
    <3>1. CASE i = n
      <4>1. q = r /\ journal'[i] = e
        BY <1>3, <1>6, <2>1, <3>1
      <4>2. QED BY <1>3, <1>4, <1>8, <4>1 DEF Posts, Doc, Source, Asked
    <3>2. CASE i # n
      <4>1. i \in DOMAIN journal /\ journal'[i] = journal[i] /\ q \in Req /\ q # r
        BY <1>5, <1>6, <1>7, <2>1, <3>2
      <4>2. /\ Posts(q) /\ pc[q] \in {"mark", "payment", "write", "ended"}
            /\ journal[i].doc = Doc(q) /\ journal[i].source = Source(q)
        BY <2>1, <4>1 DEF Entered
      <4>3. QED BY <1>4, <1>8, <4>1, <4>2 DEF Posts, Doc, Source, Asked
    <3>3. QED BY <3>1, <3>2
  <2>2. \A i, j \in DOMAIN journal' : journal'[i].by = journal'[j].by => i = j
    BY <1>3, <1>6, <1>7 DEF Entered
  <2>3. ASSUME NEW q \in Req, Posted(q)' PROVE \E i \in DOMAIN journal' : journal'[i].by = q
    <3>1. CASE q = r
      BY <1>3, <1>6, <3>1
    <3>2. CASE q # r
      <4>1. Posted(q)
        BY <1>4, <1>8, <2>3, <3>2 DEF Posted, Posts
      <4>2. PICK i \in DOMAIN journal : journal[i].by = q
        BY <4>1 DEF Entered
      <4>3. QED BY <1>6, <4>2
    <3>3. QED BY <3>1, <3>2
  <2>4. QED BY <1>6, <2>1, <2>2, <2>3 DEF Entered
<1>10. Grows(r)
  BY <1>3, <1>6, <1>9 DEF Grows
<1>11. \A i \in DOMAIN journal' : journal'[i].by = r => journal'[i] = e
  BY <1>6, <1>7
<1>12. QED BY <1>9, <1>10, <1>11 DEF e

(* r marks its entry as the reversal of another. *)
LEMMA EnteredMark ==
  ASSUME Typed, BookTypes, Entered, NEW r \in Req, MarkReversal(r)
  PROVE  Entered' /\ Grows(r)
<1> DEFINE m == MyEntry(r)
<1>1. pc[r] = "mark" /\ Asked(r, "void") /\ target[r] \in Nat /\ Posted(r)
  BY DEF MarkReversal, Ready, Typed, OnTask, BookTypes, Asked, Posted, Posts
<1>2. m \in DOMAIN journal /\ journal[m].by = r
  BY <1>1 DEF Entered, MyEntry
<1>3. /\ journal' = [journal EXCEPT ![m].reverses = target[r]] /\ UNCHANGED task
      /\ pc' = [pc EXCEPT ![r] = "write"]
  BY DEF MarkReversal, Goto
<1> HIDE DEF m
<1>4. /\ journal \in Seq(Postings) /\ DOMAIN journal = 1 .. Len(journal)
      /\ \A i \in DOMAIN journal : journal[i] \in Postings /\ journal[i].by \in Req
  BY JournalTypes DEF Entered
<1>5. [journal[m] EXCEPT !.reverses = target[r]] \in Postings
  BY <1>1, <1>2, <1>4 DEF Postings
<1>6. journal' \in Seq(Postings) /\ DOMAIN journal' = DOMAIN journal
  BY <1>2, <1>3, <1>4, <1>5
<1>7. \A i \in DOMAIN journal :
        /\ journal'[i].doc = journal[i].doc /\ journal'[i].source = journal[i].source
        /\ journal'[i].amount = journal[i].amount /\ journal'[i].by = journal[i].by
        /\ journal[i].by # r => journal'[i] = journal[i]
  BY <1>2, <1>3, <1>4 DEF Postings
<1>8. /\ pc'[r] = "write" /\ \A q \in Req : q # r => pc'[q] = pc[q]
  BY <1>3 DEF Typed
<1>9. ASSUME NEW i \in DOMAIN journal', NEW q, q = journal'[i].by
      PROVE  /\ Posts(q)' /\ pc'[q] \in {"mark", "payment", "write", "ended"}
             /\ journal'[i].doc = Doc(q)' /\ journal'[i].source = Source(q)'
  <2>1. i \in DOMAIN journal /\ q = journal[i].by /\ q \in Req
    BY <1>4, <1>6, <1>7, <1>9
  <2>2. /\ Posts(q) /\ pc[q] \in {"mark", "payment", "write", "ended"}
        /\ journal[i].doc = Doc(q) /\ journal[i].source = Source(q)
    BY <2>1 DEF Entered
  <2>3. QED BY <1>3, <1>7, <1>8, <2>1, <2>2 DEF Posts, Doc, Source, Asked
<1>10. \A i, j \in DOMAIN journal' : journal'[i].by = journal'[j].by => i = j
  BY <1>6, <1>7 DEF Entered
<1>11. ASSUME NEW q \in Req, Posted(q)' PROVE \E i \in DOMAIN journal' : journal'[i].by = q
  <2>1. Posted(q)
    BY <1>1, <1>3, <1>8, <1>11 DEF Posted, Posts
  <2>2. PICK i \in DOMAIN journal : journal[i].by = q
    BY <2>1 DEF Entered
  <2>3. QED BY <1>6, <1>7, <2>2
<1>12. Entered'
  BY <1>6, <1>9, <1>10, <1>11 DEF Entered
<1>13. QED BY <1>6, <1>7, <1>12 DEF Grows

-----------------------------------------------------------------------------
(* What a step leaves as it was for the document d and for the requests     *)
(* other than r.                                                            *)
DocSame(d) ==
  /\ status'[d] = status[d] /\ total'[d] = total[d] /\ paid'[d] = paid[d]
  /\ d \in live' <=> d \in live

AccountSame(d) ==
  /\ OwedSoFar'[d] = OwedSoFar[d] /\ Old(d)' = Old(d)
  /\ \A i \in Old(d) : journal'[i].amount = journal[i].amount

Elsewhere(r) ==
  /\ Alone(r) /\ dead' = dead
  /\ \A q \in Req \ {r} : seen'[q] = seen[q] /\ target'[q] = target[q]

(* Nothing of d changes. *)
LEMMA SettledKept ==
  ASSUME NEW d \in Docs, Settled(d), DocSame(d), AccountSame(d)
  PROVE  Settled(d)'
BY DEF Settled, DocSame, AccountSame, Outstanding, StatusFor

(* What a request decided holds as long as its document is left alone.      *)
LEMMA StillHoldsKept ==
  ASSUME BookTypes, NEW r \in Req, Grows(r), NEW d \in Docs, DocSame(d), NEW q \in Req,
         task'[q] = task[q], seen'[q] = seen[q], target'[q] = target[q],
         pc[q] # "idle", StillHolds(q, d)
  PROVE  StillHolds(q, d)'
<1>1. Asked(q, "void") => journal'[target'[q]].amount = journal[target[q]].amount
  BY DEF BookTypes, Grows
<1>2. /\ d \in live'
      /\ seen'[q] = [status |-> status'[d], total |-> total'[d], paid |-> paid'[d]]
      /\ task'[q].op \in {"send", "edit", "delete"} => status'[d] = "draft"
  BY DEF StillHolds, DocSame
<1>3. /\ Asked(q, "edit")' => task'[q].arg \in Totals
      /\ Asked(q, "pay")' =>
           /\ status'[d] \in {"sent", "partly_paid"} /\ task'[q].arg \in Amounts
           /\ task'[q].arg <= total'[d] - paid'[d]
  BY DEF StillHolds, DocSame, Asked
<1>4. Asked(q, "void")' =>
        /\ d \notin Bills /\ status'[d] = "sent" /\ paid'[d] = 0
        /\ journal'[target'[q]].amount = total'[d]
  BY <1>1 DEF StillHolds, DocSame, Asked
<1>5. QED BY <1>2, <1>3, <1>4 DEF StillHolds

(* A step of r for one document keeps every other in order.                 *)
LEMMA OthersKept ==
  ASSUME Entered, BookTypes, NEW r \in Req, Grows(r), Elsewhere(r),
         NEW d \in Docs, DocSame(d), AccountSame(d),
         received'[d] = received[d], shipped'[d] = shipped[d],
         Busy(r) => Doc(r) # d, Busy(r)' => Doc(r)' # d,
         InOrder(d)
  PROVE  InOrder(d)'
<1>1. Settled(d)'
  BY SettledKept DEF InOrder
<1>2. \A q \in Req : (Busy(q) /\ Doc(q) = d)' <=> (Busy(q) /\ Doc(q) = d)
  BY DEF Elsewhere, Alone, Busy, Doc
<1>3. AtWork(d)' <=> AtWork(d)
  BY <1>2 DEF AtWork
<1>4. ASSUME NEW q \in Req, Busy(q)', Doc(q)' = d PROVE Through(q, d)'
  <2>1. q # r /\ Through(q, d)
    BY <1>2, <1>4 DEF InOrder
  <2>2. /\ pc'[q] = pc[q] /\ task'[q] = task[q] /\ seen'[q] = seen[q]
        /\ target'[q] = target[q] /\ Doc(q) = d /\ pc[q] # "idle"
    BY <1>2, <1>4, <2>1 DEF Elsewhere, Alone, Busy
  <2>3. StillHolds(q, d)'
    BY <2>1, <2>2, StillHoldsKept DEF Through
  <2>4. /\ Due(q)' = Due(q) /\ Ahead(q)' = Ahead(q) /\ Moved(q)' = Moved(q)
        /\ Issued(d)' = Issued(d) /\ Posted(q)' = Posted(q)
    BY <2>2 DEF Due, Ahead, Moved, Issued, Posted, Posts, Asked, Doc, DocSame
  <2>5. Posted(q)' => \A i \in DOMAIN journal' : journal'[i].by = q => journal'[i].amount = Due(q)'
    <3> SUFFICES ASSUME Posted(q)', NEW i \in DOMAIN journal', journal'[i].by = q
                 PROVE  journal'[i].amount = Due(q)'
      OBVIOUS
    <3>1. i \in DOMAIN journal /\ journal[i].by = q /\ journal'[i].amount = journal[i].amount
      BY <2>1 DEF Grows
    <3>2. Posted(q) => journal[i].amount = Due(q)
      BY <2>1, <3>1 DEF Through, StillHolds, WroteItsPart
    <3>3. QED BY <2>4, <3>1, <3>2
  <2>6. pc'[q] = "stock" => d \in Shipping
    BY <2>1, <2>2 DEF Through, WroteItsPart
  <2>7. /\ received'[d] = paid'[d] + Ahead(q)'
        /\ shipped'[d] = Issued(d)' + Moved(q)'
    BY <2>1, <2>4 DEF Through, StillHolds, WroteItsPart, DocSame
  <2>8. QED BY <2>3, <2>5, <2>6, <2>7 DEF Through, WroteItsPart
<1>5. Issued(d)' = Issued(d)
  BY DEF Issued, DocSame
<1>6. QED BY <1>1, <1>3, <1>4, <1>5 DEF InOrder, DocSame

(* r works on d alone. *)
LEMMA OwnKept ==
  ASSUME NEW r \in Req, NEW d \in Docs, Settled(d)',
         \A q \in Req : (Busy(q) /\ Doc(q) = d)' => q = r,
         Busy(r)' => Through(r, d)',
         ~ Busy(r)' => (received[d] = paid[d] /\ shipped[d] = Issued(d))',
         (Doc(r) = d)'
  PROVE  InOrder(d)'
BY DEF InOrder, AtWork

(* A request that goes on with its document stays the only one on it.       *)
LEMMA OneRequestKept ==
  ASSUME OneRequest, NEW r \in Req, Elsewhere(r), task'[r] = task[r], Busy(r)' => Busy(r)
  PROVE  /\ OneRequest'
         /\ Busy(r) => \A q \in Req : (Busy(q) /\ Doc(q) = Doc(r))' => q = r
<1>1. \A q \in Req : Busy(q)' => Busy(q)
  BY DEF Elsewhere, Alone, Busy
<1>2. \A q \in Req : Doc(q)' = Doc(q)
  BY DEF Elsewhere, Alone, Doc
<1>3. QED BY <1>1, <1>2 DEF OneRequest

(* The entry void_invoice looks up exists if there is one to reverse.       *)
LEMMA FirstReversible ==
  ASSUME Entered, NEW d \in Docs, Reversible(d) # {}
  PROVE  ToReverse("void", d) \in Reversible(d)
<1> DEFINE S == Reversible(d)
           R == OpToRel(<, Nat)
<1>1. S \in SUBSET Nat
  <2>1. DOMAIN journal \subseteq Nat
    BY JournalTypes
  <2>2. QED BY <2>1 DEF Reversible, EntriesOf
<1>2. IsWellFoundedOn(R, Nat)
  BY NatLessThanWellFounded
<1>3. \A y, z \in Nat : y < z => <<y, z>> \in R
  BY DEF OpToRel
<1> HIDE DEF S, R
<1>4. PICK x \in S : \A y \in S : ~ (<<y, x>> \in R)
  <2>1. S # {}
    BY DEF S
  <2>2. QED BY <1>1, <1>2, <2>1, WFMin
<1>5. \A n \in S : ~ (n < x)
  BY <1>1, <1>3, <1>4, Zenon
<1>6. \A n \in S : x <= n
  BY <1>1, <1>5
<1>7. (CHOOSE i \in S : \A j \in S : i <= j) \in S
  BY <1>6
<1>8. QED BY <1>7 DEF ToReverse, S

(* Every step of r up to its last write: no document and no account changes. *)
LEMMA BeforeWrite ==
  ASSUME Typed, BookTypes, Entered, NEW r \in Req,
         Begin(r) \/ ClaimNumber(r) \/ Between(r)
  PROVE  /\ BookTypes' /\ Entered' /\ Grows(r) /\ Elsewhere(r)
         /\ \A d \in Docs : DocSame(d) /\ AccountSame(d)
         /\ ~ Begin(r) => /\ task'[r] = task[r] /\ seen'[r] = seen[r]
                          /\ target'[r] = target[r] /\ Busy(r)
<1>1. /\ dead' = dead /\ r \notin dead /\ UNCHANGED docVars
      /\ \A q \in Req \ {r} : /\ pc'[q] = pc[q] /\ task'[q] = task[q]
                              /\ seen'[q] = seen[q] /\ target'[q] = target[q]
  <2>1. CASE Begin(r)
    BY <2>1 DEF Begin, Goto, Ready, Typed, BookTypes
  <2>2. CASE ClaimNumber(r)
    BY <2>2 DEF ClaimNumber, Goto, Ready, Typed
  <2>3. CASE Between(r)
    BY <2>3 DEF Between, IssueStock, StockShort, PostEntry, PostingRaises, MarkReversal,
                InsertPayment, Goto, Ready, Typed
  <2>4. QED BY <2>1, <2>2, <2>3
<1>2. Elsewhere(r) /\ Alone(r) /\ \A d \in Docs : DocSame(d)
  BY <1>1 DEF Elsewhere, Alone, DocSame, docVars
<1>3. pc[r] \notin {"ended", "write"} /\ pc'[r] # "idle"
  <2>1. CASE Begin(r)
    BY <2>1 DEF Begin, Goto, Ready, FirstStep, Typed
  <2>2. CASE ClaimNumber(r)
    BY <2>2 DEF ClaimNumber, Goto, Ready, Typed
  <2>3. CASE Between(r)
    BY <2>3, BetweenSteps DEF Between, IssueStock, StockShort, PostEntry, PostingRaises,
       MarkReversal, InsertPayment, Ready, Typed
  <2>4. QED BY <2>1, <2>2, <2>3
<1>4. ~ Begin(r) => /\ task'[r] = task[r] /\ seen'[r] = seen[r]
                    /\ target'[r] = target[r] /\ Busy(r) /\ UNCHANGED <<task, seen, target>>
  <2>1. CASE ClaimNumber(r)
    BY <1>1, <2>1 DEF ClaimNumber, Ready, Busy
  <2>2. CASE Between(r)
    <3>1. UNCHANGED <<task, seen, target>>
      BY <2>2 DEF Between, IssueStock, StockShort, PostEntry, PostingRaises,
                  MarkReversal, InsertPayment
    <3>2. Busy(r)
      BY <1>1, <2>2 DEF Between, IssueStock, StockShort, PostEntry, PostingRaises,
                        MarkReversal, InsertPayment, Ready, Busy
    <3>3. QED BY <3>1, <3>2
  <2>3. QED BY <2>1, <2>2
<1>5. Entered' /\ Grows(r)
  <2>1. CASE PostEntry(r)
    BY <2>1, EnteredPost
  <2>2. CASE MarkReversal(r)
    BY <2>2, EnteredMark
  <2>3. CASE ~ PostEntry(r) /\ ~ MarkReversal(r)
    <3>1. UNCHANGED journal
      BY <2>3 DEF Begin, ClaimNumber, Between, IssueStock, StockShort, PostingRaises,
                  InsertPayment, bookVars
    <3>2. /\ pc[r] \in {"mark", "payment", "write"} =>
                task'[r] = task[r] /\ pc'[r] \in {"mark", "payment", "write", "ended"}
          /\ Posted(r)' => Posted(r)
      <4>1. CASE Begin(r)
        <5>1. pc[r] = "idle" /\ pc'[r] \in {"number", "entry", "write"}
          BY <4>1 DEF Begin, Goto, Ready, FirstStep, Typed
        <5>2. pc'[r] = "write" => ~ Posts(r)'
          <6>1. PICK op \in Ops, d \in Docs, arg \in Totals \cup Amounts \cup {0} :
                  /\ task' = [task EXCEPT ![r] = [op |-> op, doc |-> d, arg |-> arg]]
                  /\ pc' = [pc EXCEPT ![r] = FirstStep(op)]
            BY <4>1 DEF Begin, Goto
          <6>2. task'[r].op = op /\ pc'[r] = FirstStep(op)
            BY <6>1 DEF Typed
          <6>3. QED BY <6>2 DEF FirstStep, Posts
        <5>3. QED BY <5>1, <5>2 DEF Posted
      <4>2. CASE ClaimNumber(r) \/ IssueStock(r)
        <5>1. pc[r] \in {"number", "stock"} /\ pc'[r] \in {"stock", "entry"}
          BY <4>2 DEF ClaimNumber, IssueStock, Goto, Ready, Typed
        <5>2. QED BY <5>1 DEF Posted
      <4>3. CASE StockShort(r) \/ PostingRaises(r)
        <5>1. pc[r] \in {"stock", "entry"} /\ pc'[r] = "ended"
          BY <4>3 DEF StockShort, PostingRaises, Goto, Ready, Typed
        <5>2. QED BY <5>1 DEF Posted
      <4>4. CASE InsertPayment(r)
        <5>1. pc[r] = "payment" /\ pc'[r] = "write" /\ Asked(r, "pay") /\ task'[r] = task[r]
          BY <4>4 DEF InsertPayment, Goto, Ready, Typed, OnTask
        <5>2. QED BY <5>1 DEF Posted, Posts, Asked
      <4>5. QED BY <2>3, <4>1, <4>2, <4>3, <4>4 DEF Between
    <3>3. QED BY <1>2, <1>3, <3>1, <3>2, EnteredKept
  <2>4. QED BY <2>1, <2>2, <2>3
<1>6. ASSUME NEW i \in DOMAIN journal', journal'[i].by = r PROVE pc'[r] # "ended"
  <2>1. CASE StockShort(r) \/ PostingRaises(r)
    <3>1. UNCHANGED journal /\ pc[r] \in {"stock", "entry"}
      BY <2>1 DEF StockShort, PostingRaises, bookVars, Ready
    <3>2. QED BY <1>6, <3>1 DEF Entered
  <2>2. CASE Begin(r) \/ ClaimNumber(r) \/ IssueStock(r) \/ MarkReversal(r) \/ InsertPayment(r)
    BY <2>2 DEF Begin, ClaimNumber, IssueStock, MarkReversal, InsertPayment, Goto,
                FirstStep, Typed
  <2>3. CASE PostEntry(r)
    <3>1. pc' = [pc EXCEPT ![r] = AfterPosting(r)]
          /\ (Asked(r, "send") \/ Asked(r, "void") \/ Asked(r, "pay"))
      BY <2>3 DEF PostEntry, Goto, Ready, Typed, OnTask
    <3>2. QED BY <3>1 DEF AfterPosting, Asked, Typed
  <2>4. QED BY <2>1, <2>2, <2>3 DEF Between
<1>7. \A d \in Docs : AccountSame(d)
  BY <1>2, <1>3, <1>5, <1>6, AccountKept DEF AccountSame
<1>8. BookTypes'
  <2>1. target' \in [Req -> Nat]
        /\ \A q \in Req : pc'[q] # "idle" /\ Asked(q, "void")' => target'[q] \in DOMAIN journal'
    <3>1. CASE Begin(r)
      <4>1. PICK op \in Ops, d \in Docs, arg \in Totals \cup Amounts \cup {0} :
              /\ op = "void" => Reversible(d) # {}
              /\ task' = [task EXCEPT ![r] = [op |-> op, doc |-> d, arg |-> arg]]
              /\ target' = [target EXCEPT ![r] = ToReverse(op, d)]
        BY <3>1 DEF Begin
      <4>2. task'[r].op = op
        BY <4>1 DEF Typed
      <4>3. ToReverse(op, d) \in Nat /\ (op = "void" => ToReverse(op, d) \in DOMAIN journal)
        <5>1. CASE op = "void"
          <6>1. ToReverse("void", d) \in Reversible(d)
            BY <4>1, <5>1, FirstReversible
          <6>2. DOMAIN journal \subseteq Nat
            BY JournalTypes
          <6>3. QED BY <5>1, <6>1, <6>2 DEF Reversible, EntriesOf
        <5>2. CASE op # "void"
          BY <5>2 DEF ToReverse
        <5>3. QED BY <5>1, <5>2
      <4>4. target' \in [Req -> Nat] /\ target'[r] = ToReverse(op, d)
        BY <4>1, <4>3 DEF BookTypes
      <4>5. journal' = journal
        BY <3>1 DEF Begin, bookVars
      <4>6. ASSUME NEW q \in Req, pc'[q] # "idle", Asked(q, "void")'
            PROVE  target'[q] \in DOMAIN journal'
        <5>1. CASE q = r
          BY <4>2, <4>3, <4>4, <4>5, <4>6, <5>1 DEF Asked
        <5>2. CASE q # r
          BY <1>1, <4>5, <4>6, <5>2 DEF Asked, BookTypes
        <5>3. QED BY <5>1, <5>2
      <4>7. QED BY <4>4, <4>6
    <3>2. CASE ~ Begin(r)
      <4>1. UNCHANGED <<task, target>> /\ pc[r] # "idle"
        BY <1>4, <3>2 DEF Busy
      <4>2. \A q \in Req : pc'[q] # "idle" => pc[q] # "idle"
        BY <1>1, <4>1
      <4>3. DOMAIN journal \subseteq DOMAIN journal'
        BY <1>5 DEF Grows
      <4>4. QED BY <4>1, <4>2, <4>3 DEF BookTypes, Asked
    <3>3. QED BY <3>1, <3>2
  <2>2. received' \in [Docs -> Int] /\ shipped' \in [Docs -> Int]
    <3>1. CASE ~ IssueStock(r) /\ ~ PostingRaises(r) /\ ~ InsertPayment(r)
      BY <3>1 DEF BookTypes, Begin, ClaimNumber, Between, StockShort, PostEntry,
                  MarkReversal, bookVars
    <3>2. CASE IssueStock(r) \/ PostingRaises(r)
      BY <3>2 DEF BookTypes, IssueStock, PostingRaises
    <3>3. CASE InsertPayment(r)
      <4>1. task[r].arg \in Int /\ Doc(r) \in Docs
        BY <3>3 DEF InsertPayment, Ready, Typed, OnTask, Tasks, Doc
      <4>2. /\ UNCHANGED shipped
            /\ received' = [received EXCEPT ![Doc(r)] = received[Doc(r)] + task[r].arg]
        BY <3>3 DEF InsertPayment
      <4>3. received[Doc(r)] + task[r].arg \in Int
        BY <4>1 DEF BookTypes
      <4>4. QED BY <4>2, <4>3 DEF BookTypes
    <3>4. QED BY <3>1, <3>2, <3>3
  <2>3. dead' \subseteq {q \in Req : pc'[q] # "idle"}
    BY <1>1, <1>3 DEF BookTypes
  <2>4. QED BY <2>1, <2>2, <2>3 DEF BookTypes
<1>9. QED BY <1>2, <1>4, <1>5, <1>7, <1>8

(* The steps of r up to its last write keep its part of the books of its    *)
(* own document; when it ends early, it leaves them as they were.           *)
LEMMA WroteMore ==
  ASSUME Typed, BookTypes, Entered, NEW r \in Req, NEW d \in Docs, Doc(r) = d,
         ClaimNumber(r) \/ Between(r), Through(r, d), DocSame(d), Grows(r),
         dead' = dead
  PROVE  /\ Busy(r)' => WroteItsPart(r, d)'
         /\ ~ Busy(r)' => received'[d] = paid'[d] /\ shipped'[d] = Issued(d)'
<1>1. /\ received \in [Docs -> Int] /\ shipped \in [Docs -> Int]
      /\ Issued(d)' = Issued(d) /\ Issued(d) \in Int
      /\ paid'[d] = paid[d] /\ paid[d] \in Int
      /\ received[d] = paid[d] + Ahead(r)
      /\ shipped[d] = Issued(d) + Moved(r)
  BY DEF BookTypes, Typed, DocSame, Issued, Through, WroteItsPart
<1>2. CASE ClaimNumber(r)
  <2>1. /\ pc[r] = "number" /\ task' = task /\ received' = received /\ shipped' = shipped
        /\ pc'[r] = IF d \in Shipping THEN "stock" ELSE "entry"
    BY <1>2 DEF ClaimNumber, Ready, Goto, Typed
  <2>2. Ahead(r) = 0 /\ Ahead(r)' = 0 /\ Moved(r) = 0 /\ Moved(r)' = 0
    BY <2>1 DEF Ahead, Moved, Doc
  <2>3. ~ Posted(r)' /\ Busy(r)'
    BY <1>2, <2>1 DEF Posted, Busy, ClaimNumber, Ready
  <2>4. QED BY <1>1, <2>1, <2>2, <2>3 DEF WroteItsPart
<1>3. CASE IssueStock(r)
  <2>1. /\ pc[r] = "stock" /\ pc'[r] = "entry" /\ task' = task /\ received' = received
        /\ Asked(r, "send") /\ d \in Shipping
        /\ shipped'[d] = shipped[d] + 1
    BY <1>1, <1>3 DEF IssueStock, Ready, Goto, Typed, OnTask, Through, WroteItsPart
  <2>2. Ahead(r) = 0 /\ Ahead(r)' = 0 /\ Moved(r) = 0 /\ Moved(r)' = 1
    BY <2>1 DEF Ahead, Moved, Doc, Asked
  <2>3. ~ Posted(r)' /\ Busy(r)'
    BY <1>3, <2>1 DEF Posted, Busy, IssueStock, Ready
  <2>4. QED BY <1>1, <2>1, <2>2, <2>3 DEF WroteItsPart
<1>4. CASE StockShort(r)
  <2>1. /\ pc[r] = "stock" /\ pc'[r] = "ended" /\ received' = received /\ shipped' = shipped
    BY <1>4 DEF StockShort, bookVars, Ready, Goto, Typed
  <2>2. Ahead(r) = 0 /\ Moved(r) = 0 /\ ~ Busy(r)'
    BY <2>1 DEF Ahead, Moved, Busy
  <2>3. QED BY <1>1, <2>1, <2>2
<1>5. CASE PostingRaises(r)
  <2>1. /\ pc[r] = "entry" /\ pc'[r] = "ended" /\ received' = received
        /\ shipped' = IF Asked(r, "send") /\ d \in Shipping
                       THEN [shipped EXCEPT ![d] = @ - 1] ELSE shipped
    BY <1>5 DEF PostingRaises, Ready, Goto, Typed
  <2>2. /\ Ahead(r) = 0 /\ ~ Busy(r)'
        /\ Moved(r) = IF Asked(r, "send") /\ d \in Shipping THEN 1 ELSE 0
    BY <2>1 DEF Ahead, Moved, Busy
  <2>3. shipped'[d] = shipped[d] - Moved(r)
    BY <1>1, <2>1, <2>2
  <2>4. QED BY <1>1, <2>1, <2>2, <2>3
<1>6. CASE InsertPayment(r)
  <2>1. /\ pc[r] = "payment" /\ pc'[r] = "write" /\ task' = task /\ shipped' = shipped
        /\ Asked(r, "pay") /\ task[r].arg \in Int
        /\ received' = [received EXCEPT ![d] = @ + task[r].arg]
    BY <1>6 DEF InsertPayment, Ready, Goto, Typed, OnTask, Tasks
  <2>2. Ahead(r) = 0 /\ Ahead(r)' = task[r].arg /\ Moved(r) = 0 /\ Moved(r)' = 0
    BY <2>1 DEF Ahead, Moved, Asked
  <2>3. /\ Posted(r) /\ Busy(r)' /\ journal' = journal /\ Due(r)' = - task[r].arg
        /\ Due(r) = - task[r].arg
    BY <1>6, <2>1 DEF Posted, Posts, Busy, InsertPayment, Ready, Due, Asked
  <2>4. \A i \in DOMAIN journal' : journal'[i].by = r => journal'[i].amount = Due(r)'
    BY <2>3 DEF Through, WroteItsPart
  <2>5. received'[d] = paid'[d] + Ahead(r)' /\ shipped'[d] = Issued(d)' + Moved(r)'
    <3>1. received'[d] = received[d] + task[r].arg
      BY <1>1, <2>1
    <3>2. QED BY <1>1, <2>1, <2>2, <3>1
  <2>6. pc'[r] # "stock"
    BY <2>1
  <2>7. QED BY <2>3, <2>4, <2>5, <2>6 DEF WroteItsPart
<1>7. CASE PostEntry(r)
  <2>1. /\ pc[r] = "entry" /\ pc'[r] = AfterPosting(r) /\ task' = task
        /\ received' = received /\ shipped' = shipped
        /\ Asked(r, "send") \/ Asked(r, "void") \/ Asked(r, "pay")
    BY <1>7 DEF PostEntry, Ready, Goto, Typed, OnTask
  <2>2. /\ Asked(r, "send") => pc'[r] = "write"
        /\ Asked(r, "void") => pc'[r] = "mark"
        /\ Asked(r, "pay") => pc'[r] = "payment"
    BY <2>1 DEF AfterPosting, Asked
  <2>3. Ahead(r) = 0 /\ Ahead(r)' = 0 /\ Moved(r)' = Moved(r)
    BY <2>1, <2>2 DEF Ahead, Moved, Asked, Doc
  <2>4. \A i \in DOMAIN journal' : journal'[i].by = r => journal'[i].amount = Posting(r).amount
    BY <1>7, EnteredPost
  <2>5. Posting(r).amount = Due(r)'
    <3>1. /\ seen[r].total = total[d]
          /\ Asked(r, "void") => journal[target[r]].amount = total[d]
          /\ total'[d] = total[d]
      BY DEF Through, StillHolds, DocSame
    <3>2. Doc(r)' = d
      BY <2>1 DEF Doc
    <3>3. /\ Asked(r, "send") => Posting(r).amount = seen[r].total /\ Due(r)' = total'[Doc(r)']
          /\ Asked(r, "void") => /\ Posting(r).amount = - journal[target[r]].amount
                                /\ Due(r)' = - total'[Doc(r)']
          /\ Asked(r, "pay") => Posting(r).amount = - task[r].arg /\ Due(r)' = - task[r].arg
      BY <2>1 DEF Posting, Entry, Due, Asked
    <3>4. QED BY <2>1, <3>1, <3>2, <3>3
  <2>6. pc'[r] # "stock"
    BY <2>1, <2>2
  <2>7. Busy(r)'
    BY <1>7, <2>1, <2>2 DEF PostEntry, Ready, Busy
  <2>8. QED BY <1>1, <2>1, <2>3, <2>4, <2>5, <2>6, <2>7 DEF WroteItsPart
<1>8. CASE MarkReversal(r)
  <2>1. /\ pc[r] = "mark" /\ pc'[r] = "write" /\ task' = task
        /\ received' = received /\ shipped' = shipped /\ Asked(r, "void")
    BY <1>8 DEF MarkReversal, Ready, Goto, Typed, OnTask
  <2>2. Ahead(r) = 0 /\ Ahead(r)' = 0 /\ Moved(r) = 0 /\ Moved(r)' = 0
    BY <2>1 DEF Ahead, Moved, Asked
  <2>3. Posted(r) /\ Busy(r)' /\ Due(r)' = Due(r)
    BY <1>8, <2>1 DEF Posted, Posts, Busy, MarkReversal, Ready, Due, Asked, Doc, docVars
  <2>4. DOMAIN journal' = DOMAIN journal
    BY <1>8 DEF MarkReversal
  <2>5. \A i \in DOMAIN journal' : journal'[i].by = r => journal'[i].amount = Due(r)'
    BY <2>3, <2>4 DEF Through, WroteItsPart, Grows
  <2>6. QED BY <1>1, <2>1, <2>2, <2>3, <2>5 DEF WroteItsPart
<1>9. QED BY <1>2, <1>3, <1>4, <1>5, <1>6, <1>7, <1>8 DEF Between

(* A document nobody works on and nobody was cut off on has only entries of *)
(* requests that are through.                                               *)
LEMMA AtRest ==
  ASSUME Entered, NEW d \in Docs, Undisturbed(d)
  PROVE  Done(d) = EntriesOf(d) /\ Old(d) = Reversible(d)
<1>1. ASSUME NEW i \in DOMAIN journal, journal[i].doc = d
      PROVE  pc[journal[i].by] = "ended"
  <2> DEFINE q == journal[i].by
  <2>1. /\ q \in Req /\ pc[q] \in {"mark", "payment", "write", "ended"} /\ Doc(q) = d
    BY <1>1, JournalTypes DEF Entered
  <2>2. q \notin dead /\ ~ Busy(q)
    BY <2>1 DEF Undisturbed, AtWork
  <2>3. QED BY <2>1, <2>2 DEF Busy
<1>2. QED BY <1>1 DEF Done, Old, Reversible, EntriesOf

(* What a request was asked, when it read d at rest. *)
LEMMA BeginHolds ==
  ASSUME Typed, BookTypes, Entered, NEW r \in Req, NEW d \in Docs,
         Begin(r), Doc(r)' = d, Undisturbed(d), Settled(d), Grows(r), DocSame(d)
  PROVE  StillHolds(r, d)'
<1>1. PICK op \in Ops, e \in Docs, arg \in Totals \cup Amounts \cup {0} :
        /\ Accepts(op, e, arg)
        /\ op = "void" => Reversible(e) # {}
        /\ task' = [task EXCEPT ![r] = [op |-> op, doc |-> e, arg |-> arg]]
        /\ seen' = [seen EXCEPT ![r] =
                      [status |-> status[e], total |-> total[e], paid |-> paid[e]]]
        /\ target' = [target EXCEPT ![r] = ToReverse(op, e)]
  BY DEF Begin
<1>2. /\ task'[r].op = op /\ task'[r].arg = arg /\ e = d
      /\ seen'[r] = [status |-> status[d], total |-> total[d], paid |-> paid[d]]
      /\ target'[r] = ToReverse(op, d)
  BY <1>1 DEF Typed, BookTypes, Doc
<1>3. Accepts(op, d, arg)
  BY <1>1, <1>2
<1>4. /\ total[d] \in Nat \ {0} /\ paid[d] \in Nat /\ status[d] \in Statuses
      /\ Amounts \subseteq Nat \ {0}
  BY TotalsAssumption DEF Typed, Settled
<1>5. /\ d \in live
      /\ op \in {"send", "edit", "delete"} => status[d] = "draft"
      /\ op = "edit" => arg \in Totals
      /\ op = "void" => CanVoid(d)
      /\ op = "pay" => arg \in Amounts /\ CanPay(d, arg)
  BY <1>3 DEF Accepts, IsDraft
<1>6. status[d] \notin {"draft", "void"} => status[d] = StatusFor(paid[d], total[d])
  BY DEF Settled
<1>7. op = "pay" => /\ status[d] \in {"sent", "partly_paid"}
                   /\ arg <= total[d] - paid[d]
  <2> SUFFICES ASSUME op = "pay" PROVE /\ status[d] \in {"sent", "partly_paid"}
                                       /\ arg <= total[d] - paid[d]
    OBVIOUS
  <2>1. arg \in Nat \ {0} /\ arg <= total[d] - paid[d] /\ status[d] \notin {"draft", "void"}
    BY <1>4, <1>5 DEF CanPay
  <2>2. paid[d] < total[d]
    BY <1>4, <2>1
  <2>3. QED BY <1>6, <2>1, <2>2 DEF StatusFor
<1>8. op = "void" => /\ d \notin Bills /\ status[d] = "sent" /\ paid[d] = 0
                    /\ journal'[target'[r]].amount = total[d]
  <2> SUFFICES ASSUME op = "void"
               PROVE  /\ d \notin Bills /\ status[d] = "sent" /\ paid[d] = 0
                      /\ journal'[target'[r]].amount = total[d]
    OBVIOUS
  <2>1. /\ d \notin Bills /\ status[d] \notin {"draft", "void"} /\ paid[d] = 0
    BY <1>4, <1>5 DEF CanVoid
  <2>2. status[d] = "sent"
    BY <1>4, <1>6, <2>1 DEF StatusFor
  <2>3. target'[r] \in Reversible(d)
    BY <1>1, <1>2, FirstReversible
  <2>4. target'[r] \in Old(d)
    BY <2>3, AtRest
  <2>5. journal[target'[r]].amount = total[d]
    BY <2>1, <2>4 DEF Settled
  <2>6. journal' = journal
    BY DEF Begin, bookVars
  <2>7. QED BY <2>1, <2>2, <2>5, <2>6
<1>9. QED BY <1>2, <1>5, <1>7, <1>8 DEF StillHolds, DocSame, Asked

(* A request that begins on a document at rest is in order from the start.  *)
LEMMA BeginInOrder ==
  ASSUME Typed, BookTypes, Entered, NEW r \in Req, NEW d \in Docs,
         Begin(r), Doc(r)' = d, Undisturbed(d), InOrder(d), Grows(r), DocSame(d)
  PROVE  Through(r, d)' /\ Busy(r)'
<1>1. Settled(d) /\ received[d] = paid[d] /\ shipped[d] = Issued(d)
  BY DEF InOrder, Undisturbed
<1>2. StillHolds(r, d)'
  BY <1>1, BeginHolds
<1>3. received' = received /\ shipped' = shipped /\ paid[d] \in Int /\ Issued(d) \in Int
  BY DEF Begin, bookVars, Typed, Issued
<1>4. PICK op \in Ops, e \in Docs, arg \in Totals \cup Amounts \cup {0} :
        /\ task' = [task EXCEPT ![r] = [op |-> op, doc |-> e, arg |-> arg]]
        /\ pc' = [pc EXCEPT ![r] = FirstStep(op)]
  BY DEF Begin, Goto
<1>5. task'[r].op = op /\ pc'[r] = FirstStep(op)
  BY <1>4 DEF Typed
<1>6. op \in AllOps
  BY OpsAssumption
<1>7. /\ op = "send" => pc'[r] = "number"
      /\ op \in {"void", "pay"} => pc'[r] = "entry"
      /\ op \in {"edit", "delete"} => pc'[r] = "write"
      /\ op \in {"send", "void", "pay", "edit", "delete"}
  BY <1>5, <1>6 DEF FirstStep, AllOps
<1>8. /\ Ahead(r)' = 0 /\ Moved(r)' = 0 /\ ~ Posted(r)'
      /\ pc'[r] \notin {"idle", "stock", "ended"}
  BY <1>5, <1>7 DEF Ahead, Moved, Posted, Posts, Asked
<1>9. Busy(r)'
  BY <1>8 DEF Begin, Ready, Busy
<1>10. Issued(d)' = Issued(d) /\ paid'[d] = paid[d]
  BY DEF Issued, DocSame
<1>11. WroteItsPart(r, d)'
  BY <1>1, <1>3, <1>8, <1>10 DEF WroteItsPart
<1>12. QED BY <1>2, <1>9, <1>11 DEF Through

(* Every step before the last write keeps the invariant: this is where a    *)
(* request is not let in on a document somebody works on.                   *)
LEMMA BeforeWriteInv ==
  ASSUME BookInv, ~ Overlap, NEW r \in Req, Begin(r) \/ ClaimNumber(r) \/ Between(r)
  PROVE  BookInv'
<1>1. Typed /\ BookTypes /\ OneRequest /\ Entered
  BY DEF BookInv
<1>2. /\ BookTypes' /\ Entered' /\ Grows(r) /\ Elsewhere(r)
      /\ \A d \in Docs : DocSame(d) /\ AccountSame(d)
      /\ ~ Begin(r) => /\ task'[r] = task[r] /\ seen'[r] = seen[r]
                       /\ target'[r] = target[r] /\ Busy(r)
  BY <1>1, BeforeWrite
<1>3. Typed'
  BY <1>1, BeginTyped, ClaimTyped, BetweenTyped
<1>4. /\ Doc(r)' \in Docs /\ dead' = dead /\ pc[r] # "ended"
      /\ \A q \in Req \ {r} : pc'[q] = pc[q] /\ task'[q] = task[q] /\ Doc(q)' = Doc(q)
      /\ r \notin dead
  <2>1. pc'[r] # "idle" /\ r \notin dead /\ pc[r] # "ended"
    <3>1. CASE Begin(r)
      BY <3>1, <1>1 DEF Begin, Goto, Ready, FirstStep, Typed
    <3>2. CASE ~ Begin(r)
      <4>1. Busy(r)
        BY <1>2, <3>2
      <4>2. pc'[r] # "idle"
        <5>1. CASE ClaimNumber(r)
          BY <5>1, <1>1 DEF ClaimNumber, Goto, Typed
        <5>2. CASE Between(r)
          BY <5>2, <1>1, BetweenSteps DEF Typed
        <5>3. QED BY <3>2, <5>1, <5>2
      <4>3. QED BY <4>1, <4>2 DEF Busy
    <3>3. QED BY <3>1, <3>2
  <2>2. Doc(r)' \in Docs
    BY <1>3, <2>1 DEF Typed, OnTask, Tasks, Doc
  <2>3. QED BY <1>2, <2>1, <2>2 DEF Elsewhere, Alone, Doc
<1>5. Begin(r) => ~ AtWork(Doc(r)')
  <2> SUFFICES ASSUME Begin(r) PROVE ~ AtWork(Doc(r)')
    OBVIOUS
  <2>1. PICK op \in Ops, d \in Docs, arg \in Totals \cup Amounts \cup {0} :
          /\ ~ AtWork(d)
          /\ task' = [task EXCEPT ![r] = [op |-> op, doc |-> d, arg |-> arg]]
    BY DEF Begin
  <2>2. Doc(r)' = d
    BY <1>1, <2>1 DEF Typed, Doc
  <2>3. QED BY <2>1, <2>2
<1>6. /\ OneRequest'
      /\ \A q \in Req : (Busy(q) /\ Doc(q) = Doc(r))' => q = r
  <2>1. CASE Begin(r)
    <3>1. \A q \in Req : (Busy(q) /\ Doc(q) = Doc(r))' => q = r
      BY <1>4, <1>5, <2>1 DEF AtWork, Busy
    <3>2. \A q, p \in Req : q # r /\ p # r /\ (Busy(q) /\ Busy(p) /\ Doc(q) = Doc(p))' => q = p
      BY <1>1, <1>4 DEF OneRequest, Busy
    <3>3. OneRequest'
      BY <3>1, <3>2 DEF OneRequest
    <3>4. QED BY <3>1, <3>3
  <2>2. CASE ~ Begin(r)
    <3>1. Doc(r)' = Doc(r)
      BY <1>2, <2>2 DEF Doc
    <3>2. QED BY <1>1, <1>2, <2>2, <3>1, OneRequestKept
  <2>3. QED BY <2>1, <2>2
<1>7. ASSUME NEW d \in Docs, Uncut(d)' PROVE InOrder(d)'
  <2>1. Uncut(d)
    <3>1. \A q \in dead : q \in Req /\ q # r
      BY <1>1, <1>4 DEF BookTypes
    <3>2. QED BY <1>4, <1>7, <3>1 DEF Uncut
  <2>2. InOrder(d) /\ DocSame(d) /\ AccountSame(d)
    BY <1>2, <2>1 DEF BookInv
  <2>3. Settled(d)'
    BY <2>2, SettledKept DEF InOrder
  <2>4. CASE Doc(r)' = d /\ Begin(r)
    <3>1. Undisturbed(d)
      BY <1>5, <2>1, <2>4 DEF Undisturbed, Uncut
    <3>2. Through(r, d)' /\ Busy(r)'
      BY <1>1, <1>2, <2>2, <2>4, <3>1, BeginInOrder
    <3>3. QED BY <1>6, <2>3, <2>4, <3>2, OwnKept
  <2>5. CASE Doc(r)' = d /\ ~ Begin(r)
    <3>1. Doc(r) = d /\ Busy(r)
      BY <1>2, <2>5 DEF Doc
    <3>2. Through(r, d)
      BY <2>2, <3>1 DEF InOrder
    <3>3. /\ Busy(r)' => WroteItsPart(r, d)'
          /\ ~ Busy(r)' => received'[d] = paid'[d] /\ shipped'[d] = Issued(d)'
      BY <1>1, <1>2, <1>4, <2>2, <2>5, <3>1, <3>2, WroteMore
    <3>4. StillHolds(r, d)'
      BY <1>1, <1>2, <2>2, <2>5, <3>1, <3>2, StillHoldsKept DEF Through, Busy
    <3>5. QED BY <1>6, <2>3, <2>5, <3>3, <3>4, OwnKept DEF Through
  <2>6. CASE Doc(r)' # d
    <3>1. Busy(r) => Doc(r) # d
      BY <1>2, <2>6 DEF Busy, Begin, Ready, Doc
    <3>2. received'[d] = received[d] /\ shipped'[d] = shipped[d]
      <4>1. CASE Begin(r) \/ ClaimNumber(r)
        BY <4>1 DEF Begin, ClaimNumber, bookVars
      <4>2. CASE Between(r)
        <5>1. Doc(r) # d
          BY <2>6, <4>2, <1>1, BetweenSteps DEF Doc
        <5>2. QED
          BY <1>1, <4>2, <5>1 DEF Between, IssueStock, StockShort, PostEntry, PostingRaises,
             MarkReversal, InsertPayment, bookVars, BookTypes
      <4>3. QED BY <4>1, <4>2
    <3>3. QED BY <1>1, <1>2, <2>2, <2>6, <3>1, <3>2, OthersKept
  <2>7. QED BY <2>4, <2>5, <2>6
<1>8. QED BY <1>2, <1>3, <1>6, <1>7 DEF BookInv

-----------------------------------------------------------------------------
(* The last write. *)
LEMMA WriteSteps ==
  ASSUME Typed, BookTypes, Entered, NEW r \in Req, WriteDoc(r)
  PROVE  /\ pc[r] = "write" /\ pc'[r] = "ended" /\ r \notin dead
         /\ UNCHANGED <<task, seen, target, dead, journal, received, shipped>>
         /\ Doc(r) \in Docs /\ Doc(r)' = Doc(r)
         /\ BookTypes' /\ Entered' /\ Grows(r) /\ Elsewhere(r)
         /\ Busy(r) /\ ~ Busy(r)'
         /\ \A d \in Docs : d # Doc(r) => DocSame(d)
<1>1. /\ pc[r] = "write" /\ pc'[r] = "ended" /\ r \notin dead
      /\ UNCHANGED <<task, seen, target, dead, journal, received, shipped>>
      /\ Doc(r) \in Docs /\ \A q \in Req \ {r} : pc'[q] = pc[q]
  BY DEF WriteDoc, Ready, Goto, bookVars, Typed, OnTask, Doc, Tasks
<1>2. Doc(r)' = Doc(r) /\ Elsewhere(r) /\ Alone(r) /\ Busy(r) /\ ~ Busy(r)'
  BY <1>1 DEF Doc, Elsewhere, Alone, Busy
<1>3. Posted(r)' => Posted(r)
  BY <1>1 DEF Posted
<1>4. Entered' /\ Grows(r)
  BY <1>1, <1>2, <1>3, EnteredKept
<1>5. BookTypes'
  <2>1. \A q \in Req : pc'[q] # "idle" => pc[q] # "idle"
    BY <1>1
  <2>2. \A q \in Req : pc[q] # "idle" => pc'[q] # "idle"
    BY <1>1
  <2>3. QED BY <1>1, <2>1, <2>2 DEF BookTypes, Asked
<1>6. \A d \in Docs : d # Doc(r) => DocSame(d)
  BY DEF WriteDoc, WriteSent, WriteVoid, WritePaid, WriteEdit, WriteDeleted, DocSame, Typed
<1>7. QED BY <1>1, <1>2, <1>4, <1>5, <1>6

(* It makes r's entry count.  Sends and voids enter an entry that can be    *)
(* reversed, payments do not.                                               *)
LEMMA AccountWritten ==
  ASSUME Typed, BookTypes, Entered, NEW r \in Req, WriteDoc(r), NEW d \in Docs
  PROVE  /\ d # Doc(r) \/ ~ Posts(r) => AccountSame(d)
         /\ d = Doc(r) /\ Posts(r) =>
              \E k \in DOMAIN journal :
                /\ journal[k].by = r
                /\ OwedSoFar'[d] = OwedSoFar[d] + journal[k].amount
                /\ Old(d)' \subseteq Old(d) \cup {k}
                /\ Asked(r, "pay") => Old(d)' = Old(d)
<1>1. /\ pc[r] = "write" /\ pc'[r] = "ended" /\ UNCHANGED <<task, journal>>
      /\ \A q \in Req \ {r} : pc'[q] = pc[q]
  BY WriteSteps DEF Elsewhere, Alone
<1>2. /\ EntryAmount \in [DOMAIN journal -> Int] /\ EntryAmount' = EntryAmount
      /\ Done(d) \in SUBSET DOMAIN journal /\ IsFiniteSet(Done(d))
      /\ \A i \in DOMAIN journal : journal[i].by \in Req
  BY <1>1, JournalTypes DEF EntryAmount
<1>3. OwedSoFar[d] = Net(Done(d), EntryAmount) /\ OwedSoFar'[d] = Net(Done(d)', EntryAmount)
  BY <1>2 DEF OwedSoFar, Done
<1>4. \A i \in DOMAIN journal :
        pc'[journal[i].by] = "ended" <=> (pc[journal[i].by] = "ended" \/ journal[i].by = r)
  BY <1>1, <1>2
<1>5. CASE d # Doc(r) \/ ~ Posts(r)
  <2>1. \A i \in EntriesOf(d) : journal[i].by # r
    BY <1>5 DEF EntriesOf, Entered
  <2>2. Done(d)' = Done(d) /\ Old(d)' = Old(d)
    BY <1>1, <1>4, <2>1 DEF Done, Old, Reversible, EntriesOf
  <2>3. QED BY <1>1, <1>3, <1>5, <2>2 DEF AccountSame
<1>6. CASE d = Doc(r) /\ Posts(r)
  <2>1. PICK k \in DOMAIN journal : journal[k].by = r
    BY <1>1, <1>6 DEF Posted, Entered
  <2>2. /\ journal[k].doc = d /\ journal[k].source = Source(r)
        /\ \A i \in DOMAIN journal : journal[i].by = r <=> i = k
    BY <1>6, <2>1 DEF Entered
  <2>3. Done(d)' = Done(d) \cup {k} /\ k \notin Done(d)
    BY <1>1, <1>4, <2>1, <2>2 DEF Done, EntriesOf
  <2>4. Net(Done(d) \cup {k}, EntryAmount) = Net(Done(d), EntryAmount) + EntryAmount[k]
    BY <1>2, <2>3, NetAdd
  <2>5. EntryAmount[k] = journal[k].amount
    BY DEF EntryAmount
  <2>6. Old(d)' \subseteq Old(d) \cup {k}
    BY <1>1, <1>4, <2>2 DEF Old, Reversible, EntriesOf
  <2>7. Asked(r, "pay") => Old(d)' = Old(d)
    <3>1. Asked(r, "pay") => k \notin Reversible(d)
      BY <2>2 DEF Source, Reversible
    <3>2. Reversible(d)' = Reversible(d) /\ Reversible(d) \subseteq DOMAIN journal
      BY <1>1 DEF Reversible, EntriesOf
    <3>3. QED BY <1>1, <1>4, <2>2, <3>1, <3>2 DEF Old
  <2>8. QED BY <1>3, <1>6, <2>1, <2>3, <2>4, <2>5, <2>6, <2>7
<1>7. QED BY <1>5, <1>6

(* The last write brings the document in line with what the books hold.     *)
LEMMA WriteOwn ==
  ASSUME Typed, BookTypes, Entered, NEW r \in Req, WriteDoc(r), NEW d \in Docs,
         d = Doc(r), Settled(d), Through(r, d)
  PROVE  /\ Settled(d)'
         /\ received'[d] = paid'[d] /\ shipped'[d] = Issued(d)'
<1>1. /\ pc[r] = "write" /\ UNCHANGED <<task, journal, received, shipped>>
  BY WriteSteps
<1>2. /\ total[d] \in Nat \ {0} /\ total[d] \in Totals /\ paid[d] \in Nat /\ status[d] \in Statuses
      /\ OwedSoFar[d] = Outstanding(d) /\ task[r].arg \in Nat
      /\ seen[r].paid = paid[d] /\ seen[r].total = total[d]
      /\ status \in [Docs -> Statuses] /\ paid \in [Docs -> Nat] /\ total \in [Docs -> Nat]
  BY <1>1, TotalsAssumption DEF Settled, Typed, OnTask, Tasks, Through, StillHolds
<1>3. /\ received[d] = paid[d] + Ahead(r) /\ shipped[d] = Issued(d) + Moved(r)
  BY DEF Through, WroteItsPart
<1>4. CASE WriteSent(r)
  <2>1. /\ Asked(r, "send") /\ status[d] = "draft" /\ paid[d] = 0 /\ Old(d) = {}
        /\ status'[d] = "sent" /\ total' = total /\ paid' = paid
    BY <1>2, <1>4 DEF WriteSent, Through, StillHolds, Settled, Asked
  <2>2. PICK k \in DOMAIN journal :
          /\ journal[k].by = r
          /\ OwedSoFar'[d] = OwedSoFar[d] + journal[k].amount
          /\ Old(d)' \subseteq Old(d) \cup {k}
    BY <2>1, AccountWritten DEF Posts, Asked
  <2>3. journal[k].amount = total[d]
    <3>1. Posted(r) /\ Due(r) = total[d]
      BY <1>1, <2>1 DEF Posted, Posts, Due, Asked
    <3>2. QED BY <2>2, <3>1 DEF Through, WroteItsPart
  <2>4. OwedSoFar'[d] = Outstanding(d)'
    BY <1>2, <2>1, <2>2, <2>3 DEF Outstanding
  <2>5. \A i \in Old(d)' : journal'[i].amount = total'[d]
    BY <1>1, <2>1, <2>2, <2>3
  <2>6. status'[d] = StatusFor(paid'[d], total'[d]) /\ paid'[d] <= total'[d]
    BY <1>2, <2>1 DEF StatusFor
  <2>7. Settled(d)'
    BY <1>2, <2>1, <2>4, <2>5, <2>6 DEF Settled
  <2>8. /\ Ahead(r) = 0 /\ Moved(r) = IF d \in Shipping THEN 1 ELSE 0
        /\ Issued(d) = 0 /\ Issued(d)' = IF d \in Shipping THEN 1 ELSE 0
    BY <1>1, <2>1 DEF Ahead, Moved, Asked, Issued
  <2>9. QED BY <1>1, <1>2, <1>3, <2>1, <2>7, <2>8
<1>5. CASE WriteVoid(r)
  <2>1. /\ Asked(r, "void") /\ status[d] = "sent" /\ paid[d] = 0
        /\ status'[d] = "void" /\ total' = total /\ paid' = paid
    BY <1>2, <1>5 DEF WriteVoid, Through, StillHolds
  <2>2. PICK k \in DOMAIN journal :
          /\ journal[k].by = r
          /\ OwedSoFar'[d] = OwedSoFar[d] + journal[k].amount
    BY <2>1, AccountWritten DEF Posts, Asked
  <2>3. journal[k].amount = - total[d]
    <3>1. Posted(r) /\ Due(r) = - total[d]
      BY <1>1, <2>1 DEF Posted, Posts, Due, Asked
    <3>2. QED BY <2>2, <3>1 DEF Through, WroteItsPart
  <2>4. OwedSoFar'[d] = Outstanding(d)'
    BY <1>2, <2>1, <2>2, <2>3 DEF Outstanding
  <2>5. Settled(d)'
    BY <1>2, <2>1, <2>4 DEF Settled
  <2>6. Ahead(r) = 0 /\ Moved(r) = 0 /\ Issued(d)' = Issued(d) /\ Issued(d) \in Int
    BY <1>1, <2>1 DEF Ahead, Moved, Asked, Issued
  <2>7. QED BY <1>1, <1>2, <1>3, <2>1, <2>5, <2>6
<1>6. CASE WritePaid(r)
  <2> DEFINE p == paid[d] + task[r].arg
  <2>1. /\ Asked(r, "pay") /\ status[d] \in {"sent", "partly_paid"}
        /\ task[r].arg \in Nat \ {0} /\ task[r].arg <= total[d] - paid[d]
        /\ status'[d] = StatusFor(p, total[d]) /\ total' = total /\ paid'[d] = p
    BY <1>2, <1>6, TotalsAssumption DEF WritePaid, Through, StillHolds
  <2>2. PICK k \in DOMAIN journal :
          /\ journal[k].by = r
          /\ OwedSoFar'[d] = OwedSoFar[d] + journal[k].amount
          /\ Old(d)' = Old(d)
    BY <2>1, AccountWritten DEF Posts, Asked
  <2>3. journal[k].amount = - task[r].arg
    <3>1. Posted(r) /\ Due(r) = - task[r].arg
      BY <1>1, <2>1 DEF Posted, Posts, Due, Asked
    <3>2. QED BY <2>2, <3>1 DEF Through, WroteItsPart
  <2>4. StatusFor(p, total[d]) \in {"partly_paid", "paid"} /\ p <= total[d] /\ p \in Nat
    BY <1>2, <2>1 DEF StatusFor
  <2>5. OwedSoFar'[d] = Outstanding(d)'
    <3>1. Outstanding(d) = total[d] - paid[d] /\ Outstanding(d)' = total[d] - p
      BY <2>1, <2>4 DEF Outstanding
    <3>2. QED BY <1>2, <2>2, <2>3, <3>1
  <2>6. \A i \in Old(d)' : journal'[i].amount = total'[d]
    BY <1>1, <2>1, <2>2 DEF Settled
  <2>7. Settled(d)'
    BY <1>2, <2>1, <2>4, <2>5, <2>6 DEF Settled
  <2>8. /\ Ahead(r) = task[r].arg /\ Moved(r) = 0
        /\ Issued(d)' = Issued(d) /\ Issued(d) \in Int
    BY <1>1, <2>1, <2>4 DEF Ahead, Moved, Asked, Issued
  <2>9. QED BY <1>1, <1>2, <1>3, <2>1, <2>7, <2>8
<1>7. CASE WriteEdit(r) \/ WriteDeleted(r)
  <2>1. /\ task[r].op \in {"edit", "delete"} /\ status[d] = "draft" /\ paid[d] = 0 /\ Old(d) = {}
        /\ status' = status /\ paid' = paid /\ total'[d] \in Totals
    <3>1. CASE WriteEdit(r)
      BY <1>2, <3>1 DEF WriteEdit, Through, StillHolds, Settled, Asked
    <3>2. CASE WriteDeleted(r)
      BY <1>2, <3>2 DEF WriteDeleted, Through, StillHolds, Settled, Asked
    <3>3. QED BY <1>7, <3>1, <3>2
  <2>2. AccountSame(d)
    BY <2>1, AccountWritten DEF Posts
  <2>3. Settled(d)'
    BY <1>2, <2>1, <2>2 DEF Settled, AccountSame, Outstanding
  <2>4. Ahead(r) = 0 /\ Moved(r) = 0 /\ Issued(d)' = Issued(d) /\ Issued(d) \in Int
    BY <1>1, <2>1 DEF Ahead, Moved, Asked, Issued
  <2>5. QED BY <1>1, <1>2, <1>3, <2>1, <2>3, <2>4
<1>8. QED BY <1>4, <1>5, <1>6, <1>7 DEF WriteDoc

(* The last write keeps the invariant. *)
LEMMA WriteInv ==
  ASSUME BookInv, NEW r \in Req, WriteDoc(r)
  PROVE  BookInv'
<1>1. Typed /\ BookTypes /\ OneRequest /\ Entered
  BY DEF BookInv
<1>2. /\ UNCHANGED <<task, dead, received, shipped>>
      /\ Doc(r) \in Docs /\ Doc(r)' = Doc(r) /\ r \notin dead
      /\ BookTypes' /\ Entered' /\ Grows(r) /\ Elsewhere(r)
      /\ Busy(r) /\ ~ Busy(r)'
      /\ \A d \in Docs : d # Doc(r) => DocSame(d)
  BY <1>1, WriteSteps
<1>3. Typed'
  BY <1>1, WriteTyped
<1>4. /\ OneRequest'
      /\ \A q \in Req : (Busy(q) /\ Doc(q) = Doc(r))' => q = r
  BY <1>1, <1>2, OneRequestKept
<1>5. ASSUME NEW d \in Docs, Uncut(d)' PROVE InOrder(d)'
  <2>1. Uncut(d)
    BY <1>2, <1>5 DEF Uncut, Doc
  <2>2. InOrder(d)
    BY <2>1 DEF BookInv
  <2>3. CASE d = Doc(r)
    <3>1. Settled(d) /\ Through(r, d)
      BY <1>2, <2>2, <2>3 DEF InOrder
    <3>2. /\ Settled(d)'
          /\ received'[d] = paid'[d] /\ shipped'[d] = Issued(d)'
      BY <1>1, <2>3, <3>1, WriteOwn
    <3>3. QED BY <1>2, <1>4, <2>3, <3>2, OwnKept
  <2>4. CASE d # Doc(r)
    <3>1. AccountSame(d)
      BY <1>1, <2>4, AccountWritten
    <3>2. QED BY <1>1, <1>2, <2>2, <2>4, <3>1, OthersKept
  <2>5. QED BY <2>3, <2>4
<1>6. QED BY <1>2, <1>3, <1>4, <1>5 DEF BookInv

(* At first every document is a draft without entries. *)
LEMMA BookInit == Init => BookInv
<1> SUFFICES ASSUME Init PROVE BookInv
  OBVIOUS
<1>1. /\ \A r \in Req : pc[r] = "idle" /\ ~ Busy(r) /\ ~ Posted(r)
      /\ dead = {} /\ journal = <<>> /\ DOMAIN journal = {}
  BY DEF Init, Busy, Posted
<1>2. Typed
  BY InitTyped
<1>3. BookTypes
  BY <1>1 DEF Init, BookTypes
<1>4. Entered
  <2>1. journal \in Seq(Postings)
    BY <1>1
  <2>2. QED BY <1>1, <2>1 DEF Entered
<1>5. OneRequest
  BY <1>1 DEF OneRequest
<1>6. ASSUME NEW d \in Docs PROVE InOrder(d)
  <2>1. Done(d) = {} /\ Old(d) = {}
    BY <1>1 DEF Done, Old, Reversible, EntriesOf
  <2>2. OwedSoFar[d] = 0
    BY <2>1, NetEmpty DEF OwedSoFar, Done
  <2>3. /\ status[d] = "draft" /\ paid[d] = 0 /\ total[d] \in Totals
        /\ received[d] = 0 /\ shipped[d] = 0
    BY DEF Init
  <2>4. Settled(d) /\ Issued(d) = 0
    BY <2>1, <2>2, <2>3 DEF Settled, Outstanding, Issued
  <2>5. QED BY <1>1, <2>3, <2>4 DEF InOrder
<1>7. QED BY <1>2, <1>3, <1>4, <1>5, <1>6 DEF BookInv

(* A crash cuts off its document; no other is touched.                      *)
LEMMA CrashInv ==
  ASSUME BookInv, (\E r \in Req : Crash(r)) \/ UNCHANGED vars
  PROVE  BookInv'
<1>1. Typed /\ BookTypes /\ OneRequest /\ Entered
  BY DEF BookInv
<1>2. /\ UNCHANGED <<pc, task, seen, target, docVars, bookVars>>
      /\ dead \subseteq dead' /\ dead' \subseteq {q \in Req : pc'[q] # "idle"}
  <2>1. CASE UNCHANGED vars
    BY <1>1, <2>1 DEF vars, handlerVars, BookTypes
  <2>2. CASE \E r \in Req : Crash(r)
    BY <1>1, <2>2 DEF Crash, Busy, BookTypes
  <2>3. QED BY <2>1, <2>2
<1>3. /\ UNCHANGED <<status, total, paid, live, journal, received, shipped>>
      /\ \A q \in Req : Doc(q)' = Doc(q) /\ (Busy(q)' => Busy(q))
  BY <1>2 DEF docVars, bookVars, Doc, Busy
<1>4. Typed'
  BY <1>1, StillTyped
<1>5. BookTypes'
  BY <1>1, <1>2, <1>3 DEF BookTypes, Asked
<1>6. Entered'
  BY <1>1, <1>2, <1>3 DEF Entered, Posts, Posted, Doc, Source, Asked
<1>7. OneRequest'
  BY <1>1, <1>3 DEF OneRequest
<1>8. ASSUME NEW d \in Docs, Uncut(d)' PROVE InOrder(d)'
  <2>1. Uncut(d) /\ InOrder(d)
    <3>1. Uncut(d)
      BY <1>1, <1>2, <1>3, <1>8 DEF Uncut, BookTypes
    <3>2. QED BY <3>1 DEF BookInv
  <2>2. OwedSoFar' = OwedSoFar /\ Old(d)' = Old(d)
    BY <1>2, <1>3 DEF OwedSoFar, EntriesOf, EntryAmount, Old, Reversible
  <2>3. Settled(d)' /\ Issued(d)' = Issued(d)
    BY <1>3, <2>1, <2>2 DEF InOrder, Settled, Outstanding, StatusFor, Issued
  <2>4. \A q \in Req : (Busy(q) /\ Doc(q) = d) => Busy(q)'
    BY <1>2, <1>3, <1>8 DEF Uncut, Busy
  <2>5. ASSUME NEW q \in Req, Busy(q)', Doc(q)' = d PROVE Through(q, d)'
    <3>1. Through(q, d)
      BY <1>3, <2>1, <2>5 DEF InOrder
    <3>2. StillHolds(q, d)'
      BY <1>2, <1>3, <3>1 DEF Through, StillHolds, Asked
    <3>3. WroteItsPart(q, d)'
      <4>1. /\ Due(q)' = Due(q) /\ Ahead(q)' = Ahead(q)
            /\ Moved(q)' = Moved(q) /\ Posted(q)' = Posted(q)
        BY <1>2, <1>3 DEF Due, Ahead, Moved, Posted, Posts, Asked, Doc
      <4>2. QED BY <1>2, <1>3, <2>3, <3>1, <4>1 DEF Through, WroteItsPart
    <3>4. QED BY <3>2, <3>3 DEF Through
  <2>6. QED BY <1>3, <2>1, <2>3, <2>4, <2>5 DEF InOrder, AtWork
<1>9. QED BY <1>4, <1>5, <1>6, <1>7, <1>8 DEF BookInv

(* The invariant is inductive while requests do not overlap on a document.  *)
LEMMA BookNext ==
  ASSUME ~ Overlap
  PROVE  BookInv /\ [Next]_vars => BookInv'
<1> SUFFICES ASSUME BookInv, [Next]_vars PROVE BookInv'
  OBVIOUS
<1>1. QED BY StepsOfNext, BeforeWriteInv, WriteInv, CrashInv

(* Requests that do not overlap on one document, whatever fails or crashes: *)
(* the journal, the payment rows and the stock agree with every document    *)
(* nobody works on and nobody was cut off on, whatever sequence of sends,   *)
(* payments, voids, edits and deletions led there.                          *)
THEOREM BooksKept ==
  ASSUME ~ Overlap
  PROVE  Spec => []BooksMatchDocs
<1>1. BookInv => BooksMatchDocs
  <2> SUFFICES ASSUME BookInv, NEW d \in Docs, Undisturbed(d)
               PROVE  /\ Owed(d) = Outstanding(d)
                      /\ received[d] = paid[d] /\ shipped[d] = Issued(d)
                      /\ status[d] \notin {"draft", "void"} =>
                           status[d] = StatusFor(paid[d], total[d])
    BY DEF BooksMatchDocs, Outstanding, Issued
  <2>1. InOrder(d) /\ Entered /\ ~ AtWork(d)
    BY DEF BookInv, Undisturbed, Uncut
  <2>2. Owed(d) = OwedSoFar[d]
    <3>1. Done(d) = EntriesOf(d)
      BY <2>1, AtRest
    <3>2. OwedSoFar[d] = Net(Done(d), EntryAmount)
      BY DEF OwedSoFar, Done
    <3>3. QED BY <3>1, <3>2 DEF Owed
  <2>3. QED BY <2>1, <2>2 DEF InOrder, Settled
<1>2. QED BY <1>1, BookInit, BookNext, PTL DEF Spec
-----------------------------------------------------------------------------
(* The refinement: the last write is the one step of Receivables that the   *)
(* request takes, and every other step is none.                             *)
NoCrash == dead = {}

(* Both start from drafts that owe nothing. *)
LEMMA AccountInit == Init => Account!Init
<1> SUFFICES ASSUME Init PROVE Account!Init
  OBVIOUS
<1>1. OwedSoFar = [d \in Docs |-> 0]
  <2>1. ASSUME NEW d \in Docs PROVE OwedSoFar[d] = 0
    <3>1. BookInv
      BY BookInit
    <3>2. Settled(d) /\ status[d] = "draft"
      BY <3>1 DEF Init, BookInv, Uncut, InOrder
    <3>3. QED BY <3>2 DEF Settled, Outstanding
  <2>2. QED BY <2>1 DEF OwedSoFar
<1>2. QED BY <1>1 DEF Account!Init, Init

(* The last write is a step of Receivables: its guards hold of the document *)
(* as it is, and not only of the copy it was read into.                     *)
LEMMA AccountWrite ==
  ASSUME BookInv, NoCrash, NEW r \in Req, WriteDoc(r), NEW d \in Docs, d = Doc(r)
  PROVE  Account!Next
<1>1. Typed /\ BookTypes /\ Entered
  BY DEF BookInv
<1>2. Busy(r) /\ BookInv' /\ dead' = {}
  BY <1>1, WriteSteps, WriteInv DEF NoCrash
<1>3. Settled(d) /\ Through(r, d)
  BY <1>2 DEF BookInv, NoCrash, Uncut, InOrder
<1>4. Settled(d)'
  BY <1>2 DEF BookInv, Uncut, InOrder
<1>5. \A e \in Docs : e # d => OwedSoFar'[e] = OwedSoFar[e]
  BY <1>1, AccountWritten DEF AccountSame
<1>6. OwedSoFar' = [OwedSoFar EXCEPT ![d] = Outstanding(d)']
  <2>1. OwedSoFar'[d] = Outstanding(d)'
    BY <1>4 DEF Settled
  <2> DEFINE O == OwedSoFar
  <2>2. O = [e \in Docs |-> O[e]] /\ O' = [e \in Docs |-> O'[e]]
    BY DEF OwedSoFar
  <2> HIDE DEF O
  <2>3. O'[d] = Outstanding(d)' /\ \A e \in Docs : e # d => O'[e] = O[e]
    BY <1>5, <2>1 DEF O
  <2>4. O' = [O EXCEPT ![d] = Outstanding(d)']
    BY <1>2, <2>2, <2>3
  <2>5. QED BY <2>4 DEF O
<1>7. /\ total[d] \in Nat \ {0} /\ paid[d] \in Nat
      /\ OwedSoFar[d] = Outstanding(d)
      /\ seen[r].paid = paid[d] /\ seen[r].total = total[d]
      /\ status \in [Docs -> Statuses] /\ paid \in [Docs -> Nat] /\ total \in [Docs -> Nat]
      /\ d \in live
  BY <1>1, <1>2, <1>3, TotalsAssumption DEF Settled, Typed, Through, StillHolds
<1>8. CASE WriteSent(r)
  <2>1. /\ status[d] = "draft" /\ paid[d] = 0
        /\ status' = [status EXCEPT ![d] = "sent"] /\ UNCHANGED <<total, paid, live>>
    BY <1>3, <1>8 DEF WriteSent, Asked, Through, StillHolds, Settled
  <2>2. OwedSoFar[d] + total[d] = Outstanding(d)'
    BY <1>2, <1>7, <2>1 DEF Outstanding
  <2>3. OwedSoFar' = [OwedSoFar EXCEPT ![d] = @ + total[d]]
    BY <1>6, <2>2
  <2>4. Account!Send(d)
    BY <1>7, <2>1, <2>3 DEF Account!Send
  <2>5. QED BY <1>2, <2>4 DEF Account!Next
<1>9. CASE WriteVoid(r)
  <2>1. /\ status[d] = "sent" /\ d \notin Bills
        /\ status' = [status EXCEPT ![d] = "void"] /\ UNCHANGED <<total, paid, live>>
    BY <1>3, <1>9 DEF WriteVoid, Asked, Through, StillHolds
  <2>2. Outstanding(d)' = 0
    BY <1>2, <1>7, <2>1 DEF Outstanding
  <2>3. Account!Void(d)
    BY <1>6, <1>7, <2>1, <2>2 DEF Account!Void
  <2>4. QED BY <1>2, <2>3 DEF Account!Next
<1>10. CASE WritePaid(r)
  <2> DEFINE a == task[r].arg
  <2>1. /\ status[d] \in {"sent", "partly_paid"} /\ a \in Amounts /\ a \in Nat \ {0}
        /\ a <= total[d] - paid[d]
        /\ status' = [status EXCEPT ![d] = StatusFor(paid[d] + a, total[d])]
        /\ paid' = [paid EXCEPT ![d] = @ + a] /\ UNCHANGED <<total, live>>
    BY <1>3, <1>7, <1>10, TotalsAssumption DEF WritePaid, Asked, Through, StillHolds
  <2> HIDE DEF a
  <2>2. /\ OwedSoFar[d] = total[d] - paid[d] /\ paid'[d] = paid[d] + a
        /\ status'[d] = StatusFor(paid[d] + a, total[d])
    BY <1>2, <1>7, <2>1 DEF Outstanding
  <2>3. StatusFor(paid[d] + a, total[d]) =
          IF total[d] - (paid[d] + a) = 0 THEN "paid" ELSE "partly_paid"
    BY <1>7, <2>1 DEF StatusFor
  <2>4. Outstanding(d)' = total[d] - (paid[d] + a) /\ OwedSoFar[d] - a = total[d] - (paid[d] + a)
    BY <1>7, <2>1, <2>2, <2>3 DEF Outstanding
  <2>5. OwedSoFar' = [OwedSoFar EXCEPT ![d] = @ - a]
    BY <1>6, <2>4
  <2>6. OwedSoFar'[d] = total[d] - (paid[d] + a)
    BY <1>4, <2>4 DEF Settled
  <2>7. Account!Pay(d, a)
    BY <1>7, <2>1, <2>2, <2>3, <2>5, <2>6 DEF Account!Pay
  <2>8. QED BY <1>2, <2>1, <2>7 DEF Account!Next
<1>11. CASE WriteEdit(r)
  <2>1. /\ status[d] = "draft" /\ task[r].arg \in Totals
        /\ total' = [total EXCEPT ![d] = task[r].arg] /\ UNCHANGED <<status, paid, live>>
    BY <1>3, <1>11 DEF WriteEdit, Asked, Through, StillHolds
  <2>2. Outstanding(d)' = Outstanding(d)
    BY <1>2, <2>1 DEF Outstanding
  <2>3. OwedSoFar' = OwedSoFar
    BY <1>6, <1>7, <2>2 DEF OwedSoFar
  <2>4. Account!Edit(d, task[r].arg)
    BY <1>7, <2>1, <2>3 DEF Account!Edit
  <2>5. QED BY <1>2, <2>1, <2>4 DEF Account!Next
<1>12. CASE WriteDeleted(r)
  <2>1. /\ status[d] = "draft"
        /\ live' = live \ {d} /\ UNCHANGED <<status, paid, total>>
    BY <1>3, <1>12 DEF WriteDeleted, Asked, Through, StillHolds
  <2>2. Outstanding(d)' = Outstanding(d)
    BY <1>2, <2>1 DEF Outstanding
  <2>3. OwedSoFar' = OwedSoFar
    BY <1>6, <1>7, <2>2 DEF OwedSoFar
  <2>4. Account!Delete(d)
    BY <1>7, <2>1, <2>3 DEF Account!Delete
  <2>5. QED BY <1>2, <2>4 DEF Account!Next
<1>13. QED BY <1>8, <1>9, <1>10, <1>11, <1>12 DEF WriteDoc

(* Every step maps to one step of Receivables or to none. *)
LEMMA AccountStep ==
  ASSUME ~ Overlap, "crash" \notin Faults, BookInv, NoCrash, [Next]_vars
  PROVE  NoCrash' /\ [Account!Next]_Account!vars
<1>1. Typed /\ BookTypes /\ Entered
  BY DEF BookInv
<1>2. ASSUME NEW r \in Req, Begin(r) \/ ClaimNumber(r) \/ Between(r)
      PROVE  NoCrash' /\ UNCHANGED Account!vars
  <2>1. Elsewhere(r) /\ \A d \in Docs : DocSame(d) /\ AccountSame(d)
    BY <1>1, <1>2, BeforeWrite
  <2>2. UNCHANGED docVars
    BY <1>1, <1>2, BetweenSteps DEF Begin, ClaimNumber
  <2>3. \A d \in Docs : OwedSoFar'[d] = OwedSoFar[d]
    BY <2>1 DEF AccountSame
  <2>4. OwedSoFar' = OwedSoFar
    BY <2>3 DEF OwedSoFar
  <2>5. QED BY <2>1, <2>2, <2>4 DEF NoCrash, Elsewhere, Account!vars, docVars
<1>3. ASSUME NEW r \in Req, WriteDoc(r) PROVE NoCrash' /\ Account!Next
  <2>1. Doc(r) \in Docs /\ dead' = dead
    BY <1>1, <1>3, WriteSteps
  <2>2. QED BY <1>3, <2>1, AccountWrite DEF NoCrash
<1>4. CASE (\E r \in Req : Crash(r)) \/ UNCHANGED vars
  <2>1. UNCHANGED vars
    BY <1>4 DEF Crash
  <2>2. UNCHANGED <<dead, status, total, paid, live, pc, journal>>
    BY <2>1 DEF vars, handlerVars, docVars, bookVars
  <2>3. OwedSoFar' = OwedSoFar
    BY <2>2 DEF OwedSoFar, EntriesOf, EntryAmount
  <2>4. QED BY <2>2, <2>3 DEF NoCrash, Account!vars
<1>5. QED BY <1>2, <1>3, <1>4, StepsOfNext

(* While users wait for one answer about a document before they ask the     *)
(* next and no worker dies, every handler - a read, up to four collections  *)
(* written one by one, the document last - acts as one step on the document *)
(* and its account.                                                         *)
THEOREM AccountImplemented ==
  ASSUME ~ Overlap, "crash" \notin Faults
  PROVE  Spec => ImplementsReceivables
<1>1. Init => NoCrash
  BY DEF Init, NoCrash
<1>2. BookInv /\ NoCrash /\ [Next]_vars => NoCrash' /\ [Account!Next]_Account!vars
  BY AccountStep
<1>3. QED
  BY <1>1, <1>2, AccountInit, BookInit, BookNext, PTL DEF Spec, ImplementsReceivables, Account!Spec
-----------------------------------------------------------------------------
(* The ledger and its reports.                                              *)
Row      == [acc : Acct, debit : Nat, credit : Nat]
Bookings == [day : Days, lines : Seq(Row)]
Accounts == {NoAccount} \cup [state : {"live", "deleted"}, code : Code, type : Type]

(* The accounts an entry names exist, and are live but for a deletion that  *)
(* overlapped a posting.                                                    *)
AccountsStand(e) ==
  \A i \in DOMAIN e.lines :
    /\ chart[e.lines[i].acc].state # "none"
    /\ e.lines[i].acc \notin astray => chart[e.lines[i].acc].state = "live"

Bookable(e) == e \in Bookings /\ Postable(e) /\ AccountsStand(e)

(* What a clerk's request has read still holds where it has to.             *)
Reasonable(f) ==
  /\ f.op \in {"idle", "account", "delete", "post"}
  /\ f.op = "account" => f.acc \in Acct /\ f.to \in LiveAccount
  /\ f.op = "delete" => f.acc \in Acct /\ chart[f.acc].state # "none"
  /\ f.op = "post" => Bookable(f.entry)

(* A deletion found none of the entries there were to name its account.     *)
Unnamed(f) ==
  f.op = "delete" => /\ f.seen \in 0 .. Len(entries)
                     /\ \A i \in 1 .. f.seen : ~ Names(entries[i], f.acc)

CodesDiffer ==
  \A a, b \in Acct : a # b /\ chart[a].state # "none" => chart[a].code # chart[b].code

LedgerInv ==
  /\ chart \in [Acct -> Accounts]
  /\ CodesDiffer
  /\ entries \in Seq(Bookings)
  /\ \A i \in DOMAIN entries : Bookable(entries[i])
  /\ DOMAIN filing = Clerk
  /\ \A k \in Clerk : Reasonable(filing[k])
  /\ \A k \in Clerk : Unnamed(filing[k])

LEMMA RowsOf ==
  ASSUME NEW S, NEW s \in Seq(S)
  PROVE  DOMAIN s = 1 .. Len(s) /\ Len(s) \in Nat /\ \A i \in DOMAIN s : s[i] \in S
OBVIOUS

LEMMA AppendRow ==
  ASSUME NEW S, NEW s \in Seq(S), NEW e \in S
  PROVE  /\ Append(s, e) \in Seq(S)
         /\ \A i \in DOMAIN Append(s, e) :
              Append(s, e)[i] = e \/ (i \in DOMAIN s /\ Append(s, e)[i] = s[i])
<1>1. /\ DOMAIN s = 1 .. Len(s) /\ Len(s) \in Nat
      /\ DOMAIN Append(s, e) = 1 .. (Len(s) + 1)
  OBVIOUS
<1>2. /\ Append(s, e)[Len(s) + 1] = e
      /\ \A i \in 1 .. Len(s) : Append(s, e)[i] = s[i]
  OBVIOUS
<1>3. \A i \in 1 .. (Len(s) + 1) : i = Len(s) + 1 \/ i \in 1 .. Len(s)
  BY <1>1
<1>4. \A i \in DOMAIN Append(s, e) :
        Append(s, e)[i] = e \/ (i \in DOMAIN s /\ Append(s, e)[i] = s[i])
  BY <1>1, <1>2, <1>3, Zenon
<1>5. QED BY <1>4

LEMMA LedgerInitInv == LedgerInit => LedgerInv
<1> SUFFICES ASSUME LedgerInit PROVE LedgerInv
  OBVIOUS
<1>1. chart \in [Acct -> Accounts]
  BY StarterAssumption DEF LedgerInit, Accounts, LiveAccount
<1>2. CodesDiffer
  BY StarterAssumption DEF LedgerInit, CodesDiffer, NoAccount, LiveAccount
<1>3. entries \in Seq(Bookings) /\ DOMAIN entries = {}
  BY DEF LedgerInit
<1>4. DOMAIN filing = Clerk /\ \A k \in Clerk : Reasonable(filing[k])
  BY DEF LedgerInit, Reasonable, NoFiling
<1>5. \A k \in Clerk : Unnamed(filing[k])
  BY DEF LedgerInit, Unnamed, NoFiling
<1>6. QED BY <1>1, <1>2, <1>3, <1>4, <1>5 DEF LedgerInv

(* An entry stays as it is to be when its accounts stay, and are live or    *)
(* known to be astray.                                                      *)
LEMMA BookableKept ==
  ASSUME NEW e, Bookable(e),
         \A i \in DOMAIN e.lines :
           /\ chart[e.lines[i].acc].state # "none" => chart'[e.lines[i].acc].state # "none"
           /\ e.lines[i].acc \notin astray' =>
                /\ e.lines[i].acc \notin astray
                /\ chart[e.lines[i].acc].state = "live" => chart'[e.lines[i].acc].state = "live"
  PROVE  Bookable(e)'
BY DEF Bookable, AccountsStand

LEMMA BookableRows ==
  ASSUME NEW e, Bookable(e)
  PROVE  /\ e.lines \in Seq(Row) /\ DOMAIN e.lines = 1 .. Len(e.lines) /\ Len(e.lines) \in Nat
         /\ \A i \in DOMAIN e.lines : /\ e.lines[i] \in Row /\ e.lines[i].acc \in Acct
                                      /\ e.lines[i].debit \in Nat /\ e.lines[i].credit \in Nat
<1>1. e.lines \in Seq(Row)
  BY DEF Bookable, Bookings
<1>2. \A i \in DOMAIN e.lines : e.lines[i] \in Row
  BY <1>1
<1>3. QED BY <1>1, <1>2 DEF Row

LEMMA FilingKept ==
  ASSUME NEW x \in Clerk, Reasonable(filing[x]),
         filing'[x] = filing[x] \/ filing'[x] = NoFiling,
         \A a \in Acct : chart[a].state # "none" => chart'[a].state # "none",
         \A e : filing[x].op = "post" /\ e = filing[x].entry /\ Bookable(e) => Bookable(e)'
  PROVE  Reasonable(filing[x])'
<1>1. CASE filing'[x] = NoFiling
  BY <1>1 DEF Reasonable, NoFiling
<1>2. CASE filing'[x] = filing[x]
  <2>1. filing[x].op = "post" => \A e : e = filing[x].entry => Bookable(e)'
    BY DEF Reasonable
  <2>2. filing'[x].op = "post" => Bookable(filing[x].entry)'
    BY <1>2, <2>1
  <2>3. QED BY <1>2, <2>2 DEF Reasonable
<1>3. QED BY <1>1, <1>2

(* What a deletion counted stays as it was, entries being only added.       *)
LEMMA UnnamedKept ==
  ASSUME LedgerInv, NEW x \in Clerk, filing'[x] = filing[x] \/ filing'[x] = NoFiling,
         entries' = entries \/ \E e \in Bookings : entries' = Append(entries, e)
  PROVE  Unnamed(filing[x])'
<1>1. CASE filing'[x] = NoFiling
  BY <1>1 DEF Unnamed, NoFiling
<1>2. CASE filing'[x] = filing[x]
  <2>1. Unnamed(filing[x]) /\ entries \in Seq(Bookings)
    BY DEF LedgerInv
  <2>2. Len(entries) \in Nat /\ Len(entries') \in Nat /\ Len(entries) <= Len(entries')
        /\ \A i \in 1 .. Len(entries) : entries'[i] = entries[i]
    BY <2>1
  <2>3. QED BY <1>2, <2>1, <2>2 DEF Unnamed, Names
<1>3. QED BY <1>1, <1>2

(* A request that reads and files changes nothing else.                     *)
LEMMA FileInv ==
  ASSUME LedgerInv, NEW k \in Clerk, NEW f, Reasonable(f), Unnamed(f), File(k, f)
  PROVE  LedgerInv'
<1>1. UNCHANGED <<chart, entries, astray>> /\ filing' = [filing EXCEPT ![k] = f]
  BY DEF File
<1>2. \A e : Bookable(e) => Bookable(e)'
  BY <1>1, BookableKept
<1>3. ASSUME NEW x \in Clerk PROVE Reasonable(filing[x])'
  <2>1. CASE x = k
    <3>1. filing'[x] = f
      BY <1>1, <2>1 DEF LedgerInv
    <3>2. f.op = "post" => Bookable(f.entry)'
      BY <1>2 DEF Reasonable
    <3>3. filing'[x].op = "post" => Bookable(filing[x].entry)'
      BY <3>1, <3>2
    <3>4. QED BY <1>1, <3>1, <3>3 DEF Reasonable
  <2>2. CASE x # k
    <3>1. filing'[x] = filing[x] /\ Reasonable(filing[x])
      BY <1>1, <2>2 DEF LedgerInv
    <3>2. QED BY <1>1, <1>2, <3>1, FilingKept
  <2>3. QED BY <2>1, <2>2
<1>4. CodesDiffer' /\ \A i \in DOMAIN entries' : Bookable(entries[i])'
  <2>1. CodesDiffer'
    BY <1>1 DEF CodesDiffer, LedgerInv
  <2>2. \A i \in DOMAIN entries : \A e : e = entries[i] => Bookable(e)'
    BY <1>2 DEF LedgerInv
  <2>3. QED BY <1>1, <2>1, <2>2
<1>5. ASSUME NEW x \in Clerk PROVE Unnamed(filing[x])'
  <2>1. filing'[x] = f \/ filing'[x] = filing[x]
    BY <1>1 DEF LedgerInv
  <2>2. CASE filing'[x] = f
    <3>1. UNCHANGED entries
      BY <1>1
    <3>2. QED BY <2>2, <3>1 DEF Unnamed, Names
  <2>3. QED BY <1>1, <2>1, <2>2, UnnamedKept
<1>6. QED BY <1>1, <1>3, <1>4, <1>5 DEF LedgerInv

LEMMA AskInv ==
  ASSUME LedgerInv, NEW k \in Clerk, NEW a \in Acct, NEW code \in Code, NEW type \in Type,
         NewAccount(k, a, code, type) \/ PatchAccount(k, a, code, type)
  PROVE  LedgerInv'
<1> DEFINE f == [NoFiling EXCEPT !.op = "account", !.acc = a,
                                 !.to = [state |-> "live", code |-> code, type |-> type]]
<1>1. File(k, f)
  BY DEF NewAccount, PatchAccount
<1>2. Reasonable(f) /\ Unnamed(f)
  BY DEF Reasonable, NoFiling, LiveAccount, Unnamed
<1>3. QED BY <1>1, <1>2, FileInv

LEMMA DeleteInv ==
  ASSUME LedgerInv, NEW k \in Clerk, NEW a \in Acct, DeleteAcct(k, a)
  PROVE  LedgerInv'
<1> DEFINE f == Deletion(a)
<1>1. File(k, f)
  BY DEF DeleteAcct
<1>2. f.op = "delete" /\ f.acc = a /\ f.seen = Len(entries)
  BY DEF Deletion, NoFiling
<1>3. Reasonable(f)
  BY <1>2 DEF Reasonable, DeleteAcct, LiveAccts
<1>4. Unnamed(f)
  <2>1. Len(entries) \in Nat /\ DOMAIN entries = 1 .. Len(entries)
    BY DEF LedgerInv
  <2>2. QED BY <1>2, <2>1 DEF Unnamed, DeleteAcct
<1>5. QED BY <1>1, <1>3, <1>4, FileInv

LEMMA CreateEntryInv ==
  ASSUME LedgerInv, NEW k \in Clerk, NEW day \in Days, NEW shape \in Shape,
         NEW on \in [DOMAIN shape -> Acct], CreateEntry(k, day, shape, on)
  PROVE  LedgerInv'
<1> DEFINE rows == [i \in DOMAIN shape |->
                      [acc |-> on[i], debit |-> shape[i].debit, credit |-> shape[i].credit]]
           e == [day |-> day, lines |-> rows]
           f == [NoFiling EXCEPT !.op = "post", !.entry = e]
<1>1. Postable(e) /\ File(k, f) /\ \A i \in DOMAIN shape : on[i] \in LiveAccts
  BY DEF CreateEntry
<1>2. shape \in Seq([debit : Nat, credit : Nat])
  BY ShapeAssumption
<1>3. rows \in Seq(Row)
  <2>1. DOMAIN shape = 1 .. Len(shape) /\ Len(shape) \in Nat
    BY <1>2, RowsOf
  <2>2. \A i \in DOMAIN shape : shape[i].debit \in Nat /\ shape[i].credit \in Nat
    <3>1. \A i \in DOMAIN shape : shape[i] \in [debit : Nat, credit : Nat]
      BY <1>2, RowsOf
    <3>2. QED BY <3>1
  <2>3. rows \in [1 .. Len(shape) -> Row]
    BY <2>1, <2>2 DEF Row
  <2> HIDE DEF rows
  <2>4. QED BY <2>1, <2>3
<1>4. AccountsStand(e)
  BY <1>1 DEF AccountsStand, LiveAccts
<1>5. Bookable(e)
  BY <1>1, <1>3, <1>4 DEF Bookable, Bookings
<1>6. f.op = "post" /\ f.entry = e
  BY DEF NoFiling
<1> HIDE DEF f, e
<1>7. Reasonable(f) /\ Unnamed(f)
  BY <1>5, <1>6 DEF Reasonable, Unnamed
<1>8. QED BY <1>1, <1>7, FileInv

(* What has been filed is done and answered, by clerk k.                    *)
LEMMA FiledKept ==
  ASSUME LedgerInv, NEW k \in Clerk, Filed(k)
  PROVE  /\ DOMAIN filing' = Clerk
         /\ \A x \in Clerk : filing'[x] = filing[x] \/ filing'[x] = NoFiling
         /\ \A x \in Clerk : x # k => filing'[x] = filing[x]
BY DEF Filed, LedgerInv

LEMMA WriteAccountInv ==
  ASSUME LedgerInv, NEW k \in Clerk, WriteAccount(k)
  PROVE  LedgerInv'
<1> DEFINE f == filing[k]
           written == [f.to EXCEPT !.state = IF chart[f.acc].state = "deleted" THEN "deleted" ELSE "live"]
<1>1. /\ f.op = "account" /\ Filed(k) /\ UNCHANGED <<entries, astray>>
      /\ chart' = IF CodeTaken(f.acc, f.to.code) THEN chart ELSE [chart EXCEPT ![f.acc] = written]
  BY DEF WriteAccount
<1>2. f.acc \in Acct /\ f.to \in LiveAccount
  BY <1>1 DEF LedgerInv, Reasonable
<1>3. /\ written \in Accounts /\ written.code = f.to.code /\ written.state # "none"
      /\ written.state = IF chart[f.acc].state = "deleted" THEN "deleted" ELSE "live"
  BY <1>2 DEF LiveAccount, Accounts
<1> HIDE DEF written
<1>4. /\ chart' \in [Acct -> Accounts]
      /\ \A a \in Acct : 
           \/ chart'[a] = chart[a]
           \/ a = f.acc /\ chart'[a] = written /\ ~ CodeTaken(a, written.code)
  <2>1. chart \in [Acct -> Accounts]
    BY DEF LedgerInv
  <2>2. CASE CodeTaken(f.acc, f.to.code)
    <3>1. chart' = chart
      BY <1>1, <2>2
    <3>2. QED BY <2>1, <3>1
  <2>3. CASE ~ CodeTaken(f.acc, f.to.code)
    <3>1. chart' = [chart EXCEPT ![f.acc] = written]
      BY <1>1, <2>3
    <3>2. f.acc \in Acct /\ ~ CodeTaken(f.acc, written.code)
      BY <1>2, <1>3, <2>3
    <3>3. \A a \in Acct : chart'[a] = IF a = f.acc THEN written ELSE chart[a]
      BY <2>1, <3>1
    <3>4. chart' \in [Acct -> Accounts]
      BY <1>3, <2>1, <3>1
    <3> HIDE DEF f
    <3>5. QED BY <3>2, <3>3, <3>4
  <2>4. QED BY <2>2, <2>3
<1>5. CodesDiffer'
  <2> SUFFICES ASSUME NEW a \in Acct, NEW b \in Acct, a # b, chart'[a].state # "none"
               PROVE  chart'[a].code # chart'[b].code
    BY DEF CodesDiffer
  <2>1. CASE chart'[a] = chart[a] /\ chart'[b] = chart[b]
    BY <2>1 DEF LedgerInv, CodesDiffer
  <2>2. CASE chart'[a] = written /\ ~ CodeTaken(a, written.code) /\ a = f.acc
    <3>1. chart'[b] = chart[b]
      BY <1>4, <2>2
    <3>2. chart[b].state # "none" => chart[b].code # written.code
      BY <2>2 DEF CodeTaken
    <3>3. chart[b].state = "none" => chart[b].code = "none"
      BY DEF LedgerInv, Accounts, NoAccount
    <3>4. written.code \in Code
      BY <1>2, <1>3 DEF LiveAccount
    <3>5. QED BY <2>2, <3>1, <3>2, <3>3, <3>4, CodeAssumption
  <2>3. CASE chart'[b] = written /\ ~ CodeTaken(b, written.code) /\ b = f.acc
    <3>1. chart'[a] = chart[a]
      BY <1>4, <2>3
    <3>2. QED BY <2>3, <3>1 DEF CodeTaken
  <2>4. QED BY <1>4, <2>1, <2>2, <2>3
<1>6. \A a \in Acct : /\ chart[a].state # "none" => chart'[a].state # "none"
                      /\ chart[a].state = "live" => chart'[a].state = "live"
  BY <1>3, <1>4
<1>7. ASSUME NEW e, Bookable(e) PROVE Bookable(e)'
  <2>1. \A i \in DOMAIN e.lines : e.lines[i].acc \in Acct
    BY <1>7, BookableRows
  <2>2. QED BY <1>1, <1>6, <1>7, <2>1, BookableKept
<1>8. ASSUME NEW x \in Clerk PROVE Reasonable(filing[x])'
  BY <1>1, <1>6, <1>7, FiledKept, FilingKept DEF LedgerInv
<1>9. \A i \in DOMAIN entries' : Bookable(entries[i])'
  <2>1. \A i \in DOMAIN entries : \A e : e = entries[i] => Bookable(e)'
    BY <1>7 DEF LedgerInv
  <2>2. QED BY <1>1, <2>1
<1>10. \A x \in Clerk : Unnamed(filing[x])'
  BY <1>1, FiledKept, UnnamedKept
<1>11. QED BY <1>1, <1>4, <1>5, <1>8, <1>9, <1>10, FiledKept DEF LedgerInv

LEMMA WriteDeletionInv ==
  ASSUME LedgerInv, NEW k \in Clerk, WriteDeletion(k)
  PROVE  LedgerInv'
<1> DEFINE a == filing[k].acc
<1>1. /\ filing[k].op = "delete" /\ Filed(k) /\ UNCHANGED entries
      /\ chart' = [chart EXCEPT ![a].state = "deleted"]
      /\ astray' = IF \/ \E x \in Files("post") : Names(filing[x].entry, a)
                      \/ \E i \in filing[k].seen + 1 .. Len(entries) : Names(entries[i], a)
                   THEN astray \cup {a} ELSE astray
  BY DEF WriteDeletion
<1>2. a \in Acct /\ chart[a] \in Accounts \ {NoAccount}
  BY <1>1 DEF LedgerInv, Reasonable, NoAccount
<1>3. /\ chart' \in [Acct -> Accounts]
      /\ \A b \in Acct : b # a => chart'[b] = chart[b]
      /\ chart'[a].state = "deleted" /\ chart'[a].code = chart[a].code
  BY <1>1, <1>2 DEF LedgerInv, Accounts
<1>4. chart[a].state # "none"
  BY <1>1 DEF LedgerInv, Reasonable
<1> HIDE DEF a
<1>5. CodesDiffer'
  BY <1>3, <1>4 DEF LedgerInv, CodesDiffer
<1>6. \A b \in Acct : chart[b].state # "none" => chart'[b].state # "none"
  BY <1>3
<1>7. ASSUME NEW e, Bookable(e), Names(e, a) => a \in astray' PROVE Bookable(e)'
  <2>1. \A i \in DOMAIN e.lines : e.lines[i].acc \in Acct
    BY <1>7, BookableRows
  <2>2. \A i \in DOMAIN e.lines : e.lines[i].acc \notin astray' => e.lines[i].acc # a /\ e.lines[i].acc \notin astray
    BY <1>1, <1>7 DEF Names
  <2>3. QED BY <1>3, <1>6, <1>7, <2>1, <2>2, BookableKept
<1>8. ASSUME NEW x \in Clerk PROVE Reasonable(filing[x])'
  <2>1. filing[x].op = "post" /\ Names(filing[x].entry, a) => a \in astray'
    BY <1>1 DEF Files
  <2>2. \A e : filing[x].op = "post" /\ e = filing[x].entry /\ Bookable(e) => Bookable(e)'
    BY <1>7, <2>1
  <2>3. QED BY <1>1, <1>6, <2>2, FiledKept, FilingKept DEF LedgerInv
<1>9. \A i \in DOMAIN entries' : Bookable(entries[i])'
  <2>1. ASSUME NEW i \in DOMAIN entries, Names(entries[i], a) PROVE a \in astray'
    <3>1. Unnamed(filing[k]) /\ entries \in Seq(Bookings)
      BY DEF LedgerInv
    <3>2. Len(entries) \in Nat /\ i \in 1 .. Len(entries) /\ filing[k].seen \in 0 .. Len(entries)
      BY <1>1, <3>1 DEF Unnamed
    <3>3. i \notin 1 .. filing[k].seen
      BY <1>1, <2>1, <3>1 DEF Unnamed, a
    <3>4. i \in filing[k].seen + 1 .. Len(entries)
      BY <3>2, <3>3
    <3>5. QED BY <1>1, <2>1, <3>4
  <2>2. \A i \in DOMAIN entries : \A e : e = entries[i] => Bookable(e)'
    BY <1>7, <2>1 DEF LedgerInv
  <2>3. QED BY <1>1, <2>2
<1>10. \A x \in Clerk : Unnamed(filing[x])'
  BY <1>1, FiledKept, UnnamedKept
<1>11. QED BY <1>1, <1>3, <1>5, <1>8, <1>9, <1>10, FiledKept DEF LedgerInv

LEMMA InsertInv ==
  ASSUME LedgerInv, NEW k \in Clerk, InsertEntry(k) \/ Abandon(k)
  PROVE  LedgerInv'
<1>1. /\ Filed(k) /\ UNCHANGED <<chart, astray>>
      /\ \/ entries' = entries
         \/ filing[k].op = "post" /\ entries' = Append(entries, filing[k].entry)
  BY DEF InsertEntry, Abandon
<1>2. \A e : Bookable(e) => Bookable(e)'
  BY <1>1, BookableKept
<1>3. \A x \in Clerk : Reasonable(filing[x])'
  BY <1>1, <1>2, FiledKept, FilingKept DEF LedgerInv
<1>4. entries' \in Seq(Bookings) /\ \A i \in DOMAIN entries' : Bookable(entries[i])'
  <2>1. CASE entries' = entries
    BY <1>2, <2>1 DEF LedgerInv
  <2>2. CASE filing[k].op = "post" /\ entries' = Append(entries, filing[k].entry)
    <3>1. Bookable(filing[k].entry) /\ filing[k].entry \in Bookings
      BY <2>2 DEF LedgerInv, Reasonable, Bookable
    <3>2. /\ entries \in Seq(Bookings) /\ entries' \in Seq(Bookings)
          /\ \A i \in DOMAIN entries' : entries'[i] = filing[k].entry \/ (i \in DOMAIN entries /\ entries'[i] = entries[i])
      <4>1. entries \in Seq(Bookings)
        BY DEF LedgerInv
      <4>2. ASSUME NEW e \in Bookings
            PROVE  /\ Append(entries, e) \in Seq(Bookings)
                   /\ \A i \in DOMAIN Append(entries, e) :
                        Append(entries, e)[i] = e \/ (i \in DOMAIN entries /\ Append(entries, e)[i] = entries[i])
        BY <4>1, AppendRow
      <4>3. QED BY <2>2, <3>1, <4>1, <4>2
    <3>3. \A i \in DOMAIN entries' : \A e : e = entries'[i] => Bookable(e)
      BY <3>1, <3>2 DEF LedgerInv
    <3>4. QED BY <1>2, <3>2, <3>3
  <2>3. QED BY <1>1, <2>1, <2>2
<1>5. CodesDiffer' /\ chart' \in [Acct -> Accounts]
  BY <1>1 DEF LedgerInv, CodesDiffer
<1>6. \A x \in Clerk : Unnamed(filing[x])'
  <2>1. entries' = entries \/ \E e \in Bookings : entries' = Append(entries, e)
    BY <1>1 DEF LedgerInv, Reasonable, Bookable
  <2>2. QED BY <1>1, <2>1, FiledKept, UnnamedKept
<1>7. QED BY <1>3, <1>4, <1>5, <1>6, FiledKept, <1>1 DEF LedgerInv

LEMMA LedgerNextInv == LedgerInv /\ [LedgerNext]_ledgerVars => LedgerInv'
<1> SUFFICES ASSUME LedgerInv, [LedgerNext]_ledgerVars PROVE LedgerInv'
  OBVIOUS
<1>1. CASE LedgerNext
  <2> PICK k \in Clerk :
          \/ WriteAccount(k) \/ WriteDeletion(k) \/ InsertEntry(k) \/ Abandon(k)
          \/ \E a \in Acct :
               \/ DeleteAcct(k, a)
               \/ \E code \in Code, type \in Type : NewAccount(k, a, code, type) \/ PatchAccount(k, a, code, type)
          \/ \E day \in Days, shape \in Shape :
               \E on \in [DOMAIN shape -> Acct] : CreateEntry(k, day, shape, on)
    BY <1>1 DEF LedgerNext
  <2>1. CASE WriteAccount(k) \/ WriteDeletion(k) \/ InsertEntry(k) \/ Abandon(k)
    BY <2>1, WriteAccountInv, WriteDeletionInv, InsertInv
  <2>2. CASE \E a \in Acct :
               \/ DeleteAcct(k, a)
               \/ \E code \in Code, type \in Type : NewAccount(k, a, code, type) \/ PatchAccount(k, a, code, type)
    BY <2>2, AskInv, DeleteInv
  <2>3. CASE \E day \in Days, shape \in Shape :
               \E on \in [DOMAIN shape -> Acct] : CreateEntry(k, day, shape, on)
    BY <2>3, CreateEntryInv
  <2>4. QED BY <2>1, <2>2, <2>3
<1>2. CASE UNCHANGED ledgerVars
  BY <1>2 DEF ledgerVars, LedgerInv, CodesDiffer, Reasonable, Unnamed, Bookable, AccountsStand
<1>3. QED BY <1>1, <1>2
-----------------------------------------------------------------------------
(* The lines a report sums, and their amounts.                              *)
Debits(from, to)  == [l \in Lines(from, to) |-> LineAt(l).debit]
Credits(from, to) == [l \in Lines(from, to) |-> LineAt(l).credit]
Weights(from, to) == [l \in Lines(from, to) |-> LineAt(l).debit - LineAt(l).credit]
Holder(from, to)  == [l \in Lines(from, to) |-> LineAt(l).acc]
Dated(from, to)   == {i \in DOMAIN entries : entries[i].day \in from .. to}
On(from, to, types) == {l \in Lines(from, to) : chart[LineAt(l).acc].type \in types}

LEMMA LineFacts ==
  ASSUME LedgerInv, NEW from, NEW to, NEW l \in Lines(from, to)
  PROVE  /\ l = <<l[1], l[2]>> /\ l[1] \in Dated(from, to) /\ l[2] \in DOMAIN entries[l[1]].lines
         /\ LineAt(l) \in Row
         /\ LineAt(l).acc \in Joined
<1>1. PICK i \in DOMAIN entries : entries[i].day \in from .. to /\ l \in {i} \X DOMAIN entries[i].lines
  BY DEF Lines
<1>2. l = <<l[1], l[2]>> /\ l[1] = i /\ l[2] \in DOMAIN entries[i].lines
  BY <1>1
<1>3. entries[i].lines \in Seq(Row) /\ AccountsStand(entries[i])
  BY DEF LedgerInv, Bookable, Bookings
<1>4. LineAt(l) \in Row /\ LineAt(l) = entries[i].lines[l[2]]
  BY <1>2, <1>3 DEF LineAt
<1>5. LineAt(l).acc \in Joined
  BY <1>2, <1>3, <1>4 DEF Joined, AccountsStand, Row
<1>6. QED BY <1>1, <1>2, <1>4, <1>5 DEF Dated

LEMMA AmountsTyped ==
  ASSUME LedgerInv, NEW from, NEW to
  PROVE  /\ Debits(from, to) \in [Lines(from, to) -> Int]
         /\ Credits(from, to) \in [Lines(from, to) -> Int]
         /\ Weights(from, to) \in [Lines(from, to) -> Int]
<1>1. \A l \in Lines(from, to) : LineAt(l).debit \in Nat /\ LineAt(l).credit \in Nat
  BY LineFacts DEF Row
<1>2. QED BY <1>1 DEF Debits, Credits, Weights

LEMMA LinesFinite ==
  ASSUME LedgerInv, NEW from, NEW to
  PROVE  IsFiniteSet(Lines(from, to)) /\ IsFiniteSet(Dated(from, to))
<1> DEFINE T == {{i} \X DOMAIN entries[i].lines : i \in Dated(from, to)}
           f == [i \in Dated(from, to) |-> {i} \X DOMAIN entries[i].lines]
<1>1. IsFiniteSet(Dated(from, to))
  <2>1. DOMAIN entries = 1 .. Len(entries) /\ Len(entries) \in Nat
    BY DEF LedgerInv
  <2>2. IsFiniteSet(DOMAIN entries)
    BY <2>1, FS_Interval
  <2>3. QED BY <2>2, FS_Subset DEF Dated
<1>2. f \in Surjection(Dated(from, to), T)
  BY DEF Surjection
<1>3. IsFiniteSet(T)
  BY <1>1, <1>2, FS_Surjection
<1>4. ASSUME NEW i \in Dated(from, to) PROVE IsFiniteSet({i} \X DOMAIN entries[i].lines)
  <2>1. Bookable(entries[i])
    BY DEF Dated, LedgerInv
  <2>2. DOMAIN entries[i].lines = 1 .. Len(entries[i].lines) /\ Len(entries[i].lines) \in Nat
    BY <2>1, BookableRows
  <2>3. IsFiniteSet(1 .. Len(entries[i].lines))
    BY <2>2, FS_Interval
  <2>4. IsFiniteSet({i})
    BY FS_Singleton
  <2>5. QED BY <2>2, <2>3, <2>4, FS_Product
<1>5. IsFiniteSet(UNION T)
  BY <1>3, <1>4, FS_UNION
<1>6. Lines(from, to) = UNION T
  BY DEF Lines, Dated
<1>7. QED BY <1>1, <1>5, <1>6

(* The accounts of a trial balance, and what it says of each.               *)
LEMMA TrialBalanceOf ==
  ASSUME LedgerInv, NEW from, NEW to
  PROVE  LET tb == TrialBalance(from, to)
             mine(a) == {l \in Lines(from, to) : Holder(from, to)[l] = a}
         IN  /\ \A l \in Lines(from, to) : Holder(from, to)[l] \in DOMAIN tb
             /\ IsFiniteSet(DOMAIN tb)
             /\ \A a \in DOMAIN tb :
                  /\ tb[a].debit = Net(mine(a), Debits(from, to)) /\ tb[a].debit \in Int
                  /\ tb[a].credit = Net(mine(a), Credits(from, to)) /\ tb[a].credit \in Int
<1> DEFINE all == Lines(from, to)
           tb == TrialBalance(from, to)
           mine(a) == {l \in all : Holder(from, to)[l] = a}
           named == {b \in Joined : \E l \in all : LineAt(l).acc = b}
           debitOf(a) == Net({l \in all : LineAt(l).acc = a}, [l \in {m \in all : LineAt(m).acc = a} |-> LineAt(l).debit])
           creditOf(a) == Net({l \in all : LineAt(l).acc = a}, [l \in {m \in all : LineAt(m).acc = a} |-> LineAt(l).credit])
<1>1. tb = [a \in named |-> [debit |-> debitOf(a), credit |-> creditOf(a)]]
  BY DEF TrialBalance, Sum
<1>2. DOMAIN tb = named /\ \A a \in named : tb[a].debit = debitOf(a) /\ tb[a].credit = creditOf(a)
  <2> HIDE DEF tb, named, debitOf, creditOf
  <2>1. QED BY <1>1
<1>3. \A l \in all : Holder(from, to)[l] = LineAt(l).acc /\ LineAt(l).acc \in named
  BY LineFacts DEF Holder
<1>4. IsFiniteSet(named)
  <2>1. Holder(from, to) \in Surjection(all, named)
    BY <1>3 DEF Surjection, Holder
  <2>2. QED BY <2>1, LinesFinite, FS_Surjection
<1>5. ASSUME NEW a \in named
      PROVE  /\ debitOf(a) = Net(mine(a), Debits(from, to)) /\ debitOf(a) \in Int
             /\ creditOf(a) = Net(mine(a), Credits(from, to)) /\ creditOf(a) \in Int
  <2> DEFINE S == {l \in all : LineAt(l).acc = a}
             debits == [l \in S |-> LineAt(l).debit]
             credits == [l \in S |-> LineAt(l).credit]
  <2>1. mine(a) = S
    BY <1>3
  <2>2. S \in SUBSET all /\ IsFiniteSet(S)
    BY LinesFinite, FS_Subset
  <2>3. \A l \in all : LineAt(l).debit \in Int /\ LineAt(l).credit \in Int
    BY LineFacts DEF Row
  <2>4. debits \in [S -> Int] /\ credits \in [S -> Int]
    BY <2>3
  <2>5. \A l \in S : debits[l] = Debits(from, to)[l] /\ credits[l] = Credits(from, to)[l]
    BY DEF Debits, Credits
  <2>6. debitOf(a) = Net(S, debits) /\ creditOf(a) = Net(S, credits)
    OBVIOUS
  <2> HIDE DEF S, debits, credits, debitOf, creditOf, mine
  <2>7. Net(S, debits) = Net(S, Debits(from, to)) /\ Net(S, credits) = Net(S, Credits(from, to))
    BY <2>2, <2>4, <2>5, AmountsTyped, NetSame
  <2>8. Net(S, debits) \in Int /\ Net(S, credits) \in Int
    BY <2>2, <2>4, NetInt
  <2>9. QED BY <2>1, <2>6, <2>7, <2>8
<1>6. QED
  <2> HIDE DEF debitOf, creditOf, named, tb
  <2>1. QED BY <1>2, <1>3, <1>4, <1>5 DEF tb

(* Each column of a trial balance sums its lines.                           *)
LEMMA Columns ==
  ASSUME LedgerInv, NEW from, NEW to
  PROVE  LET tb == TrialBalance(from, to)
         IN  /\ Net(DOMAIN tb, [a \in DOMAIN tb |-> tb[a].debit]) = Net(Lines(from, to), Debits(from, to))
             /\ Net(DOMAIN tb, [a \in DOMAIN tb |-> tb[a].credit]) = Net(Lines(from, to), Credits(from, to))
<1> DEFINE all == Lines(from, to)
           tb == TrialBalance(from, to)
           A == DOMAIN tb
           key == Holder(from, to)
           debits == [a \in A |-> tb[a].debit]
           credits == [a \in A |-> tb[a].credit]
<1>1. /\ \A l \in all : key[l] \in A
      /\ IsFiniteSet(A)
      /\ \A a \in A :
           /\ tb[a].debit = Net({l \in all : key[l] = a}, Debits(from, to)) /\ tb[a].debit \in Int
           /\ tb[a].credit = Net({l \in all : key[l] = a}, Credits(from, to)) /\ tb[a].credit \in Int
  BY TrialBalanceOf
<1> HIDE DEF A, tb, key
<1>2. debits \in [A -> Int] /\ credits \in [A -> Int]
  BY <1>1
<1>3. /\ \A a \in A : debits[a] = Net({l \in all : key[l] = a}, Debits(from, to))
      /\ \A a \in A : credits[a] = Net({l \in all : key[l] = a}, Credits(from, to))
  BY <1>1
<1>4. /\ all \in SUBSET all /\ IsFiniteSet(all)
      /\ Debits(from, to) \in [all -> Int] /\ Credits(from, to) \in [all -> Int]
  BY LinesFinite, AmountsTyped
<1> HIDE DEF debits, credits, all
<1>5. Net(A, debits) = Net(all, Debits(from, to))
  BY <1>1, <1>2, <1>3, <1>4, NetGrouped
<1>6. Net(A, credits) = Net(all, Credits(from, to))
  BY <1>1, <1>2, <1>3, <1>4, NetGrouped
<1>7. QED BY <1>5, <1>6 DEF debits, credits, A, tb, all

(* The lines of an entry are its sides.                                     *)
LEMMA EntryLines ==
  ASSUME LedgerInv, NEW from, NEW to, NEW i \in Dated(from, to)
  PROVE  LET its == {l \in Lines(from, to) : l[1] = i}
         IN  /\ Net(its, Debits(from, to)) = Side(entries[i], "debit")
             /\ Net(its, Credits(from, to)) = Side(entries[i], "credit")
             /\ Side(entries[i], "debit") = Side(entries[i], "credit")
             /\ Side(entries[i], "debit") \in Int
<1> DEFINE all == Lines(from, to)
           its == {l \in all : l[1] = i}
           ns == DOMAIN entries[i].lines
           f == [n \in ns |-> <<i, n>>]
           debits == [n \in ns |-> entries[i].lines[n].debit]
           credits == [n \in ns |-> entries[i].lines[n].credit]
<1>1. i \in DOMAIN entries /\ entries[i].lines \in Seq(Row) /\ Postable(entries[i])
  BY DEF Dated, LedgerInv, Bookable, Bookings
<1>2. \A n : <<i, n>> \in all <=> n \in ns
  BY DEF Lines, Dated
<1>3. IsFiniteSet(ns)
  <2>1. ns = 1 .. Len(entries[i].lines) /\ Len(entries[i].lines) \in Nat
    BY <1>1
  <2>2. QED BY <2>1, FS_Interval
<1>4. f \in Bijection(ns, its)
  <2>1. f \in [ns -> its]
    BY <1>2
  <2>2. \A n, m \in ns : f[n] = f[m] => n = m
    OBVIOUS
  <2>3. \A l \in its : l[2] \in ns /\ f[l[2]] = l
    BY LineFacts
  <2> HIDE DEF f, its, ns
  <2>4. QED BY <2>1, <2>2, <2>3 DEF Bijection, Injection, Surjection, IsInjective
<1>5. debits \in [ns -> Int] /\ credits \in [ns -> Int]
  <2>1. \A n \in ns : entries[i].lines[n].debit \in Nat /\ entries[i].lines[n].credit \in Nat
    BY BookableRows DEF Dated, LedgerInv
  <2>2. QED BY <2>1
<1>6. \A n \in ns : Debits(from, to)[f[n]] = debits[n] /\ Credits(from, to)[f[n]] = credits[n]
  BY <1>2 DEF Debits, Credits, LineAt
<1>7. Side(entries[i], "debit") = Net(ns, debits) /\ Side(entries[i], "credit") = Net(ns, credits)
  BY DEF Side
<1>8. Side(entries[i], "debit") = Side(entries[i], "credit")
  BY <1>1 DEF Postable
<1>9. its \in SUBSET all /\ ns \in SUBSET ns
  OBVIOUS
<1> HIDE DEF f, its, ns, debits, credits, all
<1>10. /\ Debits(from, to) \in [all -> Int] /\ Credits(from, to) \in [all -> Int]
  BY AmountsTyped DEF all
<1>11. Net(its, Debits(from, to)) = Net(ns, debits)
  BY <1>3, <1>4, <1>5, <1>6, <1>9, <1>10, NetRenamed
<1>12. Net(its, Credits(from, to)) = Net(ns, credits)
  BY <1>3, <1>4, <1>5, <1>6, <1>9, <1>10, NetRenamed
<1>13. Net(ns, debits) \in Int
  BY <1>3, <1>5, <1>9, NetInt
<1>14. QED BY <1>7, <1>8, <1>11, <1>12, <1>13 DEF its, all

(* Every entry balances, and so do the lines of any period.                 *)
LEMMA LinesBalance ==
  ASSUME LedgerInv, NEW from, NEW to
  PROVE  /\ Net(Lines(from, to), Debits(from, to)) = Net(Lines(from, to), Credits(from, to))
         /\ Net(Lines(from, to), Weights(from, to)) = 0
<1> DEFINE all == Lines(from, to)
           A == Dated(from, to)
           key == [l \in all |-> l[1]]
           h == [i \in A |-> Side(entries[i], "debit")]
<1>1. /\ all \in SUBSET all /\ IsFiniteSet(all) /\ IsFiniteSet(A)
      /\ Debits(from, to) \in [all -> Int] /\ Credits(from, to) \in [all -> Int]
      /\ Weights(from, to) \in [all -> Int]
  BY LinesFinite, AmountsTyped
<1>2. \A l \in all : key[l] \in A
  BY LineFacts
<1>3. /\ h \in [A -> Int]
      /\ \A i \in A : h[i] = Net({l \in all : key[l] = i}, Debits(from, to))
      /\ \A i \in A : h[i] = Net({l \in all : key[l] = i}, Credits(from, to))
  <2>1. ASSUME NEW i \in A
        PROVE  /\ h[i] \in Int
               /\ h[i] = Net({l \in all : key[l] = i}, Debits(from, to))
               /\ h[i] = Net({l \in all : key[l] = i}, Credits(from, to))
    <3>1. {l \in all : key[l] = i} = {l \in all : l[1] = i}
      OBVIOUS
    <3>2. /\ Net({l \in all : l[1] = i}, Debits(from, to)) = Side(entries[i], "debit")
          /\ Net({l \in all : l[1] = i}, Credits(from, to)) = Side(entries[i], "credit")
          /\ Side(entries[i], "debit") = Side(entries[i], "credit")
          /\ Side(entries[i], "debit") \in Int
      BY EntryLines
    <3>3. h[i] = Side(entries[i], "debit")
      OBVIOUS
    <3> HIDE DEF h, key, all
    <3>4. QED BY <3>1, <3>2, <3>3
  <2>2. QED BY <2>1
<1>4. \A l \in all : Weights(from, to)[l] = Debits(from, to)[l] - Credits(from, to)[l]
  BY DEF Weights, Debits, Credits
<1> HIDE DEF all, A, key, h
<1>5. Net(A, h) = Net(all, Debits(from, to))
  BY <1>1, <1>2, <1>3, NetGrouped
<1>6. Net(A, h) = Net(all, Credits(from, to))
  BY <1>1, <1>2, <1>3, NetGrouped
<1>7. Net(all, Weights(from, to)) = Net(all, Debits(from, to)) - Net(all, Credits(from, to))
  BY <1>1, <1>4, NetDifference
<1>8. Net(all, Debits(from, to)) \in Int
  BY <1>1, NetInt
<1>9. Net(all, Debits(from, to)) = Net(all, Credits(from, to))
  BY <1>5, <1>6
<1>10. Net(all, Weights(from, to)) = 0
  BY <1>7, <1>8, <1>9
<1>11. QED BY <1>9, <1>10 DEF all

(* The balance of the accounts of some types sums the lines on them.        *)
LEMMA BalanceOf ==
  ASSUME LedgerInv, NEW from, NEW to, NEW types
  PROVE  LET tb == TrialBalance(from, to)
         IN  /\ Balance(tb, OfTypes(tb, types)) = Net(On(from, to, types), Weights(from, to))
             /\ Balance(tb, OfTypes(tb, types)) \in Int
<1> DEFINE all == Lines(from, to)
           tb == TrialBalance(from, to)
           A == OfTypes(tb, types)
           S == On(from, to, types)
           key == Holder(from, to)
           h == [a \in A |-> tb[a].debit - tb[a].credit]
           mine(a) == {l \in all : key[l] = a}
<1>1. /\ \A l \in all : key[l] \in DOMAIN tb
      /\ IsFiniteSet(DOMAIN tb)
      /\ \A a \in DOMAIN tb :
           /\ tb[a].debit = Net(mine(a), Debits(from, to)) /\ tb[a].debit \in Int
           /\ tb[a].credit = Net(mine(a), Credits(from, to)) /\ tb[a].credit \in Int
  BY TrialBalanceOf
<1>2. /\ \A l \in all : key[l] = LineAt(l).acc
      /\ \A l \in all : l \in S <=> chart[key[l]].type \in types
      /\ S \in SUBSET all
  BY DEF Holder, On
<1>3. \A a : a \in A <=> a \in DOMAIN tb /\ chart[a].type \in types
  BY DEF OfTypes
<1>4. Balance(tb, A) = Net(A, h)
  BY DEF Balance, Sum
<1> HIDE DEF tb, A, S, key
<1>5. IsFiniteSet(A)
  BY <1>1, <1>3, FS_Subset
<1>6. \A l \in S : key[l] \in A
  BY <1>1, <1>2, <1>3
<1>7. /\ IsFiniteSet(all) /\ IsFiniteSet(S)
      /\ Debits(from, to) \in [all -> Int] /\ Credits(from, to) \in [all -> Int]
      /\ Weights(from, to) \in [all -> Int]
      /\ \A l \in all : Weights(from, to)[l] = Debits(from, to)[l] - Credits(from, to)[l]
  BY <1>2, LinesFinite, AmountsTyped, FS_Subset DEF Weights, Debits, Credits
<1>8. h \in [A -> Int]
  <2>1. \A a \in A : tb[a].debit \in Int /\ tb[a].credit \in Int
    BY <1>1, <1>3
  <2>2. QED BY <2>1
<1>9. ASSUME NEW a \in A PROVE h[a] = Net({l \in S : key[l] = a}, Weights(from, to))
  <2>1. {l \in S : key[l] = a} = mine(a)
    BY <1>2, <1>3
  <2>2. mine(a) \in SUBSET all /\ IsFiniteSet(mine(a))
    BY <1>7, FS_Subset
  <2>3. h[a] = Net(mine(a), Debits(from, to)) - Net(mine(a), Credits(from, to))
    BY <1>1, <1>3
  <2> HIDE DEF mine, all
  <2>4. Net(mine(a), Weights(from, to)) = Net(mine(a), Debits(from, to)) - Net(mine(a), Credits(from, to))
    BY <1>7, <2>2, NetDifference
  <2>5. QED BY <2>1, <2>3, <2>4
<1> HIDE DEF h, mine, all
<1>10. Net(A, h) = Net(S, Weights(from, to))
  BY <1>2, <1>5, <1>6, <1>7, <1>8, <1>9, NetGrouped
<1>11. Net(A, h) \in Int
  BY <1>5, <1>8, NetInt
<1>12. QED BY <1>4, <1>10, <1>11 DEF tb, A, S

(* Lines on accounts of different types are different lines.                *)
LEMMA TypesApart ==
  ASSUME LedgerInv, NEW from, NEW to, NEW some, NEW others, some \cap others = {}
  PROVE  Net(On(from, to, some \cup others), Weights(from, to))
           = Net(On(from, to, some), Weights(from, to)) + Net(On(from, to, others), Weights(from, to))
<1>1. /\ On(from, to, some \cup others) = On(from, to, some) \cup On(from, to, others)
      /\ On(from, to, some) \cap On(from, to, others) = {}
      /\ On(from, to, some) \in SUBSET Lines(from, to)
      /\ On(from, to, others) \in SUBSET Lines(from, to)
  BY DEF On
<1>2. IsFiniteSet(On(from, to, some)) /\ IsFiniteSet(On(from, to, others))
  BY <1>1, LinesFinite, FS_Subset
<1>3. Weights(from, to) \in [Lines(from, to) -> Int]
  BY AmountsTyped
<1> DEFINE S == On(from, to, some)
           T == On(from, to, others)
           all == Lines(from, to)
           w == Weights(from, to)
<1>4. /\ S \in SUBSET all /\ T \in SUBSET all /\ S \cap T = {} /\ IsFiniteSet(S) /\ IsFiniteSet(T)
      /\ w \in [all -> Int] /\ On(from, to, some \cup others) = S \cup T
  BY <1>1, <1>2, <1>3
<1> HIDE DEF S, T, all, w
<1>5. Net(S \cup T, w) = Net(S, w) + Net(T, w)
  BY <1>4, NetUnion
<1>6. QED BY <1>4, <1>5 DEF S, T, w

(* Assets = liabilities + equity + retained earnings.                       *)
LEMMA SheetBalances ==
  ASSUME LedgerInv, NEW end
  PROVE  LET b == BalanceSheet(end) IN b.assets = b.liabilities + b.equity + b.retained
<1> DEFINE of(types) == Net(On(1, end, types), Weights(1, end))
           tb == TrialBalance(1, end)
           bal(types) == Balance(tb, OfTypes(tb, types))
<1>1. \A types : bal(types) = of(types) /\ of(types) \in Int
  BY BalanceOf
<1>2. \A some, others : some \cap others = {} => of(some \cup others) = of(some) + of(others)
  BY TypesApart
<1>3. of({"asset", "liability", "equity", "income", "expense"}) = 0
  <2>1. ASSUME NEW l \in Lines(1, end) PROVE chart[LineAt(l).acc].type \in Type
    BY LineFacts DEF Joined, LedgerInv, Accounts, NoAccount
  <2>2. On(1, end, {"asset", "liability", "equity", "income", "expense"}) = Lines(1, end)
    BY <2>1, TypeAssumption DEF On
  <2>3. QED BY <2>2, LinesBalance
<1>4. of({"asset", "liability", "equity", "income", "expense"})
        = of({"asset"}) + of({"liability", "equity", "income", "expense"})
  <2>1. /\ {"asset", "liability", "equity", "income", "expense"} = {"asset"} \cup {"liability", "equity", "income", "expense"}
        /\ {"asset"} \cap {"liability", "equity", "income", "expense"} = {}
    OBVIOUS
  <2> HIDE DEF of
  <2>2. QED BY <1>2, <2>1
<1>5. of({"liability", "equity", "income", "expense"}) = of({"liability"}) + of({"equity", "income", "expense"})
  <2>1. /\ {"liability", "equity", "income", "expense"} = {"liability"} \cup {"equity", "income", "expense"}
        /\ {"liability"} \cap {"equity", "income", "expense"} = {}
    OBVIOUS
  <2> HIDE DEF of
  <2>2. QED BY <1>2, <2>1
<1>6. of({"equity", "income", "expense"}) = of({"equity"}) + of({"income", "expense"})
  <2>1. /\ {"equity", "income", "expense"} = {"equity"} \cup {"income", "expense"}
        /\ {"equity"} \cap {"income", "expense"} = {}
    OBVIOUS
  <2> HIDE DEF of
  <2>2. QED BY <1>2, <2>1
<1>7. of({"income", "expense"}) = of({"income"}) + of({"expense"})
  <2>1. {"income", "expense"} = {"income"} \cup {"expense"} /\ {"income"} \cap {"expense"} = {}
    OBVIOUS
  <2> HIDE DEF of
  <2>2. QED BY <1>2, <2>1
<1>8. /\ BalanceSheet(end).assets = bal({"asset"})
      /\ BalanceSheet(end).liabilities = - bal({"liability"})
      /\ BalanceSheet(end).equity = - bal({"equity"})
      /\ BalanceSheet(end).retained = - bal({"income"}) - bal({"expense"})
  BY DEF BalanceSheet
<1> DEFINE ass == of({"asset"})
           li == of({"liability"})
           eq == of({"equity"})
           inc == of({"income"})
           ex == of({"expense"})
<1>9. ass \in Int /\ li \in Int /\ eq \in Int /\ inc \in Int /\ ex \in Int
  BY <1>1
<1>10. 0 = ass + (li + (eq + (inc + ex)))
  BY <1>3, <1>4, <1>5, <1>6, <1>7
<1>11. /\ BalanceSheet(end).assets = ass
       /\ BalanceSheet(end).liabilities = - li
       /\ BalanceSheet(end).equity = - eq
       /\ BalanceSheet(end).retained = - inc - ex
  BY <1>1, <1>8
<1> HIDE DEF ass, li, eq, inc, ex
<1>12. ass = 0 - li + (0 - eq) + ((0 - inc) - ex)
  BY <1>9, <1>10
<1>13. QED BY <1>9, <1>11, <1>12

(* Two periods that meet share no line and miss none.                       *)
LEMMA PeriodsMeet ==
  ASSUME LedgerInv, NEW from \in Days, NEW to \in Days, from <= to, NEW types
  PROVE  Net(On(1, from - 1, types), Weights(1, from - 1)) + Net(On(from, to, types), Weights(from, to))
           = Net(On(1, to, types), Weights(1, to))
<1> DEFINE S == On(1, from - 1, types)
           T == On(from, to, types)
           w == Weights(1, to)
<1>1. /\ Lines(1, from - 1) \cup Lines(from, to) = Lines(1, to)
      /\ Lines(1, from - 1) \cap Lines(from, to) = {}
  <2>1. from \in Int /\ to \in Int /\ 1 <= from
    BY DEF Days
  <2>2. /\ Dated(1, from - 1) \cup Dated(from, to) = Dated(1, to)
        /\ Dated(1, from - 1) \cap Dated(from, to) = {}
    <3>1. \A i \in DOMAIN entries : entries[i].day \in Int
      BY LedgerBounds DEF LedgerInv, Bookable, Bookings, Days
    <3>2. QED BY <2>1, <3>1 DEF Dated
  <2>3. \A a, b : \A l : l \in Lines(a, b) <=> \E i \in Dated(a, b) : l \in {i} \X DOMAIN entries[i].lines
    BY DEF Lines, Dated
  <2>4. QED BY <2>2, <2>3
<1>2. /\ S \cup T = On(1, to, types) /\ S \cap T = {}
      /\ S \in SUBSET Lines(1, from - 1) /\ T \in SUBSET Lines(from, to)
      /\ S \in SUBSET Lines(1, to) /\ T \in SUBSET Lines(1, to)
  BY <1>1 DEF On
<1>3. IsFiniteSet(S) /\ IsFiniteSet(T)
  BY <1>2, LinesFinite, FS_Subset
<1>4. /\ \A l \in S : w[l] = Weights(1, from - 1)[l]
      /\ \A l \in T : w[l] = Weights(from, to)[l]
  BY <1>2 DEF Weights
<1> HIDE DEF S, T, w
<1>5. /\ w \in [Lines(1, to) -> Int]
      /\ Weights(1, from - 1) \in [Lines(1, from - 1) -> Int]
      /\ Weights(from, to) \in [Lines(from, to) -> Int]
  BY AmountsTyped DEF w
<1>6. Net(S, w) = Net(S, Weights(1, from - 1))
  BY <1>2, <1>3, <1>4, <1>5, NetSame
<1>7. Net(T, w) = Net(T, Weights(from, to))
  BY <1>2, <1>3, <1>4, <1>5, NetSame
<1>8. Net(S \cup T, w) = Net(S, w) + Net(T, w)
  BY <1>2, <1>3, <1>5, NetUnion
<1>9. QED BY <1>2, <1>6, <1>7, <1>8 DEF S, T, w

LEMMA ProfitsAddUp ==
  ASSUME LedgerInv, NEW from \in Days, NEW to \in Days, from <= to
  PROVE  Pnl(1, from - 1) + Pnl(from, to) = BalanceSheet(to).retained
<1> DEFINE bal(a, b, types) == Balance(TrialBalance(a, b), OfTypes(TrialBalance(a, b), types))
<1>1. \A a, b, types : bal(a, b, types) = Net(On(a, b, types), Weights(a, b)) /\ bal(a, b, types) \in Int
  BY BalanceOf
<1>2. \A types : bal(1, from - 1, types) + bal(from, to, types) = bal(1, to, types)
  BY <1>1, PeriodsMeet
<1>3. /\ Pnl(1, from - 1) = - bal(1, from - 1, {"income"}) - bal(1, from - 1, {"expense"})
      /\ Pnl(from, to) = - bal(from, to, {"income"}) - bal(from, to, {"expense"})
      /\ BalanceSheet(to).retained = - bal(1, to, {"income"}) - bal(1, to, {"expense"})
  BY DEF Pnl, BalanceSheet
<1> HIDE DEF bal
<1>4. /\ bal(1, from - 1, {"income"}) \in Int /\ bal(1, from - 1, {"expense"}) \in Int
      /\ bal(from, to, {"income"}) \in Int /\ bal(from, to, {"expense"}) \in Int
      /\ bal(1, from - 1, {"income"}) + bal(from, to, {"income"}) = bal(1, to, {"income"})
      /\ bal(1, from - 1, {"expense"}) + bal(from, to, {"expense"}) = bal(1, to, {"expense"})
  BY <1>1, <1>2
<1>5. QED BY <1>3, <1>4

(* However accounts are created, changed and deleted while entries are on   *)
(* their way: the trial balance nets to zero, assets are liabilities, equity *)
(* and retained earnings, the profits of periods add up, history keeps its  *)
(* accounts, and codes are unique.                                          *)
THEOREM ReportsKept == LedgerSpec => []ReportsReconcile
<1>1. LedgerInv => ReportsReconcile
  <2> SUFFICES ASSUME LedgerInv PROVE ReportsReconcile
    OBVIOUS
  <2>1. ASSUME NEW from \in Days, NEW to \in Days
        PROVE  LET tb == TrialBalance(from, to)
               IN  /\ Sum(DOMAIN tb, [a \in DOMAIN tb |-> tb[a].debit]) = Sum(DOMAIN tb, [a \in DOMAIN tb |-> tb[a].credit])
                   /\ from <= to => Pnl(1, from - 1) + Pnl(from, to) = BalanceSheet(to).retained
    BY Columns, LinesBalance, ProfitsAddUp DEF Sum
  <2>2. \A end \in Days : LET b == BalanceSheet(end) IN b.assets = b.liabilities + b.equity + b.retained
    BY SheetBalances
  <2>3. \A i \in DOMAIN entries : \A a \in Acct \ astray : Names(entries[i], a) => a \in LiveAccts
    BY DEF LedgerInv, Bookable, AccountsStand, Names, LiveAccts
  <2>4. QED BY <2>1, <2>2, <2>3 DEF ReportsReconcile, LedgerInv, CodesDiffer
<1>2. QED BY <1>1, LedgerInitInv, LedgerNextInv, PTL DEF LedgerSpec
=============================================================================
