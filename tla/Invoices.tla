------------------------------ MODULE Invoices ------------------------------
(***************************************************************************)
(* Invoices and bills of modules/finance: numbering, posting, payments,    *)
(* voiding.  A handler reads the document once, decides on that copy, and  *)
(* then writes one collection after the other (counters, stock, journal,   *)
(* payments, the document) with an await before each; the last write sets  *)
(* fields computed from the copy, without looking at the document again.   *)
(***************************************************************************)
EXTENDS SignedSum, Sequences

CONSTANTS
  Req,         \* requests, one handler each
  Docs,        \* invoices and bills, all created as drafts
  Bills,       \* those of Docs that are bills
  Shipping,    \* invoices with inventory_issue set
  Totals,      \* possible document totals
  Amounts,     \* possible payments
  Ops,         \* the operations users ask for
  Faults,      \* what may go wrong
  Overlap      \* TRUE if two handlers may work on one document at once

AllOps     == {"send", "void", "pay", "edit", "delete"}
FaultKinds == {"stock",   \* a line of the invoice cannot be issued
               "entry",   \* _post_entry raises, nothing written
               "crash"}   \* the handler ends between two awaits
Kinds      == {"invoice", "bill"}

ASSUME BillsAssumption    == Bills \subseteq Docs /\ Shipping \subseteq Docs \ Bills
ASSUME TotalsAssumption   == Totals \subseteq Nat \ {0} /\ Amounts \subseteq Nat \ {0}
ASSUME OpsAssumption      == Ops \subseteq AllOps /\ Faults \subseteq FaultKinds
ASSUME OverlapAssumption  == Overlap \in BOOLEAN

VARIABLES
  pc, task, seen, num, target,     \* per request: its step, what it was asked,
                                   \* the document as read, the number claimed,
                                   \* the journal entry it works on
  dead,                            \* requests whose handler was cut off
  status, total, paid, number, live,  \* the documents
  counter,                         \* counters.seq, per kind of document
  journal,                         \* posted entries, in order
  received,                        \* sum of the payment rows, per document
  shipped                          \* how often a document's stock is issued

handlerVars == <<pc, task, seen, num, target, dead>>
docVars     == <<status, total, paid, number, live>>
bookVars    == <<counter, journal, received, shipped>>
vars        == <<handlerVars, docVars, bookVars>>

Statuses == {"draft", "sent", "partly_paid", "paid", "void"}
PcStates == {"idle", "number", "stock", "entry", "mark", "payment", "write", "ended"}
Tasks    == [op : AllOps, doc : Docs, arg : Nat]
NoTask   == [op |-> "none", doc |-> "none", arg |-> 0]

KindOf(d) == IF d \in Bills THEN "bill" ELSE "invoice"
Doc(r)    == task[r].doc
Busy(r)   == pc[r] \notin {"idle", "ended"} /\ r \notin dead
AtWork(d) == \E r \in Req : Busy(r) /\ Doc(r) = d

(* An entry's amount is what it adds to the receivable (or payable) of its  *)
(* document; `by` is the request that posted it, reverses the index of the  *)
(* entry it was marked to reverse, 0 for none.                              *)
Entry(d, source, amount, r) ==
  [doc |-> d, source |-> source, amount |-> amount, by |-> r, reverses |-> 0]

EntriesOf(d) == {i \in DOMAIN journal : journal[i].doc = d}
EntryAmount  == [i \in DOMAIN journal |-> journal[i].amount]
Owed(d)      == Net(EntriesOf(d), EntryAmount)

(* _status_for *)
StatusFor(p, t) == IF p <= 0 THEN "sent" ELSE IF p < t THEN "partly_paid" ELSE "paid"

Init ==
  /\ pc = [r \in Req |-> "idle"]
  /\ task = [r \in Req |-> NoTask]
  /\ seen = [r \in Req |-> [status |-> "draft", total |-> 0, paid |-> 0]]
  /\ num = [r \in Req |-> 0]
  /\ target = [r \in Req |-> 0]
  /\ dead = {}
  /\ status = [d \in Docs |-> "draft"]
  /\ total \in [Docs -> Totals]
  /\ paid = [d \in Docs |-> 0]
  /\ number = [d \in Docs |-> 0]
  /\ live = Docs
  /\ counter = [k \in Kinds |-> 0]
  /\ journal = <<>>
  /\ received = [d \in Docs |-> 0]
  /\ shipped = [d \in Docs |-> 0]
-----------------------------------------------------------------------------
Ready(r, s) == pc[r] = s /\ r \notin dead
Goto(r, s)  == pc' = [pc EXCEPT ![r] = s]
Asked(r, op) == task[r].op = op

(* The checks made on the document as read.                                 *)

(* Mutant of IsDraft: only a void document is refused. *)
NotVoid(d) == status[d] # "void"

IsDraft(d) == status[d] = "draft"
CanVoid(d) == d \notin Bills /\ status[d] \notin {"void", "draft"} /\ paid[d] <= 0

(* Mutant of CanPay: no comparison with what is outstanding. *)
CanPayAnything(d, amount) == status[d] \notin {"draft", "void"}

CanPay(d, amount) ==
  status[d] \notin {"draft", "void"} /\ amount <= total[d] - paid[d]

Accepts(op, d, arg) ==
  /\ d \in live
  /\ \/ op \in {"send", "delete"} /\ arg = 0 /\ IsDraft(d)
     \/ op = "edit" /\ arg \in Totals /\ IsDraft(d)
     \/ op = "void" /\ arg = 0 /\ CanVoid(d)
     \/ op = "pay" /\ arg \in Amounts /\ CanPay(d, arg)

FirstStep(op) ==
  CASE op = "send" -> "number"
    [] op \in {"void", "pay"} -> "entry"
    [] OTHER -> "write"

(* void_invoice also looks up the entry to reverse: the first of the        *)
(* invoice's own entries that is not itself a reversal.                     *)
Reversible(d) ==
  {i \in EntriesOf(d) : journal[i].source = "document" /\ journal[i].reverses = 0}
ToReverse(op, d) ==
  IF op = "void" THEN CHOOSE i \in Reversible(d) : \A j \in Reversible(d) : i <= j ELSE 0

(* The read, its checks and the look-up, at once: a request refused by them *)
(* has written nothing and is not a step.  The first own entry of an        *)
(* invoice never changes, so looking it up earlier finds the same one.      *)
Begin(r) ==
  /\ Ready(r, "idle")
  /\ \E op \in Ops, d \in Docs, arg \in Totals \cup Amounts \cup {0} :
       /\ Accepts(op, d, arg)
       /\ Overlap \/ ~ AtWork(d)
       /\ op = "void" => Reversible(d) # {}
       /\ task' = [task EXCEPT ![r] = [op |-> op, doc |-> d, arg |-> arg]]
       /\ seen' = [seen EXCEPT ![r] =
                     [status |-> status[d], total |-> total[d], paid |-> paid[d]]]
       /\ target' = [target EXCEPT ![r] = ToReverse(op, d)]
       /\ Goto(r, FirstStep(op))
  /\ UNCHANGED <<num, dead, docVars, bookVars>>

(* Mutant of ClaimNumber: the number is read and not taken. *)
PeekNumber(r) ==
  /\ Ready(r, "number")
  /\ num' = [num EXCEPT ![r] = counter[KindOf(Doc(r))] + 1]
  /\ Goto(r, IF Doc(r) \in Shipping THEN "stock" ELSE "entry")
  /\ UNCHANGED <<task, seen, target, dead, docVars, bookVars>>

(* next_number: one atomic $inc.  An invoice that ships goes on to its      *)
(* stock, any other document to its entry.                                  *)
ClaimNumber(r) ==
  LET k == KindOf(Doc(r))
  IN  /\ Ready(r, "number")
      /\ counter' = [counter EXCEPT ![k] = @ + 1]
      /\ num' = [num EXCEPT ![r] = counter'[k]]
      /\ Goto(r, IF Doc(r) \in Shipping THEN "stock" ELSE "entry")
      /\ UNCHANGED <<task, seen, target, dead, docVars, journal, received, shipped>>

(* _issue_stock_for: all lines or none (see Inventory), or INSUFFICIENT_STOCK *)
IssueStock(r) ==
  /\ Ready(r, "stock")
  /\ shipped' = [shipped EXCEPT ![Doc(r)] = @ + 1]
  /\ Goto(r, "entry")
  /\ UNCHANGED <<task, seen, num, target, dead, docVars, counter, journal, received>>

StockShort(r) ==
  /\ Ready(r, "stock") /\ "stock" \in Faults
  /\ Goto(r, "ended")
  /\ UNCHANGED <<task, seen, num, target, dead, docVars, bookVars>>

(* What the entry of each operation does to the document's account.         *)
Posting(r) ==
  CASE Asked(r, "send") -> Entry(Doc(r), "document", seen[r].total, r)
    [] Asked(r, "void") -> Entry(Doc(r), "document", -journal[target[r]].amount, r)
    [] Asked(r, "pay")  -> Entry(Doc(r), "payment", -task[r].arg, r)

AfterPosting(r) ==
  CASE Asked(r, "send") -> "write"
    [] Asked(r, "void") -> "mark"
    [] Asked(r, "pay")  -> "payment"

PostEntry(r) ==
  /\ Ready(r, "entry")
  /\ journal' = Append(journal, Posting(r))
  /\ Goto(r, AfterPosting(r))
  /\ UNCHANGED <<task, seen, num, target, dead, docVars, counter, received, shipped>>

(* _post_entry raises: a send returns the stock it issued, and that is all. *)
PostingRaises(r) ==
  /\ Ready(r, "entry") /\ "entry" \in Faults
  /\ shipped' = IF Asked(r, "send") /\ Doc(r) \in Shipping
                THEN [shipped EXCEPT ![Doc(r)] = @ - 1] ELSE shipped
  /\ Goto(r, "ended")
  /\ UNCHANGED <<task, seen, num, target, dead, docVars, counter, journal, received>>

(* A voided invoice's reversal is marked with the entry it reverses.        *)
MyEntry(r) == CHOOSE i \in DOMAIN journal : journal[i].by = r
MarkReversal(r) ==
  /\ Ready(r, "mark")
  /\ journal' = [journal EXCEPT ![MyEntry(r)].reverses = target[r]]
  /\ Goto(r, "write")
  /\ UNCHANGED <<task, seen, num, target, dead, docVars, counter, received, shipped>>

InsertPayment(r) ==
  /\ Ready(r, "payment")
  /\ received' = [received EXCEPT ![Doc(r)] = @ + task[r].arg]
  /\ Goto(r, "write")
  /\ UNCHANGED <<task, seen, num, target, dead, docVars, counter, journal, shipped>>
-----------------------------------------------------------------------------
(* The last write: an unconditional $set of fields computed from the copy.  *)
WriteSent(r) ==
  /\ Asked(r, "send")
  /\ status' = [status EXCEPT ![Doc(r)] = "sent"]
  /\ number' = [number EXCEPT ![Doc(r)] = num[r]]
  /\ UNCHANGED <<total, paid, live>>

WriteVoid(r) ==
  /\ Asked(r, "void")
  /\ status' = [status EXCEPT ![Doc(r)] = "void"]
  /\ UNCHANGED <<number, total, paid, live>>

(* Mutant of WritePaid: the paid amount is that of the last payment. *)
WriteLastPayment(r) ==
  /\ Asked(r, "pay")
  /\ paid' = [paid EXCEPT ![Doc(r)] = task[r].arg]
  /\ status' = [status EXCEPT ![Doc(r)] = StatusFor(task[r].arg, seen[r].total)]
  /\ UNCHANGED <<number, total, live>>

WritePaid(r) ==
  LET p == seen[r].paid + task[r].arg
  IN  /\ Asked(r, "pay")
      /\ paid' = [paid EXCEPT ![Doc(r)] = p]
      /\ status' = [status EXCEPT ![Doc(r)] = StatusFor(p, seen[r].total)]
      /\ UNCHANGED <<number, total, live>>

WriteEdit(r) ==
  /\ Asked(r, "edit")
  /\ total' = [total EXCEPT ![Doc(r)] = task[r].arg]
  /\ UNCHANGED <<number, status, paid, live>>

WriteDeleted(r) ==
  /\ Asked(r, "delete")
  /\ live' = live \ {Doc(r)}
  /\ UNCHANGED <<number, status, total, paid>>

WriteDoc(r) ==
  /\ Ready(r, "write")
  /\ WriteSent(r) \/ WriteVoid(r) \/ WritePaid(r) \/ WriteEdit(r) \/ WriteDeleted(r)
  /\ Goto(r, "ended")
  /\ UNCHANGED <<task, seen, num, target, dead, bookVars>>

(* The worker dies, or a later write raises: what was written stays.        *)
Crash(r) ==
  /\ "crash" \in Faults /\ Busy(r)
  /\ dead' = dead \cup {r}
  /\ UNCHANGED <<pc, task, seen, num, target, docVars, bookVars>>

Handler(r) ==
  \/ ClaimNumber(r) \/ IssueStock(r) \/ StockShort(r)
  \/ PostEntry(r) \/ PostingRaises(r) \/ MarkReversal(r) \/ InsertPayment(r)
  \/ WriteDoc(r)

(* Nobody asks for anything more. *)
Quiet == (\A r \in Req : ~ Busy(r)) /\ UNCHANGED vars

Next == (\E r \in Req : Begin(r) \/ Handler(r) \/ Crash(r)) \/ Quiet

Spec == Init /\ [][Next]_vars
-----------------------------------------------------------------------------
TypeOK ==
  /\ pc \in [Req -> PcStates]
  /\ task \in [Req -> Tasks \cup {NoTask}]
  /\ \A r \in Req : pc[r] # "idle" => task[r] \in Tasks
  /\ seen \in [Req -> [status : Statuses, total : Nat, paid : Nat]]
  /\ num \in [Req -> Nat]
  /\ target \in [Req -> 0 .. Len(journal)]
  /\ dead \subseteq Req
  /\ status \in [Docs -> Statuses]
  /\ total \in [Docs -> Totals]
  /\ paid \in [Docs -> Nat]
  /\ number \in [Docs -> Nat]
  /\ live \subseteq Docs
  /\ counter \in [Kinds -> Nat]
  /\ journal \in Seq([doc : Docs, source : {"document", "payment"}, amount : Int,
                       by : Req, reverses : Nat])
  /\ received \in [Docs -> Nat]
  /\ shipped \in [Docs -> Nat]

(* The counter's $inc is atomic, "so two concurrent posts can never take    *)
(* the same number" (next_number): whatever sends overlap or crash, no two  *)
(* documents of a kind carry one number.                                    *)
NumbersUnique ==
  \A d, e \in Docs :
    KindOf(d) = KindOf(e) /\ number[d] = number[e] /\ number[d] # 0 => d = e

(* A payment may not exceed what is outstanding (create_payment): although  *)
(* payments, voids and sends of one document overlap, and each writes from  *)
(* its own copy, the paid amount never passes the total.  (For requests     *)
(* without edits: one that read the draft may lower the total of a document *)
(* that was sent and paid since.)                                           *)
PaidWithinTotal == \A d \in Docs : paid[d] <= total[d]

(* The journal, the payment rows and the stock agree with a document nobody *)
(* is working on and no handler was cut off on: it is owed what is not yet  *)
(* paid, nothing before it is sent or after it is void, its payments are    *)
(* the paid amount, and its stock was issued once, when it was sent.        *)
Undisturbed(d) == ~ AtWork(d) /\ \A r \in dead : Doc(r) # d
BooksMatchDocs ==
  \A d \in Docs : Undisturbed(d) =>
    /\ Owed(d) = IF status[d] \in {"draft", "void"} THEN 0 ELSE total[d] - paid[d]
    /\ received[d] = paid[d]
    /\ shipped[d] = IF d \in Shipping /\ status[d] # "draft" THEN 1 ELSE 0
    /\ status[d] \notin {"draft", "void"} => status[d] = StatusFor(paid[d], total[d])
-----------------------------------------------------------------------------
(* The account as its users see it: what a document is owed by the entries  *)
(* of requests that are through.                                            *)
OwedSoFar ==
  [d \in Docs |-> Net({i \in EntriesOf(d) : pc[journal[i].by] = "ended"}, EntryAmount)]

Account == INSTANCE Receivables WITH owed <- OwedSoFar

(* While users wait for one answer about a document before they ask the     *)
(* next, every handler acts as one step on the document and its account.    *)
ImplementsReceivables == Account!Spec
=============================================================================
