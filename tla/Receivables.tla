---------------------------- MODULE Receivables ----------------------------
(***************************************************************************)
(* The life of an invoice or bill with its account (FINANCE.md section 2): *)
(* sending charges the total, a payment takes its amount off, voiding an   *)
(* unpaid invoice takes everything off again; each in one step.            *)
(***************************************************************************)
EXTENDS Integers

CONSTANTS Docs, Bills, Totals, Amounts

VARIABLES status, total, paid, live,
          owed  \* the balance of each document's journal entries

vars == <<status, total, paid, live, owed>>

Init ==
  /\ status = [d \in Docs |-> "draft"]
  /\ total \in [Docs -> Totals]
  /\ paid = [d \in Docs |-> 0]
  /\ live = Docs
  /\ owed = [d \in Docs |-> 0]

Send(d) ==
  /\ d \in live /\ status[d] = "draft"
  /\ status' = [status EXCEPT ![d] = "sent"]
  /\ owed' = [owed EXCEPT ![d] = @ + total[d]]
  /\ UNCHANGED <<total, paid, live>>

Pay(d, amount) ==
  /\ d \in live /\ status[d] \in {"sent", "partly_paid"}
  /\ amount <= owed[d]
  /\ owed' = [owed EXCEPT ![d] = @ - amount]
  /\ paid' = [paid EXCEPT ![d] = @ + amount]
  /\ status' = [status EXCEPT ![d] = IF owed'[d] = 0 THEN "paid" ELSE "partly_paid"]
  /\ UNCHANGED <<total, live>>

Void(d) ==
  /\ d \in live \ Bills /\ status[d] = "sent"
  /\ status' = [status EXCEPT ![d] = "void"]
  /\ owed' = [owed EXCEPT ![d] = 0]
  /\ UNCHANGED <<total, paid, live>>

Edit(d, t) ==
  /\ d \in live /\ status[d] = "draft"
  /\ total' = [total EXCEPT ![d] = t]
  /\ UNCHANGED <<status, paid, live, owed>>

Delete(d) ==
  /\ d \in live /\ status[d] = "draft"
  /\ live' = live \ {d}
  /\ UNCHANGED <<status, total, paid, owed>>

Next ==
  \E d \in Docs :
    \/ Send(d) \/ Void(d) \/ Delete(d)
    \/ \E a \in Amounts : Pay(d, a)
    \/ \E t \in Totals : Edit(d, t)

Spec == Init /\ [][Next]_vars
=============================================================================
