---------------------------- MODULE StockPromise ----------------------------
(***************************************************************************)
(* What the stock ledger promises its users (INVENTORY.md sections 2 and   *)
(* 6), with no steps inside: a document is entered whole, in the ledger    *)
(* and on the stock levels at once, or it leaves no trace; and once        *)
(* entered it stays.                                                       *)
(***************************************************************************)
EXTENDS SignedSum, Sequences

CONSTANTS Req, Keys, Plans, Opening

VARIABLES
  plan,    \* the document of each request
  answer,  \* "open" until its handler is through, then "kept" or "dropped"
  book,    \* the stock levels
  ledger   \* the rows <<r, i>> of kept documents

vars == <<plan, answer, book, ledger>>

(* What document d does to the stock level of k. *)
Effect(d, k) ==
  Net({i \in 1 .. Len(d.legs) : d.legs[i].key = k},
      [i \in 1 .. Len(d.legs) |-> d.legs[i].delta])

Init ==
  /\ plan \in [Req -> Plans]
  /\ answer = [r \in Req |-> "open"]
  /\ book = Opening
  /\ ledger = {}

Keep(r) ==
  /\ answer[r] = "open"
  /\ answer' = [answer EXCEPT ![r] = "kept"]
  /\ book' = [k \in Keys |-> book[k] + Effect(plan[r], k)]
  /\ ledger' = ledger \cup ({r} \X (1 .. Len(plan[r].legs)))
  /\ UNCHANGED plan

Drop(r) ==
  /\ answer[r] = "open"
  /\ answer' = [answer EXCEPT ![r] = "dropped"]
  /\ UNCHANGED <<plan, book, ledger>>

Next == \E r \in Req : Keep(r) \/ Drop(r)
Spec == Init /\ [][Next]_vars
=============================================================================
