----------------------------- MODULE SignedSum -----------------------------
(***************************************************************************)
(* The sum of integer quantities over a finite set, as a difference of two *)
(* cardinalities.  A ledger total is `{"$sum": "$qty"}` in the aggregation *)
(* pipelines of the repositories; a quantity here is d[x] for a row x.     *)
(* Written without recursion so that what adding or removing one row does  *)
(* to a total can be proved and not only evaluated.                        *)
(***************************************************************************)
EXTENDS Integers, FiniteSets

(* One element per unit of w[s], for each s in S. *)
Units(S, w) == UNION {{s} \X (1 .. w[s]) : s \in S}

Gains(d)  == [x \in DOMAIN d |-> IF d[x] > 0 THEN d[x] ELSE 0]
Losses(d) == [x \in DOMAIN d |-> IF d[x] < 0 THEN -d[x] ELSE 0]

(* The sum of d[x] over x in S. *)
Net(S, d) == Cardinality(Units(S, Gains(d))) - Cardinality(Units(S, Losses(d)))
=============================================================================
