------------------------------ MODULE MCBooks ------------------------------
(* Invoices, and the ledger with its chart of accounts.  The two share no  *)
(* variable, so that every interleaving projects to the same behaviours of  *)
(* each: the bound of this instance is that a behaviour takes steps of one  *)
(* of them.  Requests are interchangeable, and so are clerks.               *)
EXTENDS MCInvoices, Ledger

CONSTANTS bank, sales, spare

MCStarter == [a \in {bank, sales, spare} |->
                IF a = bank THEN [state |-> "live", code |-> "1000", type |-> "asset"]
                ELSE IF a = sales THEN [state |-> "live", code |-> "4000", type |-> "income"]
                ELSE NoAccount]
Dr(n) == [debit |-> n, credit |-> 0]
Cr(n) == [debit |-> 0, credit |-> n]
(* An entry that posts, and entries that are to be refused.                 *)
MCShape == {<<Dr(2), Cr(2)>>, <<Dr(1), Cr(2)>>, <<[debit |-> 1, credit |-> 1], Dr(0)>>}

Anyone    == Requests \cup Permutations(Clerk)
BooksInit == Init /\ LedgerInit
BooksNext == \/ LedgerInit /\ Next /\ UNCHANGED ledgerVars
             \/ Init /\ LedgerNext /\ UNCHANGED vars
BooksSpec == BooksInit /\ [][BooksNext]_<<vars, ledgerVars>>
=============================================================================
