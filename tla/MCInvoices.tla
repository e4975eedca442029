----------------------------- MODULE MCInvoices -----------------------------
(* Small instances of Invoices: invoices i1 (which ships stock) and i2, and *)
(* a bill b1.  Requests are interchangeable: nothing compares or orders     *)
(* them.                                                                    *)
EXTENDS Invoices, TLC

Requests == Permutations(Req)
=============================================================================
