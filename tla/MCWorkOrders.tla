---------------------------- MODULE MCWorkOrders ----------------------------
(* Two orders of one project.                                               *)
EXTENDS WorkOrders, TLC

Interchangeable == Permutations(Req) \cup Permutations(WO)
=============================================================================
