---------------------------- MODULE MCInventory ----------------------------
(* Small instances of Inventory: one product in two warehouses. *)
EXTENDS Inventory
CONSTANTS p, a, b

MCKeys == {<<p, a>>, <<p, b>>}
MCOpening == [k \in {p} \X {a, b} |-> IF k = <<p, a>> THEN 2 ELSE 0]

Leg(w, n) == [key |-> <<p, w>>, delta |-> n]
Movement(w, n) == [kind |-> "movement", legs |-> <<Leg(w, n)>>]
Transfer(v, w, n) == [kind |-> "transfer", legs |-> <<Leg(v, -n), Leg(w, n)>>]
Invoice(legs) == [kind |-> "batch", legs |-> legs]

(* Documents that compete for the two units in a: an issue, a receipt in b, *)
(* a transfer a -> b, and an invoice of two lines.                          *)
Mixed == {Movement(a, -2), Movement(b, 1), Transfer(a, b, 1),
          Invoice(<<Leg(a, -1), Leg(b, -1)>>)}

ThreeLines == {Invoice(<<Leg(a, -1), Leg(a, -1), Leg(b, -1)>>), Movement(b, 1),
               Transfer(a, b, 1)}
=============================================================================
