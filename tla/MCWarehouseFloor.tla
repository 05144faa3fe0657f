--------------------------- MODULE MCWarehouseFloor ---------------------------
(* Two warehouses, two transfers and two picks of up to two units.           *)
EXTENDS WarehouseFloor, TLC

CONSTANTS w1, w2, l1, l2

MCSiteOf == l1 :> w1 @@ l2 :> w1
Stock(n, held) == [on_hand |-> n, allocated |-> held, in_transit |-> 0]
(* Root rows alone; a location without a root row; and locations of a       *)
(* warehouse so far oversold that nothing can be transferred away.          *)
MCInitialRows ==
    {w1 :> Stock(2, 1) @@ w2 :> other @@ l1 :> NoRow @@ l2 :> NoRow :
        other \in {NoRow, Stock(1, 0)}} \cup
    {w1 :> NoRow @@ w2 :> NoRow @@ l1 :> Stock(1, 0) @@ l2 :> NoRow,
     w1 :> Stock(0, 3) @@ w2 :> NoRow @@ l1 :> Stock(2, 0) @@ l2 :> NoRow,
     w1 :> Stock(0, 3) @@ w2 :> NoRow @@ l1 :> Stock(1, 0) @@ l2 :> Stock(1, 1)}
Symmetry == Permutations(Transfer) \cup Permutations(Pick)
=============================================================================
