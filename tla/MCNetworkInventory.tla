-------------------------- MODULE MCNetworkInventory --------------------------
(* One warehouse that is often short, one that may give, one that only gives. *)
EXTENDS NetworkInventory, TLC

CONSTANTS w1, w2, w3

MCRowOrder == <<w1, w2, w3>>
MCPolicy == (w1 :> [reorder |-> 2, safety |-> 0] @@ w2 :> [reorder |-> 1, safety |-> 0]
             @@ w3 :> [reorder |-> 0, safety |-> 1])
MCLevels == (w1 :> {-1, 0, 1} @@ w2 :> {0, 2} @@ w3 :> {0, 3})
=============================================================================
