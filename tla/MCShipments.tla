------------------------------ MODULE MCShipments ------------------------------
(* Four shipments that exist, three of them for one region, and one to be    *)
(* generated; the weight of p4 is not recorded.                                 *)
EXTENDS Shipments
CONSTANTS p1, p2, p3, p4, p5, x, y, slow, fast, mid
MCRunning == {Carrier, {mid, fast}}
MCWeight == p1 :> 1 @@ p2 :> 2 @@ p3 :> 3 @@ p4 :> 0 @@ p5 :> 0
MCRegion == p1 :> "north" @@ p2 :> "north" @@ p3 :> "north" @@ p4 :> "south" @@ p5 :> "south"
MCMaxLoad == slow :> 3 @@ fast :> 1 @@ mid :> 2
MCPrice == slow :> 1 @@ mid :> 1 @@ fast :> 2
MCScore == [s \in Shipment |-> slow :> 1 @@ mid :> 1 @@ fast :> 2]
MCDay == <<1, 1, 2>>
SessionSymmetry == Permutations(Session)
=============================================================================
