---------------------------- MODULE MCProcurement ----------------------------
(* An order of three units of one SKU on two lines, and of one of another    *)
(* between them; a third may come.  A supplier that passes one criterion only     *)
(* qualifies, without being preferred.                                       *)
EXTENDS Procurement, TLC

CONSTANTS k1, k2, k3, c1, c2, s1, s2

MCLine == 1 .. 3
MCSkuOf == 1 :> k1 @@ 2 :> k2 @@ 3 :> k1
MCOrdered == 1 :> 2 @@ 2 :> 1 @@ 3 :> 1
MCWeight == c1 :> 80 @@ c2 :> 20
MCSymmetry == Permutations({s1, s2})
=============================================================================
