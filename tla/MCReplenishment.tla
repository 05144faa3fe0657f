--------------------------- MODULE MCReplenishment ---------------------------
(* Three demands: `steady` has the reorder point of `calm` and the safety     *)
(* stock of `busy`.  From its policy a call changes one column towards either *)
(* of them, so that two overlapping calls on k1 can leave the safety stock of *)
(* one and the reorder point of the other in its row.  k1 starts below its    *)
(* reorder point or without a policy, k2 at its reorder point.                *)
EXTENDS Replenishment, TLC

CONSTANTS k1, k2, calm, steady, busy, s1, s2

MCSafety == (calm :> 0 @@ steady :> 1 @@ busy :> 1)
MCLeadTimeNeed == (calm :> 2 @@ steady :> 1 @@ busy :> 2)
MCInitialStock == (k1 :> 1 @@ k2 :> 2)
MCInitialPolicies == (k1 :> {None, PolicyFor(steady)} @@ k2 :> {PolicyFor(calm)})
MCInitialDemands == (k1 :> {calm, busy} @@ k2 :> {steady})
MCMaxFlow == (k1 :> 1 @@ k2 :> 0)
MCSymmetry == Permutations(Session)
=============================================================================
