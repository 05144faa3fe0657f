------------------------------- MODULE Ranking -------------------------------
(***************************************************************************)
(* How AllocationEngine.allocate divides a line among the warehouses: it   *)
(* walks them in rank order, the preferred one first, and takes what each  *)
(* one offers.                                                             *)
(***************************************************************************)
EXTENDS Warehouses, Totals

CONSTANT Rank       \* Rank[w]: position of w in the engine's ranking

ASSUME RankIsOrder ==
    /\ Rank \in [Warehouse -> Nat]
    /\ \A v, w \in Warehouse : Rank[v] = Rank[w] => v = w

Precedes(v, w, pref) ==
    \/ v = pref /\ w # pref
    \/ (v = pref <=> w = pref) /\ Rank[v] < Rank[w]

Before(w, pref) == {v \in Warehouse : Precedes(v, w, pref)}

(* What each warehouse gives when a line may be split: as much of what the  *)
(* warehouses before it left open as it has on offer.                       *)
SplitPlan(offer, need, pref) ==
    [w \in Warehouse |->
        Least(offer[w], Floor(need - Total(Before(w, pref), offer)))]

(* Without splitting the first warehouse that covers the line gives it all. *)
WholePlan(offer, need, pref) ==
    [w \in Warehouse |->
        IF /\ offer[w] >= need
           /\ \A v \in Before(w, pref) : offer[v] < need
        THEN need ELSE 0]

Plan(offer, need, pref, split) ==
    IF split THEN SplitPlan(offer, need, pref) ELSE WholePlan(offer, need, pref)
=============================================================================
