--------------------------- MODULE NetworkInventory ---------------------------
(***************************************************************************)
(* The network planners on top of the balances: what they advise in each    *)
(* state the balances reach while calls change them and the cache follows.  *)
(* The planners query the database, never the cache.                        *)
(***************************************************************************)
EXTENDS VisibilityCache, Placement

Seen == Visible(level)
Advice == Moves(Seen)
Oversold == {w \in Warehouse : level[w] < 0}

(* Carrying out a placement plan that is not outdated leaves every giver    *)
(* its reorder point and its safety stock, and the planner then has nothing *)
(* left to recommend: the plan does not chase its own transfers.  Only an   *)
(* oversold warehouse is asked for again, because the visibility it was     *)
(* planned from shows it as merely empty.                                   *)
PlansSettle ==
    LET after == Moved(level, Advice)
    IN  /\ \A w \in Warehouse : Out(Advice, w) > 0 =>
              after[w] >= Policy[w].reorder + Policy[w].safety
        /\ Oversold = {} =>
              \A to, from \in Warehouse : Moves(Visible(after))[to][from] = 0

(* The fill-rate objective ships all of the demand, or all there is, and    *)
(* from no more warehouses than necessary.                                  *)
FillsFromFewest ==
    \A demand \in 0 .. Total(Warehouse, Seen) + 1 :
        LET ships == FillRateAllocation(Seen, demand)
            used  == {w \in Warehouse : ships[w] > 0}
        IN  /\ Total(Warehouse, ships) = Least(demand, Total(Warehouse, Seen))
            /\ \A W \in SUBSET Warehouse :
                  Total(W, Seen) >= Total(Warehouse, ships) =>
                      Cardinality(W) >= Cardinality(used)
=============================================================================
