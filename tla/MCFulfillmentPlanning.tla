------------------------ MODULE MCFulfillmentPlanning ------------------------
(* Two orders of one SKU, one of them with two lines, and two warehouses.   *)
EXTENDS FulfillmentPlanning

CONSTANTS w1, w2, o1, o2

MCRank == [w \in {w1, w2} |-> IF w = w1 THEN 1 ELSE 2]
MCUrgency == [o \in {o1, o2} |-> IF o = o1 THEN 1 ELSE 2]
MCLines == [o \in {o1, o2} |-> IF o = o1 THEN <<1, 2>> ELSE <<2>>]
MCStrategies == [o \in {o1, o2} |->
    IF o = o1 THEN {"cost_optimized", "single_warehouse", "balanced"} ELSE {"cost_optimized"}]
MCStock == [w \in {w1, w2} |-> IF w = w1 THEN 1 ELSE 2]
=============================================================================
