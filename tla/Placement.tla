------------------------------- MODULE Placement -------------------------------
(***************************************************************************)
(* What the network planners compute from the visibility of one SKU:        *)
(* InventoryPlacementOptimizer, which moves surplus to warehouses below     *)
(* their reorder point, and the fill-rate objective of OptimizationEngine.  *)
(* Both walk the warehouses in an order and take from each what is left to  *)
(* take.                                                                    *)
(***************************************************************************)
EXTENDS Visibility, Functions, Sequences

CONSTANTS
    RowOrder,       \* the warehouses in the order the query returns them
    Policy          \* Policy[w]: reorder point and safety stock, defaults filled in

ASSUME RowOrderOK == RowOrder \in Seq(Warehouse) /\ IsInjective(RowOrder) /\ Range(RowOrder) = Warehouse
ASSUME PolicyOK == Policy \in [Warehouse -> [reorder : Nat, safety : Nat]]

-----------------------------------------------------------------------------
Position(w) == CHOOSE i \in DOMAIN RowOrder : RowOrder[i] = w
Earlier(w) == {v \in Warehouse : Position(v) < Position(w)}

(* What w can give: it must have twice its safety stock above the reorder   *)
(* point, and keeps it once.                                                *)
Surplus(w, available) ==
    IF available > Policy[w].reorder + 2 * Policy[w].safety
    THEN available - Policy[w].reorder - Policy[w].safety ELSE 0

Deficit(w, available) == Floor(Policy[w].reorder - available)

(* Mutant: a surplus is given away to every warehouse that needs it.        *)
RecommendFromAll(plan, to, from) ==
    LET units == Least(plan.need[to], plan.spare[from])
    IN  [plan EXCEPT !.need[to] = @ - units, !.moves[to][from] = @ + units]

(* One turn of the inner loop. *)
Recommend(plan, to, from) ==
    LET units == Least(plan.need[to], plan.spare[from])
    IN  [spare |-> [plan.spare EXCEPT ![from] = @ - units],
         need  |-> [plan.need EXCEPT ![to] = @ - units],
         moves |-> [plan.moves EXCEPT ![to][from] = @ + units]]

(* The inner loop over the surpluses, and the outer one over the deficits.  *)
RecommendTo(plan, to) ==
    LET after[i \in 0 .. Len(RowOrder)] ==
            IF i = 0 THEN plan ELSE Recommend(after[i - 1], to, RowOrder[i])
    IN  after[Len(RowOrder)]

RecommendAll(plan) ==
    LET after[i \in 0 .. Len(RowOrder)] ==
            IF i = 0 THEN plan ELSE RecommendTo(after[i - 1], RowOrder[i])
    IN  after[Len(RowOrder)]

(* analyze_network: the units it recommends to move, Moves[to][from].       *)
Analysis(visible) ==
    [spare |-> [w \in Warehouse |-> Surplus(w, visible[w])],
     need  |-> [w \in Warehouse |-> Deficit(w, visible[w])],
     moves |-> [to \in Warehouse |-> [w \in Warehouse |-> 0]]]

Moves(visible) ==
    IF Cardinality(Warehouse) < 2 THEN Analysis(visible).moves
    ELSE RecommendAll(Analysis(visible)).moves

(* The levels once every recommended transfer has been shipped and received. *)
Out(moves, w) == Total(Warehouse, [to \in Warehouse |-> moves[to][w]])
In(moves, w) == Total(Warehouse, moves[w])
Moved(units, moves) == [w \in Warehouse |-> units[w] - Out(moves, w) + In(moves, w)]

-----------------------------------------------------------------------------
(* Mutant: the smallest stocks first. *)
SmallestFirst(visible, w) ==
    {v \in Warehouse : \/ visible[v] < visible[w]
                       \/ visible[v] = visible[w] /\ v \in Earlier(w)}

(* sorted(visibility, key = -available), a stable sort.                     *)
Richer(visible, w) ==
    {v \in Warehouse : \/ visible[v] > visible[w]
                       \/ visible[v] = visible[w] /\ v \in Earlier(w)}

(* _optimize_fill_rate: what each warehouse is to ship of a demand.         *)
FillRateAllocation(visible, demand) ==
    [w \in Warehouse |-> Least(visible[w], Floor(demand - Total(Richer(visible, w), visible)))]
=============================================================================
