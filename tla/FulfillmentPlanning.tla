-------------------------- MODULE FulfillmentPlanning --------------------------
(***************************************************************************)
(* From an order to its shipments: routing, allocation line by line, the   *)
(* order's status and the shipments, for orders of one SKU.  One call runs *)
(* at a time, but in a session that does not flush before it reads         *)
(* (autoflush=False): the SQL aggregate that ranks the warehouses sees the *)
(* balance rows as last flushed, the engine then draws on the rows in      *)
(* memory.  An allocation that finds too little there raises after it has  *)
(* inserted a reservation, and FulfillmentPlanner goes on with the next.   *)
(***************************************************************************)
EXTENDS Ranking, Sequences

CONSTANTS
    Order,          \* order ids
    NoPreference,   \* no preferred warehouse
    Urgency,        \* Urgency[o]: place of o in (priority, created_at)
    Lines,          \* Lines[o]: the quantities ordered, line by line
    Strategies,     \* Strategies[o]: the routing strategies o may be placed with
    InitialStock,   \* InitialStock[w]: on_hand at the start
    MaxStock,       \* bound: largest on_hand
    MaxReservations,\* bound: reservations made in one behaviour
    MaxShipments    \* bound: shipments of one order from one warehouse

ASSUME OrderFinite == IsFiniteSet(Order)
ASSUME OrderLinesOK == Lines \in [Order -> Seq(Nat \ {0})]
ASSUME StrategiesOK == \A o \in Order :
    Strategies[o] \subseteq {"cost_optimized", "speed_optimized", "single_warehouse", "balanced"}
ASSUME UrgencyOK ==
    /\ Urgency \in [Order -> Int]
    /\ \A o, p \in Order : Urgency[o] = Urgency[p] => o = p
ASSUME StockOK == InitialStock \in [Warehouse -> Nat]

VARIABLES
    stock,      \* stock[w]: on_hand of the root row of w
    reserved,   \* reserved[w]: its reserved counter
    res,        \* the reservations, oldest first
    order,      \* order[o]: status, lines, plans and shipments
    unmet       \* history: the lines <<o, l>> whose last allocation raised

planningVars == <<stock, reserved, res, order, unmet>>

(* The members of S in a sequence, given who stands before whom: the place  *)
(* of each is counted from those before it.                                 *)
Ordered(S, before) ==
    [i \in 1 .. Cardinality(S) |->
        CHOOSE x \in S : Cardinality(S \cap before[x]) = i - 1]

-----------------------------------------------------------------------------
Pending == {"received", "validating", "allocating"}
Live == Pending \cup {"partially_allocated", "fulfillment_planned", "backordered"}

(* A reservation's last field is history: its units may be booked on the    *)
(* order line, or be taken by an allocation that raised at a later          *)
(* warehouse, or be the ones it raised on, which no counter knows of.       *)
Fate == {"booked", "taken", "uncounted"}

(* History in the order: who set its status last, a planning call, the last *)
(* step of a workflow, or one whose compensation has run.                   *)
Author == {"call", "workflow", "compensation"}

NoOrder(o) ==
    [status |-> "none", partial |-> FALSE, strategy |-> "cost_optimized",
     allocated |-> [l \in DOMAIN Lines[o] |-> 0],
     backorder |-> [l \in DOMAIN Lines[o] |-> 0],
     plan |-> [w \in Warehouse |-> "none"],
     shipments |-> [w \in Warehouse |-> 0], by |-> "call"]

(* The units of the reservations whose index passes a test. *)
HeldIn(table, T) == Total(T, [i \in DOMAIN table |-> table[i].quantity])
Held(T) == HeldIn(res, T)
ActiveAt(w) == {i \in DOMAIN res : res[i].active /\ res[i].warehouse = w}

(* The session of a call: the tables as it has them in memory, the counters *)
(* as flushed, and what the call has met with so far.                       *)
Begun == [flushed |-> reserved, reserved |-> reserved, res |-> res, order |-> order,
          unmet |-> unmet, raised |-> FALSE, short |-> FALSE]

CommitCall(t) ==
    /\ Len(t.res) <= MaxReservations
    /\ \A o \in Order, w \in Warehouse : t.order[o].shipments[w] <= MaxShipments
    /\ reserved' = t.reserved /\ res' = t.res /\ order' = t.order /\ unmet' = t.unmet

Offer(counters) == [w \in Warehouse |-> Floor(stock[w] - counters[w])]
NeededAgain(t, o, l) == Lines[o][l]      \* mutant: a retry allocates the whole line
Needed(t, o, l) == Lines[o][l] - t.order[o].allocated[l]

-----------------------------------------------------------------------------
(* AllocationEngine.allocate for a line, and what its caller books on it.   *)
(* Every insertion of a reservation flushes what the session has changed    *)
(* before, so only the counter raised last is unknown to the next ranking.  *)
AllocateLine(t, o, l, pref) ==
    LET need == Needed(t, o, l)
        plan == Plan(Offer(t.flushed), need, pref, t.order[o].partial)
        used == {w \in Warehouse : plan[w] > 0}
        scarce == {w \in used : Offer(t.reserved)[w] < plan[w]}
        made == {w \in used : \A v \in scarce : ~Precedes(v, w, pref)}
        taken == made \ scarce
        raises == used = {} \/ scarce # {}
        total == Total(used, plan)
        fate(w) == IF w \in scarce THEN "uncounted" ELSE IF raises THEN "taken" ELSE "booked"
        sorted == Ordered(made, [w \in made |-> Before(w, pref)])
        after == [w \in Warehouse |-> t.reserved[w] + IF w \in taken THEN plan[w] ELSE 0]
        last(w) == w \in used /\ \A v \in used : v = w \/ Precedes(v, w, pref)
    IN  IF need = 0 THEN t ELSE
        [t EXCEPT
            !.reserved = after,
            !.flushed = [w \in Warehouse |->
                IF used = {} THEN @[w]
                ELSE IF last(w) /\ ~raises THEN t.reserved[w] ELSE after[w]],
            !.res = @ \o [i \in DOMAIN sorted |->
                [order |-> o, warehouse |-> sorted[i], quantity |-> plan[sorted[i]],
                 active |-> TRUE, fate |-> fate(sorted[i])]],
            !.order[o].allocated[l] = IF raises THEN @ ELSE @ + total,
            !.order[o].backorder[l] = IF raises THEN @ ELSE need - total,
            !.unmet = IF raises THEN @ \cup {<<o, l>>} ELSE @ \ {<<o, l>>},
            !.raised = @ \/ raises,
            !.short = @ \/ (~raises /\ total < need)]

(* _allocate_inventory: for each selected warehouse, line by line. *)
AllocateLines(t, o, pref) ==
    LET after[l \in 0 .. Len(Lines[o])] ==
            IF l = 0 THEN t ELSE AllocateLine(after[l - 1], o, l, pref)
    IN  after[Len(Lines[o])]

AllocateInventory(t, o, selected) ==
    LET after[i \in 0 .. Len(selected)] ==
            IF i = 0 THEN t ELSE AllocateLines(after[i - 1], o, selected[i])
    IN  after[Len(selected)]

(* OrderRouter.route_order: the warehouses that could cover some of the     *)
(* order, and the one or two the strategy selects among them.               *)
Coverage(t, o) ==
    [w \in Warehouse |-> [l \in DOMAIN Lines[o] |->
        Least(Offer(t.flushed)[w], Needed(t, o, l))]]

SelectWarehouses(t, o) ==
    LET cover == Coverage(t, o)
        total == [w \in Warehouse |-> Total(DOMAIN Lines[o], cover[w])]
        candidates == {w \in Warehouse : total[w] > 0}
        full == {w \in candidates : \A l \in DOMAIN Lines[o] : cover[w][l] = Needed(t, o, l)}
        Cheaper(w) == {v \in Warehouse : Rank[v] < Rank[w]}
        Fuller(w) == {v \in Warehouse : \/ total[v] > total[w]
                                        \/ total[v] = total[w] /\ Rank[v] < Rank[w]}
        ByCost(S) == Ordered(S, [w \in S |-> Cheaper(w)])
        ByCoverage == Ordered(candidates, [w \in candidates |-> Fuller(w)])
        First(n, s) == SubSeq(s, 1, Least(n, Len(s)))
        strategy == t.order[o].strategy
    IN  CASE strategy = "single_warehouse" /\ full # {} -> First(1, ByCost(full))
          [] strategy = "single_warehouse" /\ full = {} ->
                IF t.order[o].partial THEN First(1, ByCoverage) ELSE <<>>
          [] strategy = "balanced" -> First(2, ByCoverage)
          [] OTHER -> First(2, ByCost(candidates))

(* Adding a plan flushes the session. *)
CreatePlans(t, o, selected) ==
    LET new == {w \in {selected[i] : i \in DOMAIN selected} : t.order[o].plan[w] = "none"}
    IN  [t EXCEPT !.order[o].plan = [w \in Warehouse |-> IF w \in new THEN "planned" ELSE @[w]],
                  !.flushed = IF new = {} THEN @ ELSE t.reserved]

(* _update_order_status. *)
StatusOfLast(t) == "fulfillment_planned"      \* mutant: back-orders are overlooked
PlannedStatus(t) == IF t.short THEN "partially_allocated" ELSE "fulfillment_planned"

(* FulfillmentPlanner.plan_fulfillment.  Without a warehouse to route to it *)
(* raises, with the order already marked as validating; an allocation that  *)
(* raises is logged, and the status is set as if the line did not exist.    *)
PlanFulfillment(t, o) ==
    LET selected == SelectWarehouses(t, o)
        routed == CreatePlans([t EXCEPT !.short = FALSE], o, selected)
        done == AllocateInventory(routed, o, selected)
    IN  IF selected = <<>>
        THEN [t EXCEPT !.order[o].status = "validating", !.order[o].by = "call"]
        ELSE [done EXCEPT !.order[o].status = PlannedStatus(done), !.order[o].by = "call"]

PlanOrders(t, queue) ==
    LET after[i \in 0 .. Len(queue)] ==
            IF i = 0 THEN t ELSE PlanFulfillment(after[i - 1], queue[i])
    IN  after[Len(queue)]

(* ShipmentGenerator.generate_for_order: a shipment for every plan, also    *)
(* for those that already have one.                                         *)
GenerateShipments(t, o) ==
    LET Ships(w) == t.order[o].plan[w] \in {"planned", "executing"}
    IN  [t EXCEPT
            !.order[o].shipments = [w \in Warehouse |-> @[w] + IF Ships(w) THEN 1 ELSE 0],
            !.order[o].plan = [w \in Warehouse |-> IF Ships(w) THEN "executing" ELSE @[w]]]

-----------------------------------------------------------------------------
PlanningInit ==
    /\ stock = InitialStock
    /\ reserved = [w \in Warehouse |-> 0]
    /\ res = <<>> /\ unmet = {}
    /\ order = [o \in Order |-> NoOrder(o)]

(* POST /orders. *)
CreateOrder(o, partial, strategy) ==
    /\ order[o].status = "none"
    /\ order' = [order EXCEPT ![o].status = "received", ![o].partial = partial,
                              ![o].strategy = strategy]
    /\ UNCHANGED <<stock, reserved, res, unmet>>

(* POST /orders/{id}/fulfill; the request rolls back if it cannot route. *)
FulfillOrder(o) ==
    /\ order[o].status \in Live
    /\ SelectWarehouses(Begun, o) # <<>>
    /\ CommitCall(GenerateShipments(PlanFulfillment(Begun, o), o))
    /\ UNCHANGED stock

(* OrderAllocationBatch.run: every pending order in one session.  It counts *)
(* the orders that fail, and commits what they have changed with the rest.  *)
AllocationBatch ==
    LET pending == {o \in Order : order[o].status \in Pending}
        Sooner(p) == {o \in Order : Urgency[o] < Urgency[p]}
    IN  /\ pending # {}
        /\ CommitCall(PlanOrders(Begun, Ordered(pending, [p \in pending |-> Sooner(p)])))
        /\ UNCHANGED stock

(* POST /orders/{id}/reserve: here an allocation that raises fails the call. *)
ReserveOrder(o) ==
    LET done == AllocateLines(Begun, o, NoPreference)
        backordered == \E l \in DOMAIN Lines[o] : done.order[o].backorder[l] > 0
    IN  /\ order[o].status \in Live
        /\ ~done.raised
        /\ CommitCall([done EXCEPT !.order[o].status =
                          IF backordered THEN "partially_allocated" ELSE "allocating",
                      !.order[o].by = "call"])
        /\ UNCHANGED stock

(* Mutant: a release that lowers the counter once more than it should. *)
ReleasedTwice(t, T) ==
    LET At(w) == {i \in T : t.res[i].warehouse = w}
    IN  [t EXCEPT
            !.res = [i \in DOMAIN @ |-> IF i \in T THEN [@[i] EXCEPT !.active = FALSE] ELSE @[i]],
            !.reserved = [w \in Warehouse |-> Floor(@[w] - 2 * HeldIn(t.res, At(w)))]]

(* _release_single_reservation, for each of the active reservations T. *)
Released(t, T) ==
    LET At(w) == {i \in T : t.res[i].warehouse = w}
    IN  [t EXCEPT
            !.res = [i \in DOMAIN @ |-> IF i \in T THEN [@[i] EXCEPT !.active = FALSE] ELSE @[i]],
            !.reserved = [w \in Warehouse |->
                IF At(w) = {} THEN @[w] ELSE Floor(@[w] - HeldIn(t.res, At(w)))]]

(* Mutant: a release of what the order lines know of. *)
ReleasedBooked(t, o) ==
    Released(t, {i \in DOMAIN t.res : /\ t.res[i].active /\ t.res[i].order = o
                                      /\ t.res[i].fate = "booked"})

(* AllocationEngine.release_reservations. *)
ReleasedOrder(t, o) ==
    Released(t, {i \in DOMAIN t.res : t.res[i].active /\ t.res[i].order = o})

(* POST /orders/{id}/cancel: the lines, plans and shipments stay as they are. *)
CancelOrder(o) ==
    /\ order[o].status \in Live
    /\ CommitCall([ReleasedOrder(Begun, o) EXCEPT !.order[o].status = "cancelled",
                                              !.order[o].by = "call"])
    /\ UNCHANGED stock

(* handle_partial_fulfillment, with partial fulfilment rejected by the      *)
(* caller.  It raises after it has released what it reserved; a session     *)
(* that catches the error, as that of the batch does, commits the rest.     *)
RejectPartial(o) ==
    LET planned == PlanFulfillment(Begun, o)
    IN  /\ order[o].status \in Live
        /\ SelectWarehouses(Begun, o) # <<>> /\ planned.short
        /\ CommitCall([ReleasedOrder(planned, o) EXCEPT !.order[o].status = "backordered"])
        /\ UNCHANGED stock

(* OrderFulfillmentWorkflow.execute: plan, generate the shipments, choose   *)
(* routes and carriers, and call the order planned, whatever the planner    *)
(* called it.                                                               *)
ExecuteWorkflow(o) ==
    /\ order[o].status \in Live
    /\ SelectWarehouses(Begun, o) # <<>>
    /\ CommitCall([GenerateShipments(PlanFulfillment(Begun, o), o)
                  EXCEPT !.order[o].status = "fulfillment_planned", !.order[o].by = "workflow"])
    /\ UNCHANGED stock

(* ... or a route or a carrier cannot be found, in a session that catches   *)
(* the error: the compensation gives the stock back, all that the order     *)
(* holds, and leaves lines, status, plans and shipments.  A failure before  *)
(* the step "allocate" is that of the planner alone.                        *)
CompensateWorkflow(o) ==
    LET generated == GenerateShipments(PlanFulfillment(Begun, o), o)
    IN  /\ order[o].status \in Live
        /\ SelectWarehouses(Begun, o) # <<>>
        /\ \E w \in Warehouse : generated.order[o].plan[w] = "executing"
        /\ CommitCall([ReleasedOrder(generated, o) EXCEPT !.order[o].by = "compensation"])
        /\ UNCHANGED stock

(* The worker releases what has expired: the oldest reservations. *)
ExpireReservations(n) ==
    LET expired == {i \in 1 .. n : res[i].active}
    IN  /\ expired # {}
        /\ CommitCall(Released(Begun, expired))
        /\ UNCHANGED stock

(* Goods arrive. *)
Receive(w) ==
    /\ stock[w] < MaxStock
    /\ stock' = [stock EXCEPT ![w] = @ + 1]
    /\ UNCHANGED <<reserved, res, order, unmet>>

(* InventoryReconciler compares the counter of a warehouse with the active   *)
(* reservations; sync_warehouse repairs what differs.  What was uncounted    *)
(* there is counted from now on.                                            *)
Mismatched(w) == Held(ActiveAt(w)) # reserved[w]
SyncWarehouse(w) ==
    /\ Mismatched(w)
    /\ reserved' = [reserved EXCEPT ![w] = Held(ActiveAt(w))]
    /\ res' = [i \in DOMAIN res |-> IF res[i].warehouse = w /\ res[i].fate = "uncounted"
                                    THEN [res[i] EXCEPT !.fate = "taken"] ELSE res[i]]
    /\ UNCHANGED <<stock, order, unmet>>

PlanningNext ==
    \/ \E o \in Order, partial \in BOOLEAN : \E strategy \in Strategies[o] :
          CreateOrder(o, partial, strategy)
    \/ \E o \in Order : FulfillOrder(o) \/ ReserveOrder(o) \/ CancelOrder(o)
    \/ \E o \in Order : RejectPartial(o) \/ ExecuteWorkflow(o) \/ CompensateWorkflow(o)
    \/ AllocationBatch
    \/ \E n \in DOMAIN res : ExpireReservations(n)
    \/ \E w \in Warehouse : Receive(w) \/ SyncWarehouse(w)

PlanningSpec == PlanningInit /\ [][PlanningNext]_planningVars

-----------------------------------------------------------------------------
(* Every order, reservation and counter keeps its shape. *)
PlanningTypeOK ==
    /\ \A w \in Warehouse : stock[w] \in Nat /\ reserved[w] \in Nat
    /\ \A i \in DOMAIN res : /\ res[i].order \in Order /\ res[i].warehouse \in Warehouse
                             /\ res[i].quantity > 0 /\ res[i].fate \in Fate
    /\ \A o \in Order : /\ order[o].status \in Live \cup {"none", "cancelled"}
                        /\ order[o].plan \in [Warehouse -> {"none", "planned", "executing"}]
                        /\ order[o].by \in Author

Uncounted(w) == {i \in DOMAIN res : res[i].warehouse = w /\ res[i].fate = "uncounted"}

(* The planner loses units in one way only: those of reservations its       *)
(* stale ranking made an allocation raise on since the warehouse was last   *)
(* synchronised.  No counter ever exceeds the active reservations, so no    *)
(* stock stays blocked with nobody to free it.                              *)
DriftIsUncounted ==
    \A w \in Warehouse : LET drift == Held(ActiveAt(w)) - reserved[w]
                         IN  0 <= drift /\ drift <= Held(Uncounted(w))

Booked(o) == {i \in DOMAIN res : res[i].order = o /\ res[i].fate = "booked"}

(* What the lines of an order say was allocated is what was reserved for    *)
(* them, unit by unit: no retry, batch or reserve call books a unit twice,  *)
(* no line is booked beyond its order, and an order that refuses partial    *)
(* fulfilment has its lines booked in full or not at all.                   *)
LinesMatchReservations ==
    \A o \in Order :
        /\ Total(DOMAIN Lines[o], order[o].allocated) = Held(Booked(o))
        /\ \A l \in DOMAIN Lines[o] :
              /\ order[o].allocated[l] + order[o].backorder[l] \in {0, Lines[o][l]}
              /\ ~order[o].partial => order[o].allocated[l] \in {0, Lines[o][l]}

(* The status of a planned order tells which of its lines are covered,      *)
(* except that it keeps silent about lines whose allocation raised, and     *)
(* that the last step of the workflow does not look at them.                *)
StatusFitsLines ==
    \A o \in Order :
        LET Covered(l) == order[o].allocated[l] = Lines[o][l]
        IN  /\ order[o].status \in {"fulfillment_planned", "allocating"} =>
                  \/ \A l \in DOMAIN Lines[o] : Covered(l) \/ <<o, l>> \in unmet
                  \/ order[o].by = "workflow"
            /\ order[o].status = "partially_allocated" =>
                  \E l \in DOMAIN Lines[o] : order[o].backorder[l] > 0

(* An order that was cancelled, was refused in part, or whose workflow was   *)
(* undone holds nothing, not even what allocations that raised have left    *)
(* behind, and no retry or batch makes a cancelled order hold anything.     *)
StoppedHoldsNothing ==
    \A i \in DOMAIN res :
        LET o == res[i].order
        IN  \/ order[o].status \in {"cancelled", "backordered"}
            \/ order[o].by = "compensation"
            => ~res[i].active

(* What the reconciler checks for: the reserved counter of a row agrees     *)
(* with the active reservations.                                            *)
CountersAgree == \A w \in Warehouse : reserved[w] = Held(ActiveAt(w))
=============================================================================
