---------------------------- MODULE Replenishment ----------------------------
(***************************************************************************)
(* The reorder points of one warehouse and the purchase orders written for *)
(* what falls below them.  A call reads the policies and the availability, *)
(* recomputes policies from the demand it finds, and commits the columns   *)
(* it changed together with one purchase order; calls run in concurrent    *)
(* sessions.  Nothing on the way looks at what is already on order.        *)
(***************************************************************************)
EXTENDS Totals, Sequences

CONSTANTS
    Session,        \* concurrent requests
    Sku,            \* stock keeping units of the warehouse
    Demand,         \* demand statistics of a SKU, as far as its policy depends on them
    Safety,         \* Safety[d]: ceil(z * std_dev * sqrt(lead time))
    LeadTimeNeed,   \* LeadTimeNeed[d]: the mean demand over the lead time, rounded up
    None,           \* no policy, no call under way, no order yet
    InitialStock,   \* InitialStock[k]: units available at the start
    InitialPolicies,\* InitialPolicies[k]: the policies k may start with
    InitialDemands, \* InitialDemands[k]: the demands k may start with
    MaxFlow,        \* bound: MaxFlow[k], net units k may lose or gain outside the orders
    MaxQty,         \* bound: units in one delivery, and delivered beyond an order
    MaxCalls,       \* bound: calls begun in one behaviour
    MaxShifts       \* bound: changes of demand

ASSUME DemandOK == Safety \in [Demand -> Nat] /\ LeadTimeNeed \in [Demand -> Nat]
(* SafetyStockCalculator: the policy a demand asks for. *)
PolicyFor(d) == [safety |-> Safety[d], reorder |-> LeadTimeNeed[d] + Safety[d]]

ASSUME InitialOK ==
    /\ InitialStock \in [Sku -> Int]
    /\ \A k \in Sku : InitialPolicies[k] \subseteq {None} \cup {PolicyFor(d) : d \in Demand}
    /\ InitialDemands \in [Sku -> SUBSET Demand]
ASSUME NoneIsNoPolicy == None \notin [safety : Nat, reorder : Nat]
ASSUME BoundsOK == MaxFlow \in [Sku -> Nat] /\ {MaxQty, MaxCalls, MaxShifts} \subseteq Nat

VARIABLES
    policy,     \* policy[k]: the committed safety stock and reorder point, or None
    demand,     \* demand[k]: what the forecasts of the last 90 days amount to
    available,  \* available[k]: on_hand - reserved - allocated over all rows, signed
    orders,     \* the purchase orders: per SKU ordered, the units ordered and received
    job,        \* job[s]: what session s has read and will write
    calls, shifts,  \* calls begun, changes of demand so far
    flow,       \* history: flow[k], units lost (or gained, negative) outside the orders
    goal,       \* history: goal[k], what the last order of k was meant to reach
    clash       \* history: SKUs whose policy was written by overlapping calls

vars == <<policy, demand, available, orders, job, calls, shifts, flow, goal, clash>>

-----------------------------------------------------------------------------
Largest(a, b) == IF a > b THEN a ELSE b

(* Mutant: the reorder point is computed but not stored. *)
PersistedInPart(old, new) == IF old = None THEN new ELSE [old EXCEPT !.safety = new.safety]

(* _persist_policy: insert the row or update it. *)
Persisted(old, new) == new

(* Mutants: up to the reorder point only; without looking at the stock. *)
OrderQtyToReorder(p, units) == Largest(p.reorder - units, p.safety)
OrderQtyBlind(p, units) == p.reorder + p.safety

(* ReplenishmentPlanner: an order lifts what is available to the reorder    *)
(* point and the safety stock above it, and is never below the safety stock.*)
OrderQty(p, units) == Largest(p.reorder - units + p.safety, p.safety)
(* list_below_reorder_point. *)
BelowReorderPoint == {k \in Sku : policy[k] # None /\ available[k] < policy[k].reorder}

OpenUnits(order, k) ==
    IF k \in DOMAIN order THEN Floor(order[k].ordered - order[k].received) ELSE 0
Outstanding(k) == Total(DOMAIN orders, [i \in DOMAIN orders |-> OpenUnits(orders[i], k)])

-----------------------------------------------------------------------------
Init ==
    /\ policy \in {p \in [Sku -> UNION {InitialPolicies[k] : k \in Sku}] :
                     \A k \in Sku : p[k] \in InitialPolicies[k]}
    /\ demand \in {d \in [Sku -> Demand] : \A k \in Sku : d[k] \in InitialDemands[k]}
    /\ available = InitialStock
    /\ orders = <<>>
    /\ job = [s \in Session |-> None]
    /\ calls = 0 /\ shifts = 0
    /\ flow = [k \in Sku |-> 0]
    /\ goal = [k \in Sku |-> None]
    /\ clash = {}

(* What a call has read, and the SKUs it sets policies and orders for. *)
Begin(s, touched, bought) ==
    /\ job[s] = None /\ calls < MaxCalls
    /\ job' = [job EXCEPT ![s] =
          [old   |-> policy,
           new   |-> [k \in touched |-> PolicyFor(demand[k])],
           buy   |-> [k \in bought |-> OrderQty(PolicyFor(demand[k]), available[k])],
           seen  |-> Len(orders),
           flow  |-> flow,
           open  |-> {k \in bought : Outstanding(k) > 0}]]
    /\ calls' = calls + 1
    /\ UNCHANGED <<policy, demand, available, orders, shifts, flow, goal, clash>>

(* InventoryService.calculate_safety_stock. *)
Calculate(s, k) == Begin(s, {k}, {})

(* POST /procurement/replenish/{warehouse_id}; with nothing below its       *)
(* reorder point it has no effect.                                          *)
GenerateReplenishment(s) ==
    /\ BelowReorderPoint # {}
    /\ Begin(s, BelowReorderPoint, BelowReorderPoint)

(* A column is written if the session changed it. *)
Merged(db, old, new) ==
    IF old = None THEN new
    ELSE [c \in DOMAIN new |-> IF new[c] = old[c] THEN db[c] ELSE new[c]]

(* Two calls that both insert the policy of a SKU meet the unique constraint *)
(* of the table, and the second rolls back.                                 *)
InsertsTwice(s) ==
    \E k \in DOMAIN job[s].new : job[s].old[k] = None /\ policy[k] # None

Commit(s) ==
    LET j == job[s]
        bought == DOMAIN j.buy
        Since(k) == \E i \in j.seen + 1 .. Len(orders) : k \in DOMAIN orders[i]
    IN  /\ j # None /\ ~InsertsTwice(s)
        /\ policy' = [k \in Sku |->
              IF k \in DOMAIN j.new
              THEN Merged(policy[k], j.old[k], Persisted(j.old[k], j.new[k]))
              ELSE policy[k]]
        /\ orders' = IF bought = {} THEN orders
                     ELSE Append(orders, [k \in bought |-> [ordered |-> j.buy[k], received |-> 0]])
        /\ job' = [job EXCEPT ![s] = None]
        /\ goal' = [k \in Sku |->
              IF k \notin bought THEN goal[k]
              ELSE LET target == j.new[k].reorder + j.new[k].safety
                   IN  [target |-> target,
                        most   |-> Largest(target, j.old[k].reorder - 1 + j.new[k].safety),
                        flow   |-> j.flow[k],
                        again  |-> k \in j.open \/ Since(k)]]
        /\ clash' = clash \cup {k \in DOMAIN j.new : j.old[k] # j.new[k] /\ j.old[k] # policy[k]}
        /\ UNCHANGED <<demand, available, calls, shifts, flow>>

(* Without a preferred supplier the order gets a random supplier id, which   *)
(* the foreign key refuses: the call rolls back, policies included.         *)
Rollback(s) ==
    /\ job[s] # None
    /\ job' = [job EXCEPT ![s] = None]
    /\ UNCHANGED <<policy, demand, available, orders, calls, shifts, flow, goal, clash>>

(* ReceivingService.receive_against_po: good and damaged units of one line,  *)
(* also more than were ordered.                                             *)
Receive(i, k, good, damaged) ==
    LET open == OpenUnits(orders[i], k)
        counted == Least(good + damaged, open)
    IN  /\ good + damaged \in 1 .. MaxQty
        /\ orders[i][k].received + good + damaged <= orders[i][k].ordered + MaxQty
        /\ flow[k] + counted - good \in -MaxFlow[k] .. MaxFlow[k]
        /\ orders' = [orders EXCEPT ![i][k].received = @ + good + damaged]
        /\ available' = [available EXCEPT ![k] = @ + good]
        /\ flow' = [flow EXCEPT ![k] = @ + counted - good]
        /\ UNCHANGED <<policy, demand, job, calls, shifts, goal, clash>>

(* Every other call that changes a balance: allocations, releases,           *)
(* adjustments, transfers, picks.                                           *)
Consume(k, units) ==
    /\ units \in {-1, 1} /\ flow[k] + units \in -MaxFlow[k] .. MaxFlow[k]
    /\ available' = [available EXCEPT ![k] = @ - units]
    /\ flow' = [flow EXCEPT ![k] = @ + units]
    /\ UNCHANGED <<policy, demand, orders, job, calls, shifts, goal, clash>>

(* Forecasts enter the 90 days and leave them. *)
DemandShifts(k, d) ==
    /\ demand[k] # d /\ shifts < MaxShifts
    /\ demand' = [demand EXCEPT ![k] = d]
    /\ shifts' = shifts + 1
    /\ UNCHANGED <<policy, available, orders, job, calls, flow, goal, clash>>

Next ==
    \/ \E s \in Session : \/ GenerateReplenishment(s) \/ Commit(s) \/ Rollback(s)
                          \/ \E k \in Sku : Calculate(s, k)
    \/ \E i \in DOMAIN orders : \E k \in DOMAIN orders[i], good, damaged \in 0 .. MaxQty :
          Receive(i, k, good, damaged)
    \/ \E k \in Sku, units \in {-1, 1} : Consume(k, units)
    \/ \E k \in Sku, d \in Demand : DemandShifts(k, d)

Spec == Init /\ [][Next]_vars

-----------------------------------------------------------------------------
(* Policies, orders and goals keep their shape. *)
TypeOK ==
    /\ demand \in [Sku -> Demand] /\ available \in [Sku -> Int] /\ flow \in [Sku -> Int]
    /\ \A k \in Sku : /\ policy[k] = None \/ policy[k] \in [safety : Nat, reorder : Nat]
                      /\ goal[k] = None \/ goal[k].most >= goal[k].target
    /\ \A i \in DOMAIN orders : \A k \in DOMAIN orders[i] :
          orders[i][k] \in [ordered : Nat, received : Nat]

(* Safety stock and reorder point of a policy always come from the same     *)
(* calculation, so that the reorder point covers the safety stock, unless   *)
(* two calls calculated at the same time and each wrote the column it found *)
(* changed.                                                                 *)
MixedPolicyNeedsRace ==
    \A k \in Sku \ clash : policy[k] = None \/ \E d \in Demand : policy[k] = PolicyFor(d)

Position(k) == available[k] + Outstanding(k)
Lost(k) == flow[k] - goal[k].flow

(* Once ordered for, a SKU reaches its reorder point and the safety stock   *)
(* above it when all orders have come in, less what was taken since the     *)
(* call read the stock: nothing that happens between the reading and the    *)
(* commit, in this session or another, gets lost.                           *)
OrdersCoverTarget ==
    \A k \in Sku : goal[k] # None => Position(k) + Lost(k) >= goal[k].target

(* And it does not get more than that (or than the safety stock on top of   *)
(* what was below the old reorder point), unless the call that ordered      *)
(* found units of it still on order, or overlapped with another that        *)
(* ordered: the check itself does not know what is on its way.              *)
OversupplyNeedsRepetition ==
    \A k \in Sku : goal[k] # None /\ ~goal[k].again =>
        Position(k) + Lost(k) <= goal[k].most
=============================================================================
