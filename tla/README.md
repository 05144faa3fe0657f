# NexusOps in TLA+

Models, model-checking configurations and machine-checked proofs for NexusOps, the supply-chain
execution platform in this repository. Paths below are relative to `src/nexusops/` in the
repository unless they start with `tests/`.

The question behind all of it: NexusOps keeps the same fact in several places. A balance row
repeats what the reservation table says, an order line repeats what was reserved for it, a
purchase order's status repeats what its lines say, a selected route repeats which carrier is the
cheapest. No database constraint ties these together; only the calls do. The models say when the
copies agree, what breaks the agreement, and what cannot break it.

## 1. The system

### 1.1 Components

| Component | State it keeps | Operations | Correct if |
|---|---|---|---|
| Inventory ledger (`domain/inventory/allocation.py`, `reservation_manager.py`, `services/inventory_service.py`) | one root row per (SKU, warehouse) with `on_hand`, `reserved`, `allocated`, `damaged`, ...; the reservation table | allocate, confirm, release, extend, expire, adjust, receive | counters equal sums over reservations; nothing is promised beyond stock; a reservation is settled once; holds end |
| The same under concurrent sessions (`db/session.py`, `api/routes.py`, `workers/runner.py`) | READ COMMITTED transactions, row locks, in-memory copies of rows | the statements of each call | what a stale write can lose is known and bounded; nobody waits for ever |
| Fulfilment planning (`domain/fulfillment/planning.py`, `routing.py`, `services/fulfillment_service.py`, `workers/batch_processor.py`) | orders with lines, plans, status | create, fulfil, batch, reserve, cancel | lines match reservations; status matches lines; cancelled orders hold nothing |
| Reconciliation (`domain/inventory/reconciliation.py`, `services/inventory_sync_service.py`) | none of its own | compare counters with reservations, repair | what it repairs is counted from then on, and drift stays bounded |
| Events (`events/bus.py`, `events/ordering.py`, `events/replay.py`, `repositories/events.py`) | numbered events with a status; handlers per type and for `*` | publish, dispatch, validate, replay | numbers leave no gap; effects fit the status; handled and replayed in order |
| Worker (`workers/runner.py`) | a polling loop, one transaction per cycle | handle pending events, then expire reservations | every event is settled; every hold ends |
| Purchase orders (`domain/procurement/purchase_orders.py`, `domain/warehouse/receiving.py`) | order, lines, receipts | submit, acknowledge, receive (two components), close, cancel | receipts add up; the status follows the lines and the transition table |
| Suppliers (`domain/procurement/supplier_qualification.py`, `vendor_performance.py`) | `is_active`, `is_preferred`, one JSON column of reasons and scores; a qualification in the reviewer's memory | qualify, suspend, reactivate, report | suspension and its reason, preference and its qualification agree; orders go to active suppliers |
| Warehouse floor (`domain/warehouse/transfers.py`, `pick_pack.py`, `cycle_count.py`) | root and location rows, transfers, pick tasks, count sessions | initiate/ship/receive, create/complete, schedule/record/complete/apply | stock is conserved; held stock is spared; a count settles the book |
| Shipments (`domain/fulfillment/shipment_generation.py`) | status and history | generate, transition | the history is a legal path that ends in the status, also after overlapping moves |
| Transportation (`domain/transportation/*`) | routes, carrier, group, dock slots | plan routes, assign, consolidate, schedule, reschedule | one carrier is selected; loads fit; slots are not overbooked |
| Replenishment (`domain/procurement/replenishment.py`, `domain/inventory/safety_stock.py`) | reorder points and safety stock per SKU; purchase orders | calculate, plan and order | orders reach the target and do not pile up; a policy comes from one calculation |
| Fulfilment workflow (`domain/fulfillment/workflow.py`) | the steps it has completed | execute, compensate | a failed workflow holds nothing |
| Cache (`cache/redis_cache.py`, `domain/inventory/network_coordinator.py`) | one key per SKU with a time to live | read and refill, invalidate | a stale view is explained, and ends |
| Network planners (`domain/optimization/placement.py`, `engine.py`) | none of their own | recommend transfers, divide a demand | plans spare the givers' stock and settle; demand is met from the fewest warehouses |
| Putaway, forecasting, dependency graph, workflow orchestrator, cost and capacity heuristics | see `PROJECT.json` | in-memory structures, statistics | section 6 |
| API, authentication, audit, utilities, migrations, front end | see `PROJECT.json` | parsing, formatting, append-only records | section 6 |

### 1.2 How they interact

```
routes ──► services ──► domain engines ──► repositories ──► PostgreSQL
                              │                                 ▲
                              └─ reservations, rows ────────────┤
worker loop ──► event bus dispatch ──► expiry pass ─────────────┘
```

* A request is one session and one transaction (`db/session.py:50`): commit at the end, rollback
  on an exception. Sessions do not autoflush, and no statement locks a row before it is written.
* Planning calls routing, then the allocation engine line by line in the same session; an
  allocation that raises is logged and the session goes on (`domain/fulfillment/planning.py:143`).
* The worker opens one session per cycle, dispatches pending events, then releases expired
  reservations; if the second fails, the first is rolled back with it.
* A performance report by request or by the worker's hourly job, a suspension, a reactivation and a
  qualification write the same supplier row; a submission reads it without a lock.
* Inventory calls that know the cache delete keys inside their transaction; most do not know it. The
  planners query the database, never the cache.
* Receiving writes the purchase order, putaway tasks and the ledger in one transaction; the
  purchase order manager writes the same order without the others.
* Transfers are checked against the sum over root and location rows, and paid by the root row;
  picks and counts write location rows.

### 1.3 What is hard here

Concurrent absolute writes without version checks; reads of unflushed state; a swallowed exception
half-way through an allocation; expiry racing extension, confirmation and cancellation; a worker
cycle that undoes what it handled; two components driving one status; a JSON column written back as
a whole; a cache emptied before the commit it is emptied for; values kept between a count and its
application. `PROJECT.json` lists each hazard at its line, with the properties that would
fail if it went wrong.

## 2. Modules

| Module | Models | Uses |
|---|---|---|
| `Totals` | sums over finite sets, floor at zero, minimum | |
| `Warehouses` | the warehouses that allocation and visibility share | |
| `Ranking` | how the allocation engine divides a line among warehouses | `Warehouses`, `Totals` |
| `ReservationBook` | abstract: promises against usable stock, settled once | `Totals` |
| `StockLedger` | every inventory call on one SKU, one call per step; implements `ReservationBook` | `Ranking`, `ReservationBook` |
| `LedgerSessions` | the calls of the ledger taken apart into statements of concurrent transactions | `Ranking` |
| `FulfillmentPlanning` | orders, planning, workflow and its compensation, batch, reserve, cancel, expiry, reconciliation | `Ranking` |
| `EventLog` | publishers, event store, worker cycle and replay for one aggregate | |
| `Requests` | the sessions that the procurement modules share | |
| `PurchaseOrders` | one purchase order driven by two components | `Requests`, `Totals` |
| `Suppliers` | one supplier: qualification, suspension, reactivation, reports | `Requests` |
| `Procurement` | the order and its supplier in the same sessions | `PurchaseOrders`, `Suppliers` |
| `WarehouseFloor` | transfers, picks and cycle counts on the rows of one SKU | `Totals` |
| `Shipments` | the shipments of one warehouse: status machine, routes, carriers, groups, dock slots | `Totals` |
| `Replenishment` | policies, availability and purchase orders of one warehouse, in overlapping sessions | `Totals` |
| `Visibility` | what the network shows of one SKU | `Warehouses`, `Totals` |
| `VisibilityCache` | the cached visibility beside the balances | `Visibility` |
| `Placement` | placement and fill-rate plans as functions of the visibility | `Visibility` |
| `NetworkInventory` | the planners in every state the balances reach | `VisibilityCache`, `Placement` |
| `TotalTheorems`, `StockLedgerProofs`, `EventLogProofs`, `ProcurementProofs`, `FulfillmentPlanningProofs`, `ShipmentsProofs` | the theorems (section 5) | the module each is named after, TLAPS |
| `StockFlowProofs` | the theorems on stock that moves and stock that is ordered (section 5) | `WarehouseFloor`, `Replenishment`, TLAPS |
| `InventoryProofs` | the theorems on inventory calls that interleave (section 5) | `LedgerSessions`, `NetworkInventory`, TLAPS |
| `MC*` | values for TLC; `EventLog` needs none | |

Operators marked "mutant" in a comment are plausible mistakes in the code next to the definition
they would replace; each property is violated under at least one of them, which shows that it
depends on the code being as it is.

### StockLedger

`rows` is the set of warehouses with a root row (`location_id IS NULL`), `bal[w]` its counters,
`res[r]` the reservation rows. A clock is kept as the ticks `left` until `expires_at`, down to -1
("late"). One action is one service call from first read to commit:

| Action | Code |
|---|---|
| `Allocate` | `AllocationEngine.allocate`: rank, walk, insert reservation, raise `reserved` |
| `ReleaseOrder`, `ExpireReservations` | `release_reservations`, the worker's pass; each `_release_single_reservation` floors at zero |
| `Confirm`, `ConfirmOrder` | `confirm_allocation`, `confirm_all_for_order` with its swallowed expiry error |
| `Extend` | `extend_reservation`, which does not look whether the reservation is late |
| `AdjustInventory`, `UpdateInventory` | `adjust_inventory`, `ReceivingService._update_inventory` |
| `Tick` | time |

`quarantine` and `in_transit`, which none of these calls writes, are left out. A call that raises
rolls back and is no step.

### LedgerSessions

What `StockLedger` does in one step is here read, change in memory, write under the row lock,
commit. `job[s]` holds what a session has read (`base`) and changed (`copy`), `lock[w]` who has an
uncommitted write of a row. A write stores absolute values, but only of the columns that changed
(the ORM's unit of work); the `version` column is raised and never compared. `clash` and
`expected` are history: which columns concurrent calls have disturbed, and which stock the
committed calls meant. Two inserts of a root row may both succeed, because the unique constraint
does not apply to a NULL location; every later read of that row raises (`Ambiguous`), and
`StockSurvives` sums over all root rows. `Stocks` holds the initial stocks; a warehouse with none has
no row, so that two calls can meet on inserting it. The reservation rows are written with constants, so
their locks change no outcome and are left out.

### FulfillmentPlanning

The state of a call is a record `t` (rows as flushed, rows in memory, reservations, orders).
`AllocateLine` is the engine as the planner calls it, with the fact that matters: the ranking query
reads *flushed* rows, the engine draws on rows *in memory*. An allocation that meets too little in
memory raises after it has inserted a reservation. `fate` (history) tells what became of a
reservation: booked on the line, taken by an allocation that raised later, or uncounted.
`SyncWarehouse` is the reconciler with its automatic repair. `RejectPartial` is
`handle_partial_fulfillment` with partial fulfilment refused; `ExecuteWorkflow` and
`CompensateWorkflow` are a workflow that goes through and one that fails after its step "allocate" in
a session that catches the error. The loops of a call (`AllocateLines`, `AllocateInventory`, `PlanOrders`)
are functions of the number of turns taken, and `Ordered` puts the members of a set in the order of a
sort, so that both can be reasoned about. Compensation releases all that the order holds, an earlier plan's
reservations too, and leaves lines, plans and shipments. `by` (history) tells who set the status.

### EventLog

One aggregate. A publisher's transaction takes `occurred_at`, reads the highest number, adds one
and inserts (`Occur`, `ReadSequence`, `Publish`, `Commit`, `Rollback`). The worker's cycle polls a
batch ordered by `occurred_at`, dispatches event by event, and commits or fails as a whole. A
handler that raises marks the event failed in the same transaction, with the effects of the
handlers before it; a database error in a handler aborts the transaction, so the other events of the
batch run into it too and the cycle fails. `dispatch` appends the handlers of `*` to the list it has
looked up, which is the registered list itself: on one bus, which lives for one cycle, they run once
more for every further event (`Runs`). A replay validates the numbers and then reads the log a second
time (`Validate`, `ReplayEvents`); `Violations` is what validation finds in a set of events, and
`applied` the numbers the projection is applied to, in their order. The Redis copy is left
out: the only bus the program builds has no client (`workers/runner.py:55`).

### PurchaseOrders, Suppliers, Procurement

A call on the order reads it, computes, and commits the columns it changed (`Begin`, `Commit`). `Move`
and `RecordReceipt` are `PurchaseOrderManager`, with its guards; `ReceiveAgainstPo` is the route behind
the warehouse, which looks at no status and counts a delivered SKU for the first line that orders it.
`clash` notes what was overwritten unseen.

A supplier's row is read and written in the same two halves (`Visit`, `CommitVisit`). Its JSON column is
copied and set to a new object, so a call that touches it writes all of it; scores that no decision
reads are left out, and of the others only which keys are there. A qualification lives in the
reviewer's memory (`review`); rejecting it does not touch the row. `earned` is what the last
qualification or suspension decided, `overtaken` which columns were last decided on a row that had
changed since.

`Procurement` runs both in one set of sessions: `Submit` is the manager's, which reads the supplier,
`MoveUnasked` the service's submission and all other moves. `asked` (history) follows a submission
that has checked: `late` if the supplier was suspended before it committed.

### WarehouseFloor

One SKU; root rows and location rows in one function `balance`. Of the counters that hold stock,
`allocated` stands for all. Location rows are never created by the code, so the initial states
choose which exist. `shelf` is what physically lies at a location: counting reads it, picking lowers
it, `Misplace` changes it without the system knowing. `moved` tells whether a location changed
between scheduling, counting and settling.

### Shipments

`Begin`/`Move` are the two halves of `transition_state`, for concurrent sessions; every other call
is one step, because it writes columns the others do not. `PlanRoutes` appends plans and re-marks
all plans the shipment ever had; `Cheapest` is a set, since equal costs may be sorted either way
(addresses without coordinates make all costs equal). `AssignCarrier` is only enabled where some
carrier can take the weight; the fallback writes nothing. `Consolidate` packs greedily by recorded
weight: in the order of a sort (`Sorted`), a shipment opens a group of its own if the group before it
is full or would get too heavy (`Opens`), and the heads of the groups decide the rest (`GroupOf`). The
scheduler takes the first of the nearest free slots, or the first free one if the shipment has no date (`BestSlots`). The weight of a generated shipment is 0, which the code reads as the default. A group is
named by its members, a stand-in for a fresh UUID. `scheduled_pickup` is never written by the
code, so `Pickup` is a constant. Nothing sets the status `consolidated` except a transition asked
for by a caller.

### Replenishment

A call reads policies, demand and availability, and commits new policies and one purchase order;
`Begin` and `Commit` are those two halves. What the statistics of 90 days of forecasts amount to is a
member of `Demand`, with the safety stock and the need over the lead time it leads to as constants.
`available` is the signed sum over all rows that the query builds; `Consume` stands for every other
call that moves it. `flow`, `goal` and `clash` are history: what left the warehouse outside the
orders, what the last order was meant to reach, and which policies overlapping calls have written.
The order's status is left to `PurchaseOrders`: no step here looks at it.

### VisibilityCache, Placement, NetworkInventory

The key `netvis:{sku}` of one SKU (`entry`) and what is available per warehouse (`level`). A reader
queries and stores in two steps. A writer changes a balance, deletes the key and commits, in that
order: the services invalidate inside their transaction. `CommitSilently` stands for every call that
knows no cache, `Expire` for the time to live. A view carries two marks as history: `lapped`, a writer
was open between its reading and its storing; `silent`, a call without the cache has committed since.
`Moves` is the placement planner's nested loop over one list of surpluses (`RecommendAll` over
`RecommendTo` over `Recommend`, one turn each), `FillRateAllocation` the greedy objective of the
optimisation engine. `RowOrder` is the order in which the query returns the warehouses, which decides
who is asked first and, the sort being stable, ties.

## 3. Runs

| Run | Bounds | Shows |
|---|---|---|
| `ledger` | 2 warehouses, 2 orders, 2 reservations, TTL 1 tick, extension 1, quantities and stock up to 2, 1 damaged | counters, refinement, no overselling, one settlement, holds end |
| `sessions` | 2 requests and the worker, 2 orders, 2 reservations, 3 calls; both warehouses stocked with 1, or one with 2 and the other bare | drift, lost stock and overselling need an overlap; duplicate root rows lose no stock |
| `sessions_live` | 2 calls by 2 sessions, one of them the worker's, 4 reservations | every begun call ends, deadlocks included |
| `sessions_twice` | 2 calls, 2 reservations | *violated*: concurrent allocations promise a unit twice |
| `planning` | 2 orders (lines of 1+2 and of 2), 2 warehouses, 3 strategies for one and 1 for the other, stock up to 2, 3 reservations, 2 shipments per plan | lines, status and reservations agree, drift is bounded, what was stopped holds nothing |
| `planning_drift` | stock up to 3, 5 reservations | *violated*: counters differ from reservations after one call |
| `events` | 2 publishers, 3 events, 2 per transaction, batch 2, 1 handler, 1 for `*`, 1 replay, 1 failing cycle | numbering, order, effects, replay, settlement |
| `procurement` | 2 sessions, 3 lines (two of one SKU), a third SKU, 1 unit per delivery, 4 calls, 2 criteria graded 0 or 100 | receipts, status, preference, suspension and submission agree unless calls overlapped |
| `floor` | 2 warehouses, 2 locations, 2 transfers, 2 picks, review threshold 1, 1 misplacement, 5 choices of which rows exist | conservation, spared stock, negative books, counts |
| `shipments` | 5 shipments (1 generated), 3 carriers, 3 slots of capacity 1 on 2 days, groups of 2 and weight 4, 4 calls; status moves overlap on two shipments | history, selection, loads, slots |
| `replenishment` | 2 sessions, 3 calls, 2 SKUs, 3 demands (2 to start with for one SKU, 1 for the other) and 1 shift, deliveries of 1 unit | target reached; overshoot and mixed policies need a repetition or an overlap |
| `network` | 3 warehouses with up to 3 levels each, one of them oversold; 1 reader, 1 writer | stale views need an overlap or a call without the cache, and end; plans settle; the fewest warehouses ship |

Why these bounds are enough. Two warehouses make the ranking, the split and the opposite lock
orders happen; two orders make one order's release meet another's hold; a time to live of one tick
gives the three cases live, expired and late; two units make over-receipts and partial covers
possible. In `sessions`, the third call is needed for a clash to be followed by a call that reads
the damage; the start with a bare warehouse lets two calls insert its row. In `planning`, an order of
two lines is the smallest in which the second line is ranked on unflushed rows, and three reservations
let an allocation raise after another has been booked; the violated run needs more of them. In `events`, a batch smaller than the log makes the worker come back, and two
events in a batch make the handlers of `*` run again. In `procurement`, two lines of one SKU around
another separate "first line" from "every line", four calls take an order to two overlapping receipts
(receiving does not ask for its status), or a supplier through suspension, reactivation and a late
report; two criteria of weights 80 and 20 give a rejection, a qualification and a preference. In
`floor`, two units against a threshold of one separate adjustments that need a review. In
`shipments`, four calls reach a delivered shipment moved by two sessions, and two consolidation
windows over three shipments of one region. In `replenishment`, one
demand shares its reorder point with a second and its safety stock with a third: two calls that start
from its policy, before and after a shift of demand, change one column each, and the row ends with the
safety stock of one and the reorder point of the other, a policy that none of the three asks for
(without its excuse for `clash`, `MixedPolicyNeedsRace` fails there after two commits). The third call
lets a repeated order race. In
`network`, three warehouses make one deficit draw on two surpluses; one reader and one writer already
give every order of reading, storing, deleting and committing, and silent commits come in between.
Every bound is a named constant; sums, packing and ranking are not otherwise restricted. Model values
are symmetric only in runs without temporal properties, or where the only action property is
symmetric itself (`procurement`).

`TypeOK` of `StockLedger` says something beyond shape (counters stay natural); it is checked by
`ledger` and proved. In the other modules it documents the shapes of the variables, and the properties
that could fail take its place in the runs.

## 4. Fairness

* `StockLedger`: weak fairness of `ExpireReservations` and `Tick`. The worker polls in a loop that
  catches every exception until shutdown, and time passes. No caller has to do anything. `HoldsEnd`
  therefore only claims the end of holds that are not extended for ever.
* `LedgerSessions`: strong fairness of each session's next statement. A coroutine that can run is
  run; PostgreSQL serves a row lock's queue in order, so a session that wants a lock again and again
  free gets it; a deadlock is broken by its detector. Beginning a call is not fair.
* `EventLog`: weak fairness of the worker's work; failing cycles are bounded (`MaxFaults`), because a
  cycle that fails for ever settles nothing, in the code as in the model.
* `VisibilityCache`: weak fairness of `Expire`. Redis ends a key by itself; no reader, writer or
  invalidation has to happen for `StaleViewsExpire`.
* All other modules state safety only. `CHECK_DEADLOCK FALSE` is set where bounds or terminal
  states let the system stop; nothing in these programs has to go on.

## 5. What is proved

Eight modules of proofs, for every value of the constants that the named assumptions allow. Every
safety property that the passing runs check is a theorem:

| Theorem | Says |
|---|---|
| `LedgerInvariant`, `TypeCorrect`, `ReservedBacked`, `AllocatedBacked`, `CountersBacked` | the inductive invariant of the ledger and its parts; counters are sums over the reservations |
| `ReservationsSettleOnce` | a reservation is settled once, never rewritten, never confirmed late |
| `LedgerNeverOversells` | only an adjustment or damage can make a covered warehouse oversold |
| `LedgerImplementsBook` | every step of the ledger is a step of `ReservationBook` or a stutter |
| `SessionInvariant`, `DriftIsOverlapped`, `StockIsKept`, `OversellIsOverlapped` | counters drift, stock is lost and units are oversold only where transactions overlapped on the same column or reservation (or stock was taken away) |
| `PlanningInvariant`, `PlanningIsTyped` | what every committed state of orders, reservations and counters satisfies |
| `DriftExplained` | counters miss only reservations that allocations raised on before counting them, and never exceed what is held |
| `BookingsAgree` | the lines of an order say what is booked for it, unit by unit |
| `StatusesTell`, `StoppedIsReleased` | a planned order's status tells its open lines; a stopped order holds nothing |
| `CacheInvariant`, `StaleIsOverlapped`, `CacheTypeCorrect` | an unmarked view shows the balances |
| `PlansAreSettled` | a placement plan spares the reserve of who gives, and leaves nothing to recommend |
| `FewestWarehousesShip` | the greedy fill-rate plan ships all it can, from the fewest warehouses that could |
| `LogInvariant`, `NumbersAreTold`, `StatusTellsEffects` | the numbers of committed events leave no gap and are shared only by races; a status tells what handlers have done |
| `NumbersAreHandledInOrder`, `NoReplaySkips` | events are handled in the order of their numbers unless they raced; a replay applies every number once unless a racing event was committed between its two reads |
| `ProcurementInvariant`, `StatusFollowsLines`, `ReceiptsAreCounted` | without a clash, an order's status follows its lines and its lines add up to what arrived, whichever component drives it |
| `SuspensionExplained`, `PreferenceEarned`, `SubmittedToActive` | the supplier's row tells why it is suspended and whether it earned its preference; checked submissions go to active suppliers |
| `FloorInvariant`, `CountsSettle`, `NegativesExplained` | what a settled count guarantees; when the book of a location can be negative |
| `TransfersInvariant`, `InTransitStaysOpen`, `TransfersConserveStock`, `HeldStockIsSpared` | what is in transit is open, transfers conserve stock, and spare what is held |
| `HistoryInvariant`, `HistoryLegal` | a shipment's history is a legal path that ends in its status |
| `RoutesInvariant`, `RoutesAgree` | the selected plans are those of one carrier, a cheapest of the last planning |
| `DocksInvariant`, `DocksCounted` | no slot is overbooked, and until slots are generated anew every shipment has its booking |
| `LoadsInvariant`, `LoadsAreFit`, `ShipmentsTypeOK` | carriers take the weight, groups keep their limits and are not changed by later calls |
| `PolicyInvariant`, `PoliciesUnmixed` | a policy of two calculations needs a race |
| `SupplyInvariant`, `OrdersReachTarget`, `OversupplyIsRepeated` | orders reach the target, and exceed it only by a repetition |

The arguments.

* Ledger. `ReservedIsBacked` alone is not inductive. A release floors the counter at zero, so its
  exactness needs that the counter was at least what is released, hence the sum over *all* active
  reservations; a confirmation moves units between two sums, so `AllocatedIsBacked` must be known with
  it; the code changes a counter only "if balance", so reservations must draw on warehouses that have
  a row, and warehouses without one must offer nothing (`ReservationsHaveRows`). With `TypeOK` these
  make `LedgerInv`. The lemmas follow the calls: `PlanWithinOffer` (a plan never takes more than a
  warehouse offers), `SettleTotals` (how the sums move when reservations are settled),
  `ReleaseIsExact` (the floor never bites), then one preservation lemma per action. `TotalTheorems`
  holds what is needed about finite sums; `Total` is defined through cardinality of a set of units,
  which the library's finite-set theorems reach without induction over data.
* Sessions. `SessionInv` follows every open call. What it changes in memory is one column of each row
  it has touched (`JobOK`), an allocation has taken from each warehouse once and not more than it read
  there (`MadeOK`), a release has taken off exactly what it settled, from a counter that covers all it
  still may settle (`Backed`), and the stock it read is still there unless `clash` tells of a change
  (`Covered`). A commit either adds to `clash` or writes onto the column it has read, so counters and
  reservations move together (`CommitDrift`) and an allocation's check of the stock still holds
  (`CommitCovered`); what it leaves to the other calls is `StillFits`. Duplicate root rows carry no
  reservations and no debt (`RowsOK`), which is why the sums over them are those of the oldest row.
* Planning. A call is a loop over warehouses, lines and, in a batch, orders; its session is the loop's
  state. `PlanningInv` is the invariant of a session that begins (`Complete(Begun)`), and one lemma per
  kind of turn says what it keeps: `EveryTurn` carries it over the loop, by the least turn that would
  break it. The parts of `Sound` need each other. `LinesFit` (allocated and back-ordered units are the
  line or nothing, and allocated is what is booked) gives the next turn a need it may take; `Lag` (what
  is flushed is not above what is in memory) makes the ranking offer at least what is in memory, so an
  allocation that meets too little does so where the offer was stale, and `Counted` (what is active and
  not counted is at most what such allocations lost) moves with it. Back-orders need what is inside a
  call only: `Drained` says that a turn which leaves a line short leaves nothing on offer, so that no
  later turn of the call fills it and the status set at the end tells the truth; `Kept` says that the
  turns of one order leave the lines, statuses and reservations of the others alone. A release takes
  off what the order holds, which a counter that lags behind may not cover: the floor then absorbs it,
  within `Counted` (`ReleaseIsBalanced`).
* Events. The numbers that a transaction sees, its own included, are a segment 1 .. n; a union of two
  segments is a segment, so a commit leaves no gap, and a rollback takes away nothing that others
  count on. Sharing a number means not having seen the other, hence an overlap. Ids are used once, and
  the worker's cycle holds events of the log under their ids and numbers, so its commit replaces each
  by one whose effects are right for its status. For the order (`OrderInv`): an event that occurs
  after another either got the higher number or raced with it; a cycle that can still commit has passed
  over no pending event but those committed late, which raced with what it took (`Batch`), and so has
  everything handled so far (`Handling`). A replay reads numbers without gaps twice; what came in between
  has raced with an event of the same number or comes after them all.
* Procurement. A call's outcome is right for the row it read; if no column changed in between, it is
  right for the row it is written to, and otherwise `clash` or `overtaken` says so. For the supplier the
  invariant follows each open call: what it has read is the row, column by column, but for those it
  knows to be outdated. The receipts of a line change with what arrived in the same commit, so their
  sums per SKU do. A submission that has asked keeps the supplier active until a suspension
  commits, since no other call writes `is_active` to false.
* Floor. Open tasks of one location all count as sharing; one that does not share finds its units at
  its location unless a task of the location was completed again. A line of a count that has not moved
  was counted at what lies on the shelf, and the book is either what was expected or the shelf. For
  transfers the invariant counts, per root row, what drew on it and has not arrived; that a row is
  spared what it holds is carried for warehouses whose only row is the root row.
* Shipments. What a session has read is a legal history, whatever has been committed since; a move
  writes a legal extension of it together with its end. Routes: the plans of one planning differ in their
  carrier (`RunsOK`), so at most one of them is selected. Docks: a shipment's slot holds its booking
  because a booking is given together with the slot; the count of shipments on a slot is a cardinality,
  bounded by the bookings. Loads: a group's limits are those its last member was let in under
  (`LastOfGroup`), and calls that find a shipment grouped leave it alone.
* Replenishment. A session's policy is of one calculation and differs from what it read in the columns
  it writes; merged into a row that nobody else has written it stays of one calculation. For the orders,
  `Worth` is what a SKU has, is still to get and has lost: only an order changes it. A call's promise is
  to lift it to the target (`PromiseOK`), and the last order's is kept (`GoalOK`).
* Cache. A reader without a mark excludes an open writer, and an entry without a mark one that has
  already deleted the key; so no commit can outdate an unmarked view.
* Network planners. A plan in the making splits each surplus into what is spare and what goes out, each
  deficit into what is needed and what comes in (`Recommended`); both only shrink, so a pair that has
  been dealt with stays so (`Served`, `FurtherOn`), and after both loops every pair has. A warehouse
  that gives therefore keeps reorder point and safety stock; and of two warehouses that could trade
  again one would have had something to spare and the other a need when the loops ended. That no second
  plan moves anything then needs no second run of the loops: it moves at most the new surpluses and
  deficits (`MovesFit`). For the fill rate, the sorted warehouses are a chain along which each takes
  what is left (`WalkTakes`, also used for the ranking of the allocation engine); those before the last
  one used hold less than the demand, and no set of as few can hold more than they (`LargestTotal`).

Assumptions: `WarehouseFinite`, `RankIsOrder` (ranks are natural and differ: the engine's sort is a
list), `ReservationFinite`, `StocksAreNat`, `BoundsOK`, `LinesOK`, `OrderLinesOK`
and `OrderFinite` (orders are finitely many, with lists of positive quantities), `StrategiesOK`, `UrgencyOK` (the
batch's sort is a list), `StockOK`, `LevelsOK`, `RowOrderOK` (the query returns each warehouse once),
`PolicyOK` (no negative policy), `SizesOK`, `SitesOK`,
`RowsOK` (initial counters are natural), `LoadedOK`, `DemandOK`, `InitialOK`, and `NoneIsNoId`,
`NoneIsNoRow`, `NoneIsNoPolicy` and `NoRecordIsNone` (the absent value is no row). TLC evaluates them in
the runs.

Only model-checked: liveness (`HoldsEnd`, `EveryCallEnds`, `EventsSettle`, `StaleViewsExpire`), which
with `ENABLED` is outside the prover. No module declares a recursive operator.

## 6. Findings and what is not modelled

Findings, each shown by a run:

1. `sessions_twice`: `domain/inventory/allocation.py:211` reads a balance without locking it, raises
   `reserved` in memory and writes the absolute value. Two allocations take the same unit. It
   takes an overlap: `DriftNeedsOverlap` and `OversellNeedsOverlap` say that nothing else does it.
2. `planning_drift`: a line whose allocation raises in `domain/fulfillment/planning.py:143` leaves a
   committed reservation that no counter knows of. `DriftIsUncounted` bounds the damage: the counter
   is never above the reservations.

Behaviour the models carry without calling it a bug: receiving sets a purchase order's status from any
status, also a draft's, and only one of the two components that submit orders asks for the supplier;
a second line of a SKU never receives through the warehouse; a qualification does not ask whether the
supplier is suspended; handlers of `*` run again for later events; routes selected twice after planning
again; shipments generated again by a second fulfil call; a workflow that calls an order planned
whatever was found, and whose compensation leaves lines, plans and shipments; a rescheduled shipment that
keeps its date and its old booking; a count of zero that is taken for no count.

Modelled although the program does not reach it yet. Outside the tests nothing constructs the
fulfilment workflow, the reservation manager (extending, confirming and expiring through it), the
purchase order manager, the supplier qualification, the cycle counts, the delivery scheduler, the
network coordinator with its placement planner, or the replayer. Nothing calls `complete_pick`,
`ship_transfer`, `receive_transfer`, `handle_partial_fulfillment`, and of the services
`calculate_safety_stock` and `consolidate_shipments`; `transition_state` is called for `planned` only; no
service is given a cache, and nothing
subscribes handlers. They are complete components, some with their own tests, and the models say what
holds once they are wired.

Some hazards are not risks but what the code does, and a property that holds can only fence them in. A
count of zero, a transfer out of a warehouse with location rows, receipts of nothing, too little or too
much on a transfer, several selected routes, the leaked booking of a reschedule, a move that overwrites
another session's, repeated orders and repeated `*` handlers are excepted by `CountSettlesBook`,
`TransfersSpareHeldStock`, `InTransitIsOpen` and `StockIsConserved`, `SelectedRoutesAgree`,
`DocksCountShipments`, `HistoryTellsStatus`, `OversupplyNeedsRepetition` and `EffectsFollowStatus`: those
say that nothing else does the same harm, or bound it. The notes to the hazards in `PROJECT.json` say
which. Concurrent lost updates of the ledger are covered by `LedgerSessions` alone; `StockLedger` is
serial.

Not modelled:

* putaway, which divides a receipt by capacity and has no caller; the dependency graph and the generic
  workflow orchestrator, in-memory structures nobody builds;
* floating-point statistics and heuristics that write no operational state: forecasting, the cost and
  capacity objectives, distances, scores and the supplier ratings no decision reads;
* what event handlers do (audit records, cache keys): nothing subscribes them, and their conditions
  fail for the events the program publishes; the Redis stream, whose client no bus is given;
* parsing, formatting, authentication (every call some role may make may happen), append-only audit
  records, schema migrations and the front end.

Storage and transport failures appear as rollbacks.

## 7. Plan

Done, in this order: ledger and abstract book with proofs, sessions, planning, events, purchase
orders, floor, shipments, replenishment; then the workflow and rejected plans, replays and wildcard
handlers, suppliers and their composition with the order, the cache and the network planners; then
proofs of every safety property the runs check, the network planners last. Next:

1. Shapes (`TypeOK`) of the modules whose invariants carry more than that already, as theorems.
2. Putaway by capacity and the dependency graph as functions checked against reference definitions,
   should the program come to use them.
