---------------------------- MODULE WarehouseFloor ----------------------------
(***************************************************************************)
(* The stock of one SKU on the floor: transfers between warehouses, picks   *)
(* from locations and cycle counts.  A warehouse keeps one root row for a   *)
(* SKU and may hold further rows for single locations; the source writes    *)
(* location rows but never creates one, so which rows exist is part of the  *)
(* initial state.  Transfers move stock between root rows, picks and counts *)
(* change location rows; they meet in the aggregate over all rows of a      *)
(* warehouse, against which a transfer is checked.  The step is one call.   *)
(*                                                                         *)
(* `shelf' is what physically lies at a location; `pick.shared', `moved',   *)
(* `losses' and `opening' are history.  Nothing in the code reads these.    *)
(***************************************************************************)
EXTENDS Totals, FiniteSetsExt

CONSTANTS
    Warehouse, Location, Transfer, Pick,
    SiteOf,             \* SiteOf[l]: the warehouse of location l
    NoRow, NoRecord,    \* no balance row; no transfer, pick or count yet
    ReviewThreshold,    \* VARIANCE_THRESHOLD_REVIEW of the source (50)
    InitialRows,        \* the balances a behaviour may start from
    MaxMove,             \* bound: units in one transfer, pick or receipt
    MaxCompletions,     \* bound: calls of complete_pick for one task
    MaxLosses           \* bound: times units are found or lost outside the system

Place == Warehouse \cup Location
Row == [on_hand : Int, allocated : Nat, in_transit : Nat]

ASSUME SitesOK == /\ SiteOf \in [Location -> Warehouse] /\ Warehouse \cap Location = {}
                  /\ IsFiniteSet(Warehouse) /\ IsFiniteSet(Location)
ASSUME RowsOK ==
    /\ NoRow \notin Row
    /\ InitialRows \subseteq [Place -> Row \cup {NoRow}]
    /\ \A rows \in InitialRows, l \in Location : rows[l] # NoRow => rows[l].on_hand >= 0
    /\ \A rows \in InitialRows, w \in Warehouse : rows[w] # NoRow =>
           /\ rows[w].in_transit = 0     \* no transfer is under way
           /\ \/ rows[w].on_hand >= rows[w].allocated
              \/ \E l \in Location : SiteOf[l] = w /\ rows[l] # NoRow

PickTask == [at : Location, quantity : Nat, completions : Nat, shared : BOOLEAN]
WarehouseTransfer ==
    [source : Warehouse, destination : Warehouse, quantity : Int,
     status : {"pending", "shipped", "received"}, received : Int, drawn : BOOLEAN]
ASSUME NoRecordIsNone == NoRecord \notin PickTask /\ NoRecord \notin WarehouseTransfer

VARIABLES
    balance,    \* balance[w] the root row of w, balance[l] the row of location l
    transfer,   \* transfer[t]: NoRecord, or a WarehouseTransfer
    pick,       \* pick[k]: NoRecord, or a pick task
    count,      \* NoRecord, or the cycle count session of the floor
    shelf,      \* shelf[l]: units physically at l
    moved,      \* moved[l]: did l change since it was scheduled or counted
    losses,     \* times units were found or lost so far
    opening     \* the root stock a behaviour started from

floorVars == <<balance, transfer, pick, count, shelf, moved, losses, opening>>

-----------------------------------------------------------------------------
HasRow(p) == balance[p] # NoRow
RowsOf(w) == {p \in {w} \cup {l \in Location : SiteOf[l] = w} : HasRow(p)}
Started == {t \in Transfer : transfer[t] # NoRecord}
From(w) == {t \in Started : transfer[t].source = w}
Tasks(l) == {k \in Pick : pick[k] # NoRecord /\ pick[k].at = l}
OnHand(w) == IF HasRow(w) THEN balance[w].on_hand ELSE 0
RootStock == NetTotal(Warehouse, [w \in Warehouse |-> OnHand(w)])
Open(l) == {k \in Tasks(l) : pick[k].completions = 0}

(* InventoryBalance.available.  Of the counters that stock is held by, one  *)
(* stands for all: nothing here reads another.                              *)
Available(row) == Floor(row.on_hand - row.allocated)

(* Mutant: the aggregate forgets what is held. *)
AggregatedOnHand(w) == Floor(NetTotal(RowsOf(w), [p \in RowsOf(w) |-> balance[p].on_hand]))

(* get_aggregated_available: root and location rows of the warehouse. *)
AggregatedAvailable(w) ==
    Floor(NetTotal(RowsOf(w), [p \in RowsOf(w) |-> balance[p].on_hand - balance[p].allocated]))

FloorInit ==
    /\ balance \in InitialRows
    /\ transfer = [t \in Transfer |-> NoRecord]
    /\ pick = [k \in Pick |-> NoRecord]
    /\ count = NoRecord
    /\ shelf = [l \in Location |-> IF HasRow(l) THEN balance[l].on_hand ELSE 0]
    /\ moved = [l \in Location |-> "no"]
    /\ losses = 0
    /\ opening = RootStock

-----------------------------------------------------------------------------
(* initiate_transfer: the aggregate decides, the root row pays, if there is *)
(* one.                                                                     *)
InitiateTransfer(t, source, destination, quantity) ==
    /\ transfer[t] = NoRecord
    /\ source # destination
    /\ AggregatedAvailable(source) >= quantity
    /\ transfer' = [transfer EXCEPT ![t] =
           [source |-> source, destination |-> destination, quantity |-> quantity,
            status |-> "pending", received |-> 0, drawn |-> HasRow(source)]]
    /\ balance' = IF HasRow(source)
                  THEN [balance EXCEPT ![source].on_hand = @ - quantity,
                                       ![source].in_transit = @ + quantity]
                  ELSE balance
    /\ UNCHANGED <<pick, count, shelf, moved, losses, opening>>

(* ship_transfer ships all of it; nothing sets the status "picking" that it *)
(* would also accept.                                                       *)
ShipTransfer(t) ==
    /\ t \in Started /\ transfer[t].status = "pending"
    /\ transfer' = [transfer EXCEPT ![t].status = "shipped"]
    /\ UNCHANGED <<balance, pick, count, shelf, moved, losses, opening>>

(* Mutants: what arrives replaces the stock; a short receipt closes all of  *)
(* the transfer.                                                            *)
StockedAnew(row, units) ==
    IF row = NoRow THEN [on_hand |-> units, allocated |-> 0, in_transit |-> 0]
    ELSE [row EXCEPT !.on_hand = units]
LandedAll(row, order, units) ==
    IF row = NoRow THEN NoRow
    ELSE [row EXCEPT !.in_transit = Floor(@ - order.quantity)]

(* The row of the destination, created if need be, and of the source. *)
Stocked(row, units) ==
    IF row = NoRow THEN [on_hand |-> units, allocated |-> 0, in_transit |-> 0]
    ELSE [row EXCEPT !.on_hand = @ + units]
Landed(row, order, units) ==
    IF row = NoRow THEN NoRow ELSE [row EXCEPT !.in_transit = Floor(@ - units)]

(* receive_transfer.  A received quantity of zero means all of it. *)
ReceiveTransfer(t, quantity) ==
    /\ t \in Started /\ transfer[t].status = "shipped"
    /\ LET order == transfer[t]
           units == IF quantity = 0 THEN order.quantity ELSE quantity
       IN  /\ transfer' = [transfer EXCEPT ![t] = [@ EXCEPT !.status = "received", !.received = units]]
           /\ balance' = [balance EXCEPT ![order.source] = Landed(@, order, units),
                                         ![order.destination] = Stocked(@, units)]
    /\ UNCHANGED <<pick, count, shelf, moved, losses, opening>>

-----------------------------------------------------------------------------
(* Something happened at l: before it was counted, or after. *)
MovedAt(l) ==
    [moved EXCEPT ![l] =
        IF count # NoRecord /\ l \in DOMAIN count.counted /\ count.counted[l] # NoRecord
        THEN "after_count" ELSE "before_count"]

(* Mutant: any stock at all will do. *)
PickableIfAny(l, quantity) == HasRow(l) /\ Available(balance[l]) > 0

Pickable(l, quantity) == HasRow(l) /\ Available(balance[l]) >= quantity

(* create_pick_wave: each line gets a location that could serve it alone,   *)
(* in the unspecified order of list_pickable; nothing is reserved there.    *)
CreatePickWave(wave, at, quantity) ==
    /\ wave # {}
    /\ \A k \in wave : pick[k] = NoRecord /\ Pickable(at[k], quantity[k])
    /\ \E w \in Warehouse : \A k \in wave : SiteOf[at[k]] = w
    /\ pick' = [k \in Pick |->
           CASE k \in wave ->
                  [at |-> at[k], quantity |-> quantity[k], completions |-> 0,
                   shared |-> \/ Open(at[k]) # {}
                              \/ \E j \in wave \ {k} : at[j] = at[k]]
             [] pick[k] # NoRecord /\ \E j \in wave : k \in Open(at[j]) ->
                  [pick[k] EXCEPT !.shared = TRUE]
             [] OTHER -> pick[k]]
    /\ UNCHANGED <<balance, transfer, count, shelf, moved, losses, opening>>

Picked(row, units) ==
    [row EXCEPT !.on_hand = @ - units, !.allocated = Floor(@ - units)]

(* complete_pick does not look at the status of the task: a repeated call   *)
(* books the units once more.  The operator takes them once, and only units *)
(* that are there.                                                          *)
CompletePick(k) ==
    /\ pick[k] # NoRecord /\ pick[k].completions < MaxCompletions
    /\ LET l == pick[k].at
           taken == IF pick[k].completions = 0 THEN pick[k].quantity ELSE 0
       IN  /\ shelf[l] >= taken
           /\ shelf' = [shelf EXCEPT ![l] = @ - taken]
           /\ balance' = [balance EXCEPT ![l] = Picked(@, pick[k].quantity)]
           /\ moved' = MovedAt(l)
    /\ pick' = [pick EXCEPT ![k].completions = @ + 1]
    /\ UNCHANGED <<transfer, count, losses, opening>>

(* Units are lost or found at a location, outside the program. *)
Misplace(l, units) ==
    /\ losses < MaxLosses /\ units # 0
    /\ shelf[l] + units >= 0
    /\ shelf' = [shelf EXCEPT ![l] = @ + units]
    /\ moved' = MovedAt(l)
    /\ losses' = losses + 1
    /\ UNCHANGED <<balance, transfer, pick, count, opening>>

-----------------------------------------------------------------------------
(* schedule_count: one line per location row, with what the book expects.   *)
(* A session lives in the caller's memory; a new one replaces it.           *)
ScheduleCount(w, locations) ==
    LET counting == {l \in locations : SiteOf[l] = w /\ HasRow(l)}
    IN  /\ count' = [status |-> "scheduled",
                     expected |-> [l \in counting |-> balance[l].on_hand],
                     counted |-> [l \in counting |-> NoRecord]]
        /\ moved' = [l \in Location |-> "no"]
        /\ UNCHANGED <<balance, transfer, pick, shelf, losses, opening>>

(* record_count, with what lies on the shelf; also after completion. *)
RecordCount(l) ==
    /\ count # NoRecord /\ l \in DOMAIN count.counted
    /\ count' = [count EXCEPT !.counted[l] = shelf[l], !.status = "in_progress"]
    /\ moved' = [moved EXCEPT ![l] = IF @ = "no" THEN "no" ELSE "before_count"]
    /\ UNCHANGED <<balance, transfer, pick, shelf, losses, opening>>

Variance(l) == count.counted[l] - count.expected[l]
LinesWithVariance ==
    {l \in DOMAIN count.counted : count.counted[l] # NoRecord /\ Variance(l) # 0}

(* Mutant: the count is applied as a difference. *)
AdjustedByVariance(l) == balance[l].on_hand + Variance(l)

(* `counted_quantity or on_hand': a count of zero changes nothing. *)
AdjustedTo(l) == IF count.counted[l] = 0 THEN balance[l].on_hand ELSE count.counted[l]
MaxVariance == Max({IF Variance(l) < 0 THEN -Variance(l) ELSE Variance(l) : l \in LinesWithVariance})

(* apply_adjustments, with the effect on open picks that lose their units.  *)
Apply ==
    /\ balance' = [p \in Place |-> IF p \in LinesWithVariance
                                   THEN [balance[p] EXCEPT !.on_hand = AdjustedTo(p)]
                                   ELSE balance[p]]
    /\ pick' = [k \in Pick |->
           IF \E l \in LinesWithVariance : k \in Open(l) /\ AdjustedTo(l) < balance[l].on_hand
           THEN [pick[k] EXCEPT !.shared = TRUE] ELSE pick[k]]

(* apply_adjustments called on a session by whoever reviewed it.  It checks *)
(* neither the status nor that every line is counted.                       *)
ApplyAdjustments ==
    /\ count # NoRecord
    /\ Apply
    /\ UNCHANGED <<transfer, count, shelf, moved, losses, opening>>

(* complete_session. *)
CompleteSession(auto_adjust) ==
    /\ count # NoRecord /\ \A l \in DOMAIN count.counted : count.counted[l] # NoRecord
    /\ \/ /\ LinesWithVariance = {}
          /\ count' = [count EXCEPT !.status = "completed"]
          /\ UNCHANGED <<balance, pick>>
       \/ /\ LinesWithVariance # {}
          /\ MaxVariance > ReviewThreshold \/ ~auto_adjust
          /\ count' = [count EXCEPT !.status = "variance_review"]
          /\ UNCHANGED <<balance, pick>>
       \/ /\ LinesWithVariance # {}
          /\ MaxVariance <= ReviewThreshold /\ auto_adjust
          /\ Apply
          /\ count' = [count EXCEPT !.status = "adjusted"]
    /\ UNCHANGED <<transfer, shelf, moved, losses, opening>>

FloorNext ==
    \/ \E t \in Transfer, source, destination \in Warehouse, q \in 1 .. MaxMove :
           InitiateTransfer(t, source, destination, q)
    \/ \E t \in Transfer : ShipTransfer(t)
    \/ \E t \in Transfer, q \in 0 .. MaxMove : ReceiveTransfer(t, q)
    \/ \E wave \in SUBSET Pick :
           \E at \in [wave -> Location], q \in [wave -> 1 .. MaxMove] : CreatePickWave(wave, at, q)
    \/ \E k \in Pick : CompletePick(k)
    \/ \E l \in Location, units \in -MaxMove .. MaxMove : Misplace(l, units)
    \/ \E w \in Warehouse, locations \in SUBSET Location : ScheduleCount(w, locations)
    \/ \E l \in Location : RecordCount(l)
    \/ \E auto_adjust \in BOOLEAN : CompleteSession(auto_adjust)
    \/ ApplyAdjustments

FloorSpec == FloorInit /\ [][FloorNext]_floorVars

-----------------------------------------------------------------------------
(* Types; above all, in_transit never falls below zero. *)
FloorTypeOK ==
    /\ balance \in [Place -> Row \cup {NoRow}]
    /\ \A t \in Started : transfer[t] \in WarehouseTransfer
    /\ \A k \in Pick : pick[k] # NoRecord => pick[k].at \in Location
    /\ count # NoRecord => count.status \in {"scheduled", "in_progress", "completed",
                                         "variance_review", "adjusted"}
    /\ shelf \in [Location -> Nat]
    /\ moved \in [Location -> {"no", "before_count", "after_count"}]

(* What a root row has in transit is what left it and has not arrived:      *)
(* open transfers in full, received ones up to what came short, for good.   *)
(* Two things break this: a transfer received above its quantity, and one   *)
(* started while the warehouse had no root row to draw on.                  *)
InTransitIsOpen ==
    \A w \in Warehouse :
        /\ HasRow(w)
        /\ \A t \in From(w) : transfer[t].drawn /\ transfer[t].received <= transfer[t].quantity
        => balance[w].in_transit =
               Total(From(w), [t \in From(w) |-> transfer[t].quantity - transfer[t].received])

OpenTransfers == {t \in Started : transfer[t].status # "received"}

(* As long as no transfer lacked a root row to draw on, and none was        *)
(* received short or over, root stock and open transfers together are what  *)
(* the root rows held at the start: no call loses stock, or makes any.      *)
StockIsConserved ==
    (\A t \in Started : /\ transfer[t].drawn
                        /\ t \in OpenTransfers \/ transfer[t].received = transfer[t].quantity)
    => RootStock + Total(OpenTransfers, [t \in OpenTransfers |-> transfer[t].quantity]) = opening

(* A transfer never takes what is held for orders, in a warehouse without   *)
(* location rows.  With them it can: the aggregate that admits the transfer *)
(* counts their stock, and the root row alone pays.                         *)
TransfersSpareHeldStock ==
    \A w \in Warehouse : HasRow(w) /\ RowsOf(w) = {w} => balance[w].on_hand >= balance[w].allocated

(* The book of a location falls below zero only after picks that shared its *)
(* stock, a count that took away the units of an open pick, or a pick task  *)
(* completed twice.                                                         *)
NegativeNeedsSharing ==
    \A l \in Location : HasRow(l) /\ balance[l].on_hand < 0 =>
        \E k \in Tasks(l) : pick[k].shared \/ pick[k].completions > 1

(* A settled count leaves the book at what lies on the shelf, unless goods  *)
(* moved after they were counted, or moved before and brought the count to  *)
(* the expected number, or the shelf was empty.                             *)
CountSettlesBook ==
    count # NoRecord /\ count.status \in {"completed", "adjusted"} =>
        \A l \in DOMAIN count.counted :
            \/ balance[l].on_hand = shelf[l]
            \/ moved[l] = "after_count"
            \/ moved[l] = "before_count" /\ Variance(l) = 0
            \/ count.counted[l] = 0
=============================================================================
