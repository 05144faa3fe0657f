---------------------------- MODULE StockFlowProofs ----------------------------
(***************************************************************************)
(* Proofs about WarehouseFloor, where stock moves, and Replenishment, which *)
(* orders more of it, for any warehouses, locations, transfers, picks, SKUs,*)
(* demands and sessions.                                                    *)
(***************************************************************************)
EXTENDS WarehouseFloor, Replenishment, TotalTheorems

-----------------------------------------------------------------------------
(* WarehouseFloor.                                                         *)
Order == {o \in WarehouseTransfer : o.source # o.destination}

Shape ==
    /\ balance \in [Place -> Row \cup {NoRow}]
    /\ transfer \in [Transfer -> Order \cup {NoRecord}]
    /\ shelf \in [Location -> Nat]
    /\ moved \in [Location -> {"no", "before_count", "after_count"}]
    /\ pick = [k \in Pick |-> pick[k]]
    /\ \A k \in Pick : pick[k] = NoRecord \/ pick[k] \in PickTask

IsOpen(k) == pick[k] # NoRecord /\ pick[k].completions = 0
Excuses(k, l) ==
    pick[k] # NoRecord /\ pick[k].at = l /\ (pick[k].shared \/ pick[k].completions > 1)
Repeated(l) == \E k \in Pick : pick[k] # NoRecord /\ pick[k].at = l /\ pick[k].completions > 1

(* Open tasks of one location all share; one that does not finds its units,  *)
(* unless a task of the location was completed again in the meantime.        *)
PicksInv ==
    /\ \A k \in Pick : pick[k] # NoRecord => HasRow(pick[k].at)
    /\ \A j, k \in Pick :
          j # k /\ IsOpen(j) /\ IsOpen(k) /\ pick[j].at = pick[k].at => pick[k].shared
    /\ \A k \in Pick :
          IsOpen(k) /\ ~pick[k].shared =>
              balance[pick[k].at].on_hand >= pick[k].quantity \/ Repeated(pick[k].at)
    /\ \A l \in Location : HasRow(l) /\ balance[l].on_hand < 0 => \E k \in Pick : Excuses(k, l)

(* What the session expects and has counted, seen against book and shelf.    *)
LineOK(l) ==
    /\ HasRow(l) /\ count.expected[l] \in Int /\ count.counted[l] \in Nat \cup {NoRecord}
    /\ moved[l] # "after_count" => count.counted[l] \in {NoRecord, shelf[l]}
    /\ moved[l] = "no" => balance[l].on_hand \in {count.expected[l], shelf[l]}
    /\ count.status \in {"completed", "adjusted"} =>
          /\ count.counted[l] # NoRecord
          /\ \/ balance[l].on_hand = shelf[l]
             \/ moved[l] = "after_count"
             \/ moved[l] = "before_count" /\ Variance(l) = 0
             \/ count.counted[l] = 0
CountInv ==
    count # NoRecord =>
        /\ count = [status |-> count.status, expected |-> count.expected,
                    counted |-> count.counted]
        /\ count.counted = [l \in DOMAIN count.counted |-> count.counted[l]]
        /\ DOMAIN count.counted \subseteq Location
        /\ \A l \in DOMAIN count.counted : LineOK(l)

FloorInv == Shape /\ PicksInv /\ CountInv

-----------------------------------------------------------------------------
LEMMA PlacesApart ==
    /\ \A l \in Location : l \in Place /\ l \notin Warehouse
    /\ \A w \in Warehouse : w \in Place /\ w \notin Location
BY SitesOK DEF Place

LEMMA FloorNat ==
    ASSUME NEW n \in Int
    PROVE  Floor(n) \in Nat /\ (Floor(n) >= 1 => Floor(n) = n)
BY DEF Floor

(* The transfer side changes root rows only. *)
LEMMA LocationsKept ==
    ASSUME FloorInv, \A l \in Location : balance'[l] = balance[l],
           UNCHANGED <<pick, count, shelf, moved>>
    PROVE  PicksInv' /\ CountInv'
<1>1. \A k \in Pick : pick[k] # NoRecord => pick[k].at \in Location
    BY DEF FloorInv, Shape, PickTask
<1>2. PicksInv'
    <2>1. PicksInv
        BY DEF FloorInv
    <2>2. \A k \in Pick : pick'[k] # NoRecord => balance'[pick'[k].at] = balance[pick[k].at]
        BY <1>1
    <2>3. \A k \in Pick : pick'[k] # NoRecord => HasRow(pick[k].at)'
        BY <2>1, <2>2 DEF PicksInv, HasRow
    <2> QED BY <2>1, <2>2, <2>3 DEF PicksInv, HasRow, IsOpen, Excuses, Repeated
<1>3. CountInv'
    <2> SUFFICES ASSUME count # NoRecord
                 PROVE  \A l \in DOMAIN count.counted : LineOK(l)'
        BY DEF FloorInv, CountInv
    <2> TAKE l \in DOMAIN count.counted
    <2>1. l \in Location /\ LineOK(l)
        BY DEF FloorInv, CountInv
    <2> QED BY <2>1 DEF LineOK, HasRow, Variance
<1> QED BY <1>2, <1>3

(* What a transfer takes from the root row of its source. *)
LEMMA InitiateChange ==
    ASSUME FloorInv, NEW t \in Transfer, NEW source \in Warehouse, NEW destination \in Warehouse,
           NEW q \in 1 .. MaxMove, InitiateTransfer(t, source, destination, q)
    PROVE  /\ q \in Nat /\ q >= 1
           /\ balance' \in [Place -> Row \cup {NoRow}]
           /\ \A p \in Place \ {source} : balance'[p] = balance[p]
           /\ HasRow(source) => /\ balance[source] \in Row /\ balance'[source] \in Row
                               /\ balance'[source].on_hand = balance[source].on_hand - q
                               /\ balance'[source].allocated = balance[source].allocated
                               /\ balance'[source].in_transit = balance[source].in_transit + q
           /\ ~HasRow(source) => balance'[source] = balance[source]
<1> DEFINE row == balance[source]
<1>1. q \in Nat /\ q >= 1 /\ source \in Place /\ balance \in [Place -> Row \cup {NoRow}]
    BY PlacesApart DEF FloorInv, Shape
<1>2. CASE HasRow(source)
    <2> DEFINE drawn == [on_hand |-> row.on_hand - q, allocated |-> row.allocated,
                         in_transit |-> row.in_transit + q]
    <2>1. row \in Row
        BY <1>1, <1>2 DEF HasRow
    <2>2. drawn \in Row
        BY <1>1, <2>1 DEF Row
    <2>3. balance' = [balance EXCEPT ![source].on_hand = @ - q, ![source].in_transit = @ + q]
        BY <1>2 DEF InitiateTransfer
    <2>4. balance' = [balance EXCEPT ![source] = drawn]
        <3> DEFINE b == [balance EXCEPT ![source].on_hand = @ - q]
                   half == [on_hand |-> row.on_hand - q, allocated |-> row.allocated,
                            in_transit |-> row.in_transit]
        <3>1. b = [balance EXCEPT ![source] = half]
            <4>1. [row EXCEPT !.on_hand = row.on_hand - q] = half
                BY <2>1 DEF Row
            <4>2. b = [balance EXCEPT ![source] = [row EXCEPT !.on_hand = row.on_hand - q]]
                OBVIOUS
            <4> QED BY <4>1, <4>2
        <3>2. balance' = [b EXCEPT ![source].in_transit = @ + q]
            BY <2>3
        <3> HIDE DEF b
        <3>3. b[source] = half /\ DOMAIN b = Place
            BY <1>1, <3>1
        <3>4. [half EXCEPT !.in_transit = @ + q] = drawn
            OBVIOUS
        <3>5. balance' = [b EXCEPT ![source] = drawn]
            BY <3>2, <3>3, <3>4
        <3> QED BY <1>1, <3>1, <3>5
    <2>5. /\ drawn.on_hand = row.on_hand - q /\ drawn.allocated = row.allocated
          /\ drawn.in_transit = row.in_transit + q
        OBVIOUS
    <2> HIDE DEF drawn
    <2> QED BY <1>1, <1>2, <2>1, <2>2, <2>4, <2>5
<1>3. CASE ~HasRow(source)
    BY <1>1, <1>3 DEF InitiateTransfer
<1> QED BY <1>1, <1>2, <1>3

LEMMA InitiateInv ==
    ASSUME FloorInv, NEW t \in Transfer, NEW source \in Warehouse, NEW destination \in Warehouse,
           NEW q \in 1 .. MaxMove, InitiateTransfer(t, source, destination, q)
    PROVE  FloorInv'
<1> DEFINE order == [source |-> source, destination |-> destination, quantity |-> q,
                     status |-> "pending", received |-> 0, drawn |-> HasRow(source)]
<1>1. UNCHANGED <<pick, count, shelf, moved>> /\ q \in Int
    BY DEF InitiateTransfer
<1>2. transfer' \in [Transfer -> Order \cup {NoRecord}]
    <2>1. HasRow(source) \in BOOLEAN
        BY DEF HasRow
    <2>2. order \in Order
        BY <1>1, <2>1 DEF Order, WarehouseTransfer, InitiateTransfer
    <2>3. transfer' = [transfer EXCEPT ![t] = order]
        BY DEF InitiateTransfer
    <2> HIDE DEF order
    <2> QED BY <2>2, <2>3 DEF FloorInv, Shape
<1>3. balance' \in [Place -> Row \cup {NoRow}] /\ \A l \in Location : balance'[l] = balance[l]
    BY InitiateChange, PlacesApart
<1>4. Shape'
    BY <1>1, <1>2, <1>3 DEF FloorInv, Shape
<1> QED BY <1>1, <1>3, <1>4, LocationsKept DEF FloorInv

LEMMA ShipInv ==
    ASSUME FloorInv, NEW t \in Transfer, ShipTransfer(t)
    PROVE  FloorInv'
<1>1. UNCHANGED <<balance, pick, count, shelf, moved>>
    BY DEF ShipTransfer
<1>2. transfer' \in [Transfer -> Order \cup {NoRecord}]
    <2>1. transfer[t] \in Order
        BY DEF ShipTransfer, Started, FloorInv, Shape
    <2>2. [transfer[t] EXCEPT !.status = "shipped"] \in Order
        BY <2>1 DEF Order, WarehouseTransfer
    <2>3. transfer' = [transfer EXCEPT ![t] = [transfer[t] EXCEPT !.status = "shipped"]]
        BY DEF ShipTransfer
    <2> QED BY <2>2, <2>3 DEF FloorInv, Shape
<1>3. Shape'
    BY <1>1, <1>2 DEF FloorInv, Shape
<1> QED BY <1>1, <1>3, LocationsKept DEF FloorInv

(* A receipt of q units: zero means all of them. *)
UnitsOf(t, q) == IF q = 0 THEN transfer[t].quantity ELSE q

(* It writes two root rows and the transfer. *)
LEMMA ReceiveChange ==
    ASSUME FloorInv, NEW t \in Transfer, NEW q \in 0 .. MaxMove, ReceiveTransfer(t, q),
           NEW source, source = transfer[t].source,
           NEW destination, destination = transfer[t].destination
    PROVE  /\ transfer[t] \in Order /\ source # destination
           /\ transfer' = [transfer EXCEPT ![t] =
                  [source |-> source, destination |-> destination,
                   quantity |-> transfer[t].quantity, status |-> "received",
                   received |-> UnitsOf(t, q), drawn |-> transfer[t].drawn]]
           /\ balance' \in [Place -> Row \cup {NoRow}]
           /\ \A p \in Place \ {source, destination} : balance'[p] = balance[p]
           /\ balance'[source] = Landed(balance[source], transfer[t], UnitsOf(t, q))
           /\ balance'[destination] = Stocked(balance[destination], UnitsOf(t, q))
<1> DEFINE order == transfer[t]
           units == UnitsOf(t, q)
<1>1. order \in Order
    BY DEF ReceiveTransfer, Started, FloorInv, Shape
<1>2. /\ units \in Int /\ source \in Warehouse /\ destination \in Warehouse
      /\ source \in Place /\ destination \in Place /\ source # destination
    BY <1>1, PlacesApart DEF Order, WarehouseTransfer, UnitsOf
<1>3. /\ transfer' = [transfer EXCEPT ![t] = [@ EXCEPT !.status = "received", !.received = units]]
      /\ balance' = [balance EXCEPT ![source] = Landed(@, order, units),
                                    ![destination] = Stocked(@, units)]
    BY DEF ReceiveTransfer, UnitsOf
<1> HIDE DEF units
<1>4. transfer' = [transfer EXCEPT ![t] =
                      [source |-> source, destination |-> destination,
                       quantity |-> order.quantity, status |-> "received",
                       received |-> units, drawn |-> order.drawn]]
    <2> DEFINE half == [order EXCEPT !.status = "received"]
               o == [order EXCEPT !.status = "received", !.received = units]
    <2>1. half = [source |-> order.source, destination |-> order.destination,
                  quantity |-> order.quantity, status |-> "received",
                  received |-> order.received, drawn |-> order.drawn]
        BY <1>1 DEF Order, WarehouseTransfer
    <2>2. o = [half EXCEPT !.received = units]
        OBVIOUS
    <2>3. transfer' = [transfer EXCEPT ![t] = o]
        BY <1>3
    <2> HIDE DEF half, o
    <2>4. o = [source |-> source, destination |-> destination,
               quantity |-> order.quantity, status |-> "received",
               received |-> units, drawn |-> order.drawn]
        BY <2>1, <2>2
    <2> QED BY <2>3, <2>4
<1>5. \A row \in Row \cup {NoRow} : /\ Landed(row, order, units) \in Row \cup {NoRow}
                                    /\ Stocked(row, units) \in Row \cup {NoRow}
    <2> TAKE row \in Row \cup {NoRow}
    <2>1. CASE row = NoRow
        BY <1>2, <2>1 DEF Landed, Stocked, Row
    <2>2. CASE row # NoRow
        <3>1. row \in Row /\ row.in_transit - units \in Int /\ row.on_hand + units \in Int
            BY <1>2, <2>2 DEF Row
        <3>2. Floor(row.in_transit - units) \in Nat
            BY <3>1, FloorNat
        <3>3. Landed(row, order, units) = [row EXCEPT !.in_transit = Floor(row.in_transit - units)]
            BY <2>2 DEF Landed
        <3>4. Stocked(row, units) = [row EXCEPT !.on_hand = row.on_hand + units]
            BY <2>2 DEF Stocked
        <3> QED BY <3>1, <3>2, <3>3, <3>4 DEF Row
    <2> QED BY <2>1, <2>2
<1>6. /\ balance' \in [Place -> Row \cup {NoRow}]
      /\ \A p \in Place \ {source, destination} : balance'[p] = balance[p]
      /\ balance'[source] = Landed(balance[source], order, units)
      /\ balance'[destination] = Stocked(balance[destination], units)
    <2> DEFINE b == [balance EXCEPT ![source] = Landed(@, order, units)]
    <2>1. /\ b \in [Place -> Row \cup {NoRow}]
          /\ \A p \in Place \ {source} : b[p] = balance[p]
          /\ b[source] = Landed(balance[source], order, units)
        BY <1>2, <1>5 DEF FloorInv, Shape
    <2>2. b[destination] = balance[destination]
        BY <1>2
    <2>3. balance' = [b EXCEPT ![destination] = Stocked(balance[destination], units)]
        BY <1>3, <2>2
    <2>4. Stocked(balance[destination], units) \in Row \cup {NoRow}
        BY <1>2, <1>5 DEF FloorInv, Shape
    <2> HIDE DEF b
    <2> QED BY <1>2, <2>1, <2>3, <2>4
<1> QED BY <1>1, <1>2, <1>4, <1>6 DEF units

LEMMA ReceiveInv ==
    ASSUME FloorInv, NEW t \in Transfer, NEW q \in 0 .. MaxMove, ReceiveTransfer(t, q)
    PROVE  FloorInv'
<1> DEFINE order == transfer[t]
           o == [source |-> order.source, destination |-> order.destination,
                 quantity |-> order.quantity, status |-> "received",
                 received |-> UnitsOf(t, q), drawn |-> order.drawn]
<1>1. UNCHANGED <<pick, count, shelf, moved>>
    BY DEF ReceiveTransfer
<1>2. /\ order \in Order /\ transfer' = [transfer EXCEPT ![t] = o]
      /\ balance' \in [Place -> Row \cup {NoRow}]
      /\ \A p \in Place \ {order.source, order.destination} : balance'[p] = balance[p]
    BY ReceiveChange
<1>3. o \in Order
    BY <1>2 DEF Order, WarehouseTransfer, UnitsOf
<1> HIDE DEF o
<1>4. \A l \in Location : balance'[l] = balance[l]
    BY <1>2, PlacesApart DEF Order, WarehouseTransfer
<1>5. Shape'
    BY <1>1, <1>2, <1>3 DEF FloorInv, Shape
<1> QED BY <1>1, <1>4, <1>5, LocationsKept DEF FloorInv

-----------------------------------------------------------------------------
LEMMA PicksKept ==
    ASSUME FloorInv, UNCHANGED <<balance, pick>>
    PROVE  PicksInv'
BY DEF FloorInv, PicksInv, HasRow, IsOpen, Excuses, Repeated

(* Something moves at one location: its line says so, the others are as they *)
(* were.                                                                     *)
LEMMA TouchedLine ==
    ASSUME FloorInv, NEW l \in Location, count' = count, moved' = MovedAt(l),
           \A m \in Location \ {l} : balance'[m] = balance[m] /\ shelf'[m] = shelf[m],
           HasRow(l) => balance'[l] # NoRow
    PROVE  CountInv' /\ moved' \in [Location -> {"no", "before_count", "after_count"}]
<1>1. moved' \in [Location -> {"no", "before_count", "after_count"}]
    BY DEF MovedAt, FloorInv, Shape
<1>2. \A m \in Location \ {l} : moved'[m] = moved[m]
    BY DEF MovedAt, FloorInv, Shape
<1>3. ASSUME count # NoRecord, NEW m \in DOMAIN count.counted
      PROVE  LineOK(m)'
    <2>1. m \in Location /\ LineOK(m)
        BY <1>3 DEF FloorInv, CountInv
    <2>2. CASE m # l
        BY <1>2, <2>1, <2>2 DEF LineOK, HasRow, Variance
    <2>3. CASE m = l /\ count.counted[l] # NoRecord
        <3>1. moved'[l] = "after_count"
            BY <1>3, <2>3 DEF MovedAt, FloorInv, Shape
        <3> QED BY <2>1, <2>3, <3>1 DEF LineOK, HasRow, Variance
    <2>4. CASE m = l /\ count.counted[l] = NoRecord
        <3>1. moved'[l] = "before_count"
            BY <1>3, <2>4 DEF MovedAt, FloorInv, Shape
        <3> QED BY <2>1, <2>4, <3>1 DEF LineOK, HasRow, Variance
    <2> QED BY <2>2, <2>3, <2>4
<1>4. CountInv'
    BY <1>3 DEF FloorInv, CountInv
<1> QED BY <1>1, <1>4

LEMMA MisplaceInv ==
    ASSUME FloorInv, NEW l \in Location, NEW units \in -MaxMove .. MaxMove, Misplace(l, units)
    PROVE  FloorInv'
<1>1. /\ shelf' = [shelf EXCEPT ![l] = @ + units] /\ shelf[l] + units >= 0
      /\ moved' = MovedAt(l) /\ UNCHANGED <<balance, transfer, pick, count>>
    BY DEF Misplace
<1>2. shelf' \in [Location -> Nat] /\ \A m \in Location \ {l} : shelf'[m] = shelf[m]
    <2>1. shelf[l] + units \in Nat
        BY <1>1 DEF FloorInv, Shape
    <2> QED BY <1>1, <2>1 DEF FloorInv, Shape
<1>3. CountInv' /\ moved' \in [Location -> {"no", "before_count", "after_count"}]
    BY <1>1, <1>2, TouchedLine DEF HasRow
<1>4. Shape'
    BY <1>1, <1>2, <1>3 DEF FloorInv, Shape
<1> QED BY <1>1, <1>3, <1>4, PicksKept DEF FloorInv

LEMMA ScheduleInv ==
    ASSUME FloorInv, NEW w \in Warehouse, NEW locations \in SUBSET Location,
           ScheduleCount(w, locations)
    PROVE  FloorInv'
<1> DEFINE counting == {l \in locations : SiteOf[l] = w /\ HasRow(l)}
           expected == [l \in counting |-> balance[l].on_hand]
           counted == [l \in counting |-> NoRecord]
<1>1. /\ count' = [status |-> "scheduled", expected |-> expected, counted |-> counted]
      /\ moved' = [l \in Location |-> "no"] /\ UNCHANGED <<balance, transfer, pick, shelf>>
    BY DEF ScheduleCount
<1>2. \A l \in counting :
          l \in Location /\ HasRow(l) /\ expected[l] = balance[l].on_hand /\ counted[l] = NoRecord
    OBVIOUS
<1>3. \A l \in counting : balance[l].on_hand \in Int
    BY <1>2, PlacesApart DEF FloorInv, Shape, HasRow, Row
<1>4. DOMAIN counted = counting
    OBVIOUS
<1>5. counted = [l \in DOMAIN counted |-> counted[l]]
    OBVIOUS
<1> HIDE DEF counting, expected, counted
<1>6. /\ count'.status = "scheduled" /\ count'.expected = expected /\ count'.counted = counted
      /\ count' = [status |-> count'.status, expected |-> count'.expected,
                   counted |-> count'.counted]
    BY <1>1
<1>7. ASSUME NEW l \in counting
      PROVE  LineOK(l)'
    <2>1. moved'[l] = "no" /\ HasRow(l)'
        BY <1>1, <1>2 DEF HasRow
    <2> QED BY <1>1, <1>2, <1>3, <1>6, <2>1 DEF LineOK
<1>8. CountInv'
    BY <1>2, <1>4, <1>5, <1>6, <1>7 DEF CountInv
<1>9. Shape'
    BY <1>1 DEF FloorInv, Shape
<1> QED BY <1>1, <1>8, <1>9, PicksKept DEF FloorInv

LEMMA RecordInv ==
    ASSUME FloorInv, NEW l \in Location, RecordCount(l)
    PROVE  FloorInv'
<1> DEFINE counted == [count.counted EXCEPT ![l] = shelf[l]]
<1>1. /\ count # NoRecord /\ l \in DOMAIN count.counted
      /\ moved' = [moved EXCEPT ![l] = IF @ = "no" THEN "no" ELSE "before_count"]
      /\ UNCHANGED <<balance, transfer, pick, shelf>>
    BY DEF RecordCount
<1>2. /\ count = [status |-> count.status, expected |-> count.expected,
                  counted |-> count.counted]
      /\ count.counted = [m \in DOMAIN count.counted |-> count.counted[m]]
      /\ DOMAIN count.counted \subseteq Location
      /\ \A m \in DOMAIN count.counted : LineOK(m)
    BY <1>1 DEF FloorInv, CountInv
<1>3. count' = [status |-> "in_progress", expected |-> count.expected, counted |-> counted]
    <2> DEFINE c == [count EXCEPT !.counted = counted]
    <2>1. count' = [count EXCEPT !.counted[l] = shelf[l], !.status = "in_progress"]
        BY DEF RecordCount
    <2>2. count' = [c EXCEPT !.status = "in_progress"]
        BY <2>1
    <2> HIDE DEF counted
    <2>3. c = [status |-> count.status, expected |-> count.expected, counted |-> counted]
        BY <1>2
    <2> HIDE DEF c
    <2> QED BY <2>2, <2>3
<1>4. /\ DOMAIN counted = DOMAIN count.counted
      /\ counted = [m \in DOMAIN counted |-> counted[m]]
      /\ counted[l] = shelf[l]
      /\ \A m \in DOMAIN count.counted : m # l => counted[m] = count.counted[m]
    BY <1>1
<1> HIDE DEF counted
<1>5. /\ count'.status = "in_progress" /\ count'.expected = count.expected
      /\ count'.counted = counted
      /\ count' = [status |-> count'.status, expected |-> count'.expected,
                   counted |-> count'.counted]
    BY <1>3
<1>6. moved' \in [Location -> {"no", "before_count", "after_count"}]
    BY <1>1 DEF FloorInv, Shape
<1>7. ASSUME NEW m \in DOMAIN count.counted
      PROVE  LineOK(m)'
    <2>1. LineOK(m) /\ m \in Location /\ HasRow(m)'
        BY <1>1, <1>2 DEF LineOK, HasRow
    <2>2. CASE m = l
        <3>1. /\ moved'[l] \in {"no", "before_count"}
              /\ moved'[l] = "no" => moved[l] = "no"
            BY <1>1 DEF FloorInv, Shape
        <3>2. shelf[l] \in Nat
            BY DEF FloorInv, Shape
        <3> QED BY <1>1, <1>4, <1>5, <2>1, <2>2, <3>1, <3>2 DEF LineOK
    <2>3. CASE m # l
        <3>1. moved'[m] = moved[m]
            BY <1>1, <2>1, <2>3 DEF FloorInv, Shape
        <3> QED BY <1>1, <1>4, <1>5, <2>1, <2>3, <3>1 DEF LineOK
    <2> QED BY <2>2, <2>3
<1>8. CountInv'
    BY <1>2, <1>4, <1>5, <1>7 DEF CountInv
<1>9. Shape'
    BY <1>1, <1>6 DEF FloorInv, Shape
<1> QED BY <1>1, <1>8, <1>9, PicksKept DEF FloorInv

-----------------------------------------------------------------------------
LEMMA WaveInv ==
    ASSUME FloorInv, NEW wave \in SUBSET Pick, NEW at \in [wave -> Location],
           NEW quantity \in [wave -> 1 .. MaxMove], CreatePickWave(wave, at, quantity)
    PROVE  FloorInv'
<1> DEFINE Shared(k) == Open(at[k]) # {} \/ \E j \in wave \ {k} : at[j] = at[k]
           task(k) == [at |-> at[k], quantity |-> quantity[k], completions |-> 0,
                       shared |-> Shared(k)]
           Met(k) == pick[k] # NoRecord /\ \E j \in wave : k \in Open(at[j])
<1>1. /\ \A k \in wave : pick[k] = NoRecord /\ Pickable(at[k], quantity[k])
      /\ UNCHANGED <<balance, transfer, count, shelf, moved>>
    BY DEF CreatePickWave
<1>2. \A k \in wave : quantity[k] \in Nat /\ quantity[k] >= 1 /\ at[k] \in Location
    <2>1. \A n \in 1 .. MaxMove : n \in Nat /\ n >= 1
        OBVIOUS
    <2> QED BY <2>1
<1>3. /\ pick' = [k \in Pick |-> pick'[k]]
      /\ \A k \in wave : pick'[k] = task(k)
      /\ \A k \in Pick \ wave : pick'[k] = IF Met(k) THEN [pick[k] EXCEPT !.shared = TRUE]
                                            ELSE pick[k]
    BY DEF CreatePickWave
<1>4. \A k \in wave : /\ task(k) \in PickTask /\ task(k).at = at[k]
                      /\ task(k).quantity = quantity[k] /\ task(k).completions = 0
                      /\ task(k).shared <=> Shared(k)
    <2>1. \A k : Shared(k) \in BOOLEAN
        OBVIOUS
    <2> HIDE DEF Shared
    <2> QED BY <1>2, <2>1 DEF PickTask
<1>5. ASSUME NEW k \in Pick \ wave
      PROVE  /\ pick'[k] = NoRecord <=> pick[k] = NoRecord
             /\ pick[k] # NoRecord =>
                   /\ pick'[k] \in PickTask /\ pick'[k].at = pick[k].at
                   /\ pick'[k].quantity = pick[k].quantity
                   /\ pick'[k].completions = pick[k].completions
                   /\ pick'[k].shared <=> pick[k].shared \/ Met(k)
    <2>1. pick[k] = NoRecord \/ pick[k] \in PickTask
        BY DEF FloorInv, Shape
    <2>2. CASE ~Met(k)
        <3> HIDE DEF Met
        <3> QED BY <1>3, <2>1, <2>2
    <2>3. CASE Met(k)
        <3>1. pick[k] \in PickTask /\ pick'[k] = [pick[k] EXCEPT !.shared = TRUE]
            BY <1>3, <2>1, <2>3
        <3> HIDE DEF Met
        <3>2. /\ pick'[k] \in PickTask /\ pick'[k].at = pick[k].at
              /\ pick'[k].quantity = pick[k].quantity
              /\ pick'[k].completions = pick[k].completions /\ pick'[k].shared = TRUE
            BY <3>1 DEF PickTask
        <3> QED BY <2>3, <3>1, <3>2, NoRecordIsNone
    <2> QED BY <2>2, <2>3
<1> HIDE DEF task
<1>6. \A k \in wave : pick'[k] # NoRecord
    BY <1>3, <1>4, NoRecordIsNone
<1>7. \A k \in Pick \ wave, j \in wave :
          IsOpen(k) /\ pick[k].at = at[j] => Met(k) /\ Shared(j)
    BY DEF IsOpen, Open, Tasks
<1>8. \A j, k \in wave : j # k /\ at[j] = at[k] => Shared(k)
    OBVIOUS
<1>9. \A k \in wave : HasRow(at[k]) /\ balance[at[k]].on_hand >= quantity[k]
    <2> TAKE k \in wave
    <2> DEFINE row == balance[at[k]]
    <2>1. HasRow(at[k]) /\ Available(row) >= quantity[k]
        BY <1>1 DEF Pickable
    <2>2. row \in Row
        BY <1>2, <2>1, PlacesApart DEF FloorInv, Shape, HasRow
    <2>3. row.on_hand \in Int /\ row.allocated \in Nat /\ row.on_hand - row.allocated \in Int
        BY <2>2 DEF Row
    <2>4. Floor(row.on_hand - row.allocated) >= 1
        BY <1>2, <2>1, <2>3, FloorNat DEF Available
    <2>5. row.on_hand - row.allocated >= quantity[k]
        BY <2>1, <2>3, <2>4, FloorNat DEF Available
    <2> QED BY <1>2, <2>1, <2>3, <2>5
<1> HIDE DEF Shared, Met
<1>10. Shape'
    <2>1. \A k \in Pick : pick'[k] = NoRecord \/ pick'[k] \in PickTask
        BY <1>3, <1>4, <1>5
    <2> QED BY <1>1, <1>3, <2>1 DEF FloorInv, Shape
<1>11. PicksInv'
    <2>1. ASSUME NEW k \in Pick, pick'[k] # NoRecord
          PROVE  HasRow(pick[k].at)'
        <3>1. CASE k \in wave
            BY <1>1, <1>3, <1>4, <1>9, <3>1 DEF HasRow
        <3>2. CASE k \notin wave
            BY <1>1, <1>5, <2>1, <3>2 DEF FloorInv, PicksInv, HasRow
        <3> QED BY <3>1, <3>2
    <2>2. ASSUME NEW j \in Pick, NEW k \in Pick, j # k, IsOpen(j)', IsOpen(k)',
                 pick'[j].at = pick'[k].at
          PROVE  pick'[k].shared
        <3>1. CASE k \in wave /\ j \in wave
            BY <1>3, <1>4, <1>8, <2>2, <3>1
        <3>2. CASE k \in wave /\ j \notin wave
            <4>1. IsOpen(j) /\ pick[j].at = at[k]
                BY <1>3, <1>4, <1>5, <2>2, <3>2 DEF IsOpen
            <4> QED BY <1>3, <1>4, <1>7, <3>2, <4>1
        <3>3. CASE k \notin wave /\ j \in wave
            <4>1. IsOpen(k) /\ pick[k].at = at[j]
                BY <1>3, <1>4, <1>5, <2>2, <3>3 DEF IsOpen
            <4> QED BY <1>5, <1>7, <3>3, <4>1 DEF IsOpen
        <3>4. CASE k \notin wave /\ j \notin wave
            <4>1. IsOpen(k) /\ IsOpen(j) /\ pick[j].at = pick[k].at
                BY <1>5, <2>2, <3>4 DEF IsOpen
            <4> QED BY <1>5, <2>2, <3>4, <4>1 DEF FloorInv, PicksInv, IsOpen
        <3> QED BY <3>1, <3>2, <3>3, <3>4
    <2>3. \A l : Repeated(l) => Repeated(l)'
        <3>1. \A k \in Pick : pick[k] # NoRecord => k \notin wave
            BY <1>1
        <3> QED BY <1>5, <3>1 DEF Repeated
    <2>4. ASSUME NEW k \in Pick, IsOpen(k)', ~pick'[k].shared
          PROVE  \/ balance'[pick'[k].at].on_hand >= pick'[k].quantity
                 \/ Repeated(pick[k].at)'
        <3>1. CASE k \in wave
            BY <1>1, <1>3, <1>4, <1>9, <3>1
        <3>2. CASE k \notin wave
            <4>1. IsOpen(k) /\ ~pick[k].shared
                BY <1>5, <2>4, <3>2 DEF IsOpen
            <4>2. balance[pick[k].at].on_hand >= pick[k].quantity \/ Repeated(pick[k].at)
                BY <4>1 DEF FloorInv, PicksInv
            <4> QED BY <1>1, <1>5, <2>3, <3>2, <4>1, <4>2 DEF IsOpen
        <3> QED BY <3>1, <3>2
    <2>5. \A k \in Pick : \A l : Excuses(k, l) => Excuses(k, l)'
        <3>1. \A k \in Pick : pick[k] # NoRecord => k \notin wave
            BY <1>1
        <3> QED BY <1>5, <3>1 DEF Excuses
    <2>6. \A l \in Location : HasRow(l)' /\ balance'[l].on_hand < 0 =>
              \E k \in Pick : Excuses(k, l)'
        BY <1>1, <2>5 DEF FloorInv, PicksInv, HasRow
    <2> QED BY <2>1, <2>2, <2>4, <2>6 DEF PicksInv
<1>12. CountInv'
    BY <1>1 DEF FloorInv, CountInv, LineOK, HasRow, Variance
<1> QED BY <1>10, <1>11, <1>12 DEF FloorInv

(* What of it concerns transfers: no root row changes, no row appears.       *)
RowsStay ==
    /\ \A w \in Warehouse : balance'[w] = balance[w]
    /\ \A l \in Location : HasRow(l)' <=> HasRow(l)

LEMMA CompletePickInv ==
    ASSUME FloorInv, NEW k \in Pick, CompletePick(k)
    PROVE  FloorInv' /\ RowsStay
<1> DEFINE l == pick[k].at
           q == pick[k].quantity
           row == balance[l]
           less == [on_hand |-> row.on_hand - q, allocated |-> Floor(row.allocated - q),
                    in_transit |-> row.in_transit]
           task == [at |-> pick[k].at, quantity |-> pick[k].quantity,
                    completions |-> pick[k].completions + 1, shared |-> pick[k].shared]
           taken == IF pick[k].completions = 0 THEN q ELSE 0
<1>1. /\ pick[k] # NoRecord /\ pick[k] \in PickTask /\ HasRow(l)
      /\ moved' = MovedAt(l) /\ shelf[l] >= taken
      /\ shelf' = [shelf EXCEPT ![l] = @ - taken]
      /\ UNCHANGED <<transfer, count>>
    BY DEF CompletePick, FloorInv, Shape, PicksInv
<1>2. /\ l \in Location /\ l \in Place /\ q \in Nat /\ row \in Row
      /\ pick[k].completions \in Nat /\ pick[k].shared \in BOOLEAN
    BY <1>1, PlacesApart DEF PickTask, FloorInv, Shape, HasRow
<1>3. less \in Row /\ less # NoRow /\ less.on_hand = row.on_hand - q
    <2>1. row.allocated - q \in Int /\ row.on_hand - q \in Int /\ row.in_transit \in Nat
        BY <1>2 DEF Row
    <2>2. Floor(row.allocated - q) \in Nat
        BY <2>1, FloorNat
    <2>3. less \in Row
        BY <2>1, <2>2 DEF Row
    <2> QED BY <2>3, RowsOK
<1>4. task \in PickTask
    BY <1>2 DEF PickTask
<1>5. balance' = [balance EXCEPT ![l] = less]
    <2> DEFINE half == [row EXCEPT !.on_hand = row.on_hand - q]
    <2>1. balance' = [balance EXCEPT ![l] = Picked(row, q)]
        BY DEF CompletePick
    <2>2. half = [on_hand |-> row.on_hand - q, allocated |-> row.allocated,
                  in_transit |-> row.in_transit]
        BY <1>2 DEF Row
    <2>3. Picked(row, q) = [half EXCEPT !.allocated = Floor(@ - q)]
        BY DEF Picked
    <2> HIDE DEF half
    <2>4. Picked(row, q) = less
        BY <2>2, <2>3
    <2> QED BY <2>1, <2>4
<1>6. pick' = [pick EXCEPT ![k] = task]
    <2>1. [pick[k] EXCEPT !.completions = pick[k].completions + 1] = task
        BY <1>1 DEF PickTask
    <2>2. pick' = [pick EXCEPT ![k] = [pick[k] EXCEPT !.completions = pick[k].completions + 1]]
        BY DEF CompletePick
    <2> QED BY <2>1, <2>2
<1> HIDE DEF less
<1>7. /\ balance' \in [Place -> Row \cup {NoRow}] /\ balance'[l] = less
      /\ \A p \in Place \ {l} : balance'[p] = balance[p]
    BY <1>2, <1>3, <1>5 DEF FloorInv, Shape
<1>8. \A p \in Place : HasRow(p) => HasRow(p)'
    BY <1>3, <1>7 DEF HasRow
<1>9. /\ pick' = [j \in Pick |-> pick'[j]] /\ pick'[k] \in PickTask /\ pick'[k] # NoRecord
      /\ pick'[k].at = l /\ pick'[k].quantity = q /\ pick'[k].shared = pick[k].shared
      /\ pick'[k].completions = pick[k].completions + 1
      /\ \A j \in Pick \ {k} : pick'[j] = pick[j]
    <2>1. pick' = [j \in Pick |-> pick'[j]] /\ pick'[k] = task
              /\ \A j \in Pick \ {k} : pick'[j] = pick[j]
        BY <1>6 DEF FloorInv, Shape
    <2> QED BY <1>4, <2>1, NoRecordIsNone
<1>10. shelf' \in [Location -> Nat] /\ \A m \in Location \ {l} : shelf'[m] = shelf[m]
    <2>1. taken \in Nat
        BY <1>2
    <2> HIDE DEF taken
    <2>2. shelf[l] - taken \in Nat
        BY <1>1, <1>2, <2>1 DEF FloorInv, Shape
    <2> QED BY <1>1, <2>2 DEF FloorInv, Shape
<1> HIDE DEF task, taken
<1>11. CountInv' /\ moved' \in [Location -> {"no", "before_count", "after_count"}]
    <2>1. \A m \in Location \ {l} : balance'[m] = balance[m] /\ shelf'[m] = shelf[m]
        BY <1>7, <1>10, PlacesApart
    <2>2. HasRow(l) => balance'[l] # NoRow
        BY <1>3, <1>7
    <2> HIDE DEF l
    <2> QED BY <1>1, <1>2, <2>1, <2>2, TouchedLine
<1>12. Shape'
    <2>1. \A j \in Pick : pick'[j] = NoRecord \/ pick'[j] \in PickTask
        BY <1>9 DEF FloorInv, Shape
    <2> QED BY <1>1, <1>7, <1>9, <1>10, <1>11, <2>1 DEF FloorInv, Shape
<1>13. PicksInv'
    <2>1. ~IsOpen(k)' /\ \A j \in Pick \ {k} : IsOpen(j)' <=> IsOpen(j)
        BY <1>2, <1>9 DEF IsOpen
    <2>2. \A m : Repeated(m) => Repeated(m)'
        BY <1>2, <1>9 DEF Repeated
    <2>3. \A j \in Pick : \A m : Excuses(j, m) => Excuses(j, m)'
        BY <1>2, <1>9 DEF Excuses
    <2>4. IsOpen(k) \/ (pick[k].completions >= 1 /\ Repeated(l)' /\ Excuses(k, l)')
        <3>1. CASE pick[k].completions = 0
            BY <1>1, <3>1 DEF IsOpen
        <3>2. CASE pick[k].completions # 0
            <4>1. pick[k].completions >= 1 /\ pick'[k].completions > 1
                BY <1>2, <1>9, <3>2
            <4>2. Repeated(l)' /\ Excuses(k, l)'
                BY <1>9, <4>1 DEF Repeated, Excuses
            <4> QED BY <4>1, <4>2
        <3> QED BY <3>1, <3>2
    <2>5. \A j \in Pick : pick'[j] # NoRecord => HasRow(pick[j].at)'
                                           /\ pick'[j].at = pick[j].at
        <3>1. \A j \in Pick : pick[j] # NoRecord => HasRow(pick[j].at) /\ pick[j].at \in Place
            BY PlacesApart DEF FloorInv, PicksInv, Shape, PickTask
        <3> QED BY <1>1, <1>8, <1>9, <3>1
    <2>6. \A i, j \in Pick :
              i # j /\ IsOpen(i)' /\ IsOpen(j)' /\ pick'[i].at = pick'[j].at => pick'[j].shared
        BY <1>9, <2>1 DEF FloorInv, PicksInv
    <2>7. ASSUME NEW j \in Pick, IsOpen(j)', ~pick'[j].shared
          PROVE  balance'[pick'[j].at].on_hand >= pick'[j].quantity \/ Repeated(pick[j].at)'
        <3>1. j # k /\ IsOpen(j) /\ pick'[j] = pick[j] /\ ~pick[j].shared
            BY <1>9, <2>1, <2>7
        <3>2. CASE pick[j].at = l
            <4>1. ~IsOpen(k)
                BY <3>1, <3>2 DEF FloorInv, PicksInv
            <4>2. Repeated(l)' /\ pick'[j].at = pick'[k].at
                BY <1>9, <2>4, <3>1, <3>2, <4>1
            <4> QED BY <3>1, <4>2 DEF Repeated
        <3>3. CASE pick[j].at # l
            <4>1. pick[j].at \in Place
                BY <3>1, PlacesApart DEF IsOpen, FloorInv, Shape, PickTask
            <4>2. balance[pick[j].at].on_hand >= pick[j].quantity \/ Repeated(pick[j].at)
                BY <3>1 DEF FloorInv, PicksInv
            <4> QED BY <1>7, <2>2, <3>1, <3>3, <4>1, <4>2
        <3> QED BY <3>2, <3>3
    <2>8. ASSUME NEW m \in Location, HasRow(m)', balance'[m].on_hand < 0
          PROVE  \E j \in Pick : Excuses(j, m)'
        <3>1. CASE m # l
            <4>1. HasRow(m) /\ balance[m].on_hand < 0
                BY <1>7, <2>8, <3>1, PlacesApart DEF HasRow
            <4> QED BY <2>3, <4>1 DEF FloorInv, PicksInv
        <3>2. CASE m = l /\ IsOpen(k)
            <4>1. CASE pick[k].shared
                BY <1>9, <3>2, <4>1 DEF Excuses
            <4>2. CASE ~pick[k].shared
                <5>1. row.on_hand \in Int /\ row.on_hand - q < 0
                    BY <1>2, <1>3, <1>7, <2>8, <3>2 DEF Row
                <5>2. ~(row.on_hand >= q)
                    BY <1>2, <5>1
                <5>3. Repeated(l)
                    BY <3>2, <4>2, <5>2 DEF FloorInv, PicksInv
                <5> QED BY <2>3, <3>2, <5>3 DEF Repeated, Excuses
            <4> QED BY <4>1, <4>2
        <3>3. CASE m = l /\ ~IsOpen(k)
            <4>1. Excuses(k, l)' /\ m = pick'[k].at
                BY <1>9, <2>4, <3>3
            <4> QED BY <4>1 DEF Excuses
        <3> QED BY <3>1, <3>2, <3>3
    <2>9. \A j \in Pick : pick'[j] # NoRecord => balance'[pick'[j].at] # NoRow
        BY <2>5 DEF HasRow
    <2>10. \A j \in Pick : IsOpen(j)' /\ ~pick'[j].shared =>
              balance'[pick'[j].at].on_hand >= pick'[j].quantity \/ Repeated(pick[j].at)'
        BY <2>7
    <2> QED BY <2>5, <2>6, <2>8, <2>9, <2>10 DEF PicksInv, HasRow, IsOpen, Repeated, Excuses
<1>14. RowsStay
    <2>1. \A w \in Warehouse : w # l
        BY <1>2, PlacesApart
    <2>2. balance[l] # NoRow /\ balance'[l] # NoRow
        BY <1>1, <1>3, <1>7 DEF HasRow
    <2> HIDE DEF l
    <2>3. \A p \in Place : balance'[p] # NoRow <=> balance[p] # NoRow
        BY <1>7, <2>2
    <2> QED BY <1>7, <2>1, <2>3, PlacesApart DEF RowsStay, HasRow
<1> QED BY <1>11, <1>12, <1>13, <1>14 DEF FloorInv

-----------------------------------------------------------------------------
Settles(l, on_hand) ==
    \/ on_hand = shelf[l]
    \/ moved[l] = "after_count"
    \/ moved[l] = "before_count" /\ Variance(l) = 0
    \/ count.counted[l] = 0

LEMMA SessionShape ==
    ASSUME FloorInv, count # NoRecord
    PROVE  /\ count = [status |-> count.status, expected |-> count.expected,
                       counted |-> count.counted]
           /\ count.counted = [l \in DOMAIN count.counted |-> count.counted[l]]
           /\ LinesWithVariance \subseteq DOMAIN count.counted
           /\ \A l \in DOMAIN count.counted :
                 /\ l \in Location /\ LineOK(l) /\ balance[l] \in Row
                 /\ shelf[l] \in Nat /\ moved[l] \in {"no", "before_count", "after_count"}
<1>1. \A l \in DOMAIN count.counted : l \in Location /\ LineOK(l)
    BY DEF FloorInv, CountInv
<1>2. \A l \in DOMAIN count.counted :
          balance[l] \in Row /\ shelf[l] \in Nat /\ moved[l] \in {"no", "before_count", "after_count"}
    BY <1>1, PlacesApart DEF LineOK, HasRow, FloorInv, Shape
<1> QED BY <1>1, <1>2 DEF FloorInv, CountInv, LinesWithVariance

(* A counted line settles its book: by the adjustment if it varies, and as   *)
(* it is if it does not.                                                     *)
LEMMA LineSettles ==
    ASSUME FloorInv, count # NoRecord, NEW l \in DOMAIN count.counted, NEW on_hand,
           count.counted[l] # NoRecord,
           \/ l \in LinesWithVariance /\ on_hand = AdjustedTo(l)
           \/ l \notin LinesWithVariance /\ on_hand = balance[l].on_hand
    PROVE  Settles(l, on_hand) /\ (moved[l] = "no" => on_hand \in {count.expected[l], shelf[l]})
<1>1. /\ LineOK(l) /\ shelf[l] \in Nat /\ count.counted[l] \in Nat /\ count.expected[l] \in Int
      /\ moved[l] \in {"no", "before_count", "after_count"}
      /\ moved[l] # "after_count" => count.counted[l] = shelf[l]
      /\ moved[l] = "no" => balance[l].on_hand \in {count.expected[l], shelf[l]}
    BY SessionShape DEF LineOK
<1>2. CASE l \in LinesWithVariance
    BY <1>1, <1>2 DEF AdjustedTo, Settles
<1>3. CASE l \notin LinesWithVariance
    <2>1. Variance(l) = 0
        BY <1>3 DEF LinesWithVariance
    <2>2. count.counted[l] = count.expected[l]
        BY <1>1, <2>1 DEF Variance
    <2> QED BY <1>1, <1>3, <2>1, <2>2 DEF Settles
<1> QED BY <1>2, <1>3

LEMMA ApplyKeeps ==
    ASSUME FloorInv, count # NoRecord, Apply, UNCHANGED <<transfer, shelf, moved>>
    PROVE  /\ Shape' /\ PicksInv' /\ RowsStay
           /\ \A l \in DOMAIN count.counted :
                 /\ HasRow(l)'
                 /\ balance'[l].on_hand = IF l \in LinesWithVariance THEN AdjustedTo(l)
                                          ELSE balance[l].on_hand
<1> DEFINE D == LinesWithVariance
           Cut(k) == \E l \in D : k \in Open(l) /\ AdjustedTo(l) < balance[l].on_hand
<1>1. \A l \in D :
          /\ l \in Location /\ l \in Place /\ balance[l] \in Row /\ AdjustedTo(l) \in Int
          /\ AdjustedTo(l) >= 0 \/ AdjustedTo(l) = balance[l].on_hand
    <2> TAKE l \in D
    <2>1. /\ l \in Location /\ LineOK(l) /\ balance[l] \in Row /\ count.counted[l] # NoRecord
        BY SessionShape DEF LinesWithVariance
    <2>2. count.counted[l] \in Nat /\ balance[l].on_hand \in Int
        BY <2>1 DEF LineOK, Row
    <2> QED BY <2>1, <2>2, PlacesApart DEF AdjustedTo
<1>2. /\ \A p \in Place : balance'[p] = IF p \in D THEN [balance[p] EXCEPT !.on_hand = AdjustedTo(p)]
                                         ELSE balance[p]
      /\ balance' = [p \in Place |-> balance'[p]]
    BY DEF Apply
<1>3. /\ \A k \in Pick : pick'[k] = IF Cut(k) THEN [pick[k] EXCEPT !.shared = TRUE] ELSE pick[k]
      /\ pick' = [k \in Pick |-> pick'[k]]
    BY DEF Apply
<1> HIDE DEF D
<1>4. \A p \in D : balance'[p] \in Row /\ balance'[p].on_hand = AdjustedTo(p)
    BY <1>1, <1>2 DEF Row
<1>5. \A p \in Place \ D : balance'[p] = balance[p]
    BY <1>2
<1>6. balance' \in [Place -> Row \cup {NoRow}]
    <2>1. \A p \in Place : balance'[p] \in Row \cup {NoRow}
        BY <1>4, <1>5 DEF FloorInv, Shape
    <2> QED BY <1>2, <2>1
<1>7. \A p \in Place : HasRow(p) => HasRow(p)'
    BY <1>4, <1>5, RowsOK DEF HasRow
<1>8. ASSUME NEW k \in Pick
      PROVE  /\ pick'[k] = NoRecord \/ pick'[k] \in PickTask
             /\ pick'[k] = NoRecord <=> pick[k] = NoRecord
             /\ pick[k] # NoRecord =>
                   /\ pick'[k].at = pick[k].at /\ pick'[k].quantity = pick[k].quantity
                   /\ pick'[k].completions = pick[k].completions
                   /\ pick'[k].shared <=> pick[k].shared \/ Cut(k)
    <2>1. pick[k] = NoRecord \/ pick[k] \in PickTask
        BY DEF FloorInv, Shape
    <2>2. CASE ~Cut(k)
        <3> HIDE DEF Cut
        <3> QED BY <1>3, <2>1, <2>2
    <2>3. CASE Cut(k)
        <3>1. pick[k] # NoRecord
            BY <2>3 DEF Open, Tasks
        <3>2. pick[k] \in PickTask /\ pick'[k] = [pick[k] EXCEPT !.shared = TRUE]
            BY <1>3, <2>1, <2>3, <3>1
        <3> HIDE DEF Cut
        <3>3. /\ pick'[k] \in PickTask /\ pick'[k].at = pick[k].at
              /\ pick'[k].quantity = pick[k].quantity
              /\ pick'[k].completions = pick[k].completions /\ pick'[k].shared = TRUE
            BY <3>2 DEF PickTask
        <3> QED BY <2>3, <3>1, <3>3, NoRecordIsNone
    <2> QED BY <2>2, <2>3
<1>9. Shape'
    BY <1>3, <1>6, <1>8 DEF FloorInv, Shape
<1>10. \A k \in Pick : IsOpen(k)' <=> IsOpen(k)
    BY <1>8 DEF IsOpen
<1>11. \A l : Repeated(l) => Repeated(l)'
    BY <1>8 DEF Repeated
<1>12. \A k \in Pick : \A l : Excuses(k, l) => Excuses(k, l)'
    BY <1>8 DEF Excuses
<1>13. ASSUME NEW k \in Pick, IsOpen(k), ~pick'[k].shared
       PROVE  balance'[pick[k].at].on_hand >= pick[k].quantity \/ Repeated(pick[k].at)
    <2> DEFINE l == pick[k].at
    <2>1. pick[k] # NoRecord /\ ~Cut(k) /\ ~pick[k].shared /\ pick[k] \in PickTask
        BY <1>8, <1>13 DEF IsOpen, FloorInv, Shape
    <2>2. l \in Place /\ pick[k].quantity \in Nat /\ HasRow(l)
        BY <2>1, PlacesApart DEF PickTask, FloorInv, PicksInv
    <2>3. balance[l].on_hand >= pick[k].quantity \/ Repeated(l)
        BY <1>13, <2>1 DEF FloorInv, PicksInv
    <2>4. CASE l \in D
        <3>1. k \in Open(l)
            BY <1>13, <2>1 DEF IsOpen, Open, Tasks
        <3>2. ~(AdjustedTo(l) < balance[l].on_hand)
            BY <2>1, <2>4, <3>1
        <3>3. balance[l].on_hand \in Int /\ AdjustedTo(l) \in Int
            BY <1>1, <2>4 DEF Row
        <3> QED BY <1>4, <2>2, <2>3, <2>4, <3>2, <3>3
    <2>5. CASE l \notin D
        BY <1>5, <2>2, <2>3, <2>5
    <2> QED BY <2>4, <2>5
<1>14. PicksInv'
    <2>1. \A k \in Pick : pick'[k] # NoRecord => balance'[pick'[k].at] # NoRow
        <3>1. \A k \in Pick : pick[k] # NoRecord => HasRow(pick[k].at) /\ pick[k].at \in Place
            BY PlacesApart DEF FloorInv, PicksInv, Shape, PickTask
        <3> QED BY <1>7, <1>8, <3>1 DEF HasRow
    <2>2. \A j, k \in Pick :
              j # k /\ IsOpen(j)' /\ IsOpen(k)' /\ pick'[j].at = pick'[k].at => pick'[k].shared
        BY <1>8, <1>10 DEF FloorInv, PicksInv, IsOpen
    <2>3. \A k \in Pick : IsOpen(k)' /\ ~pick'[k].shared =>
              balance'[pick'[k].at].on_hand >= pick'[k].quantity \/ Repeated(pick[k].at)'
        <3> TAKE k \in Pick
        <3> HAVE IsOpen(k)' /\ ~pick'[k].shared
        <3>1. IsOpen(k) /\ pick'[k].at = pick[k].at /\ pick'[k].quantity = pick[k].quantity
            BY <1>8, <1>10 DEF IsOpen
        <3>2. balance'[pick[k].at].on_hand >= pick[k].quantity \/ Repeated(pick[k].at)
            BY <1>13, <3>1
        <3>3. Repeated(pick[k].at) => Repeated(pick[k].at)'
            BY <1>11, <3>1 DEF Repeated
        <3> QED BY <3>1, <3>2, <3>3
    <2>4. ASSUME NEW l \in Location, balance'[l] # NoRow, balance'[l].on_hand < 0
          PROVE  \E k \in Pick : Excuses(k, l)'
        <3>1. balance[l] # NoRow /\ balance[l].on_hand < 0
            <4>1. CASE l \in D
                <5>1. AdjustedTo(l) \in Int /\ AdjustedTo(l) < 0
                    BY <1>1, <1>4, <2>4, <4>1
                <5> QED BY <1>1, <4>1, <5>1, RowsOK
            <4>2. CASE l \notin D
                BY <1>5, <2>4, <4>2, PlacesApart
            <4> QED BY <4>1, <4>2
        <3> QED BY <1>12, <3>1 DEF FloorInv, PicksInv, HasRow
    <2> QED BY <2>1, <2>2, <2>3, <2>4 DEF PicksInv, HasRow, IsOpen, Repeated, Excuses
<1>15. ASSUME NEW l \in DOMAIN count.counted
       PROVE  /\ HasRow(l)'
              /\ balance'[l].on_hand = IF l \in D THEN AdjustedTo(l) ELSE balance[l].on_hand
    <2>1. l \in Place /\ HasRow(l)
        BY SessionShape, PlacesApart DEF LineOK
    <2> QED BY <1>4, <1>5, <1>7, <2>1
<1>16. RowsStay
    <2>1. \A w \in Warehouse : w \notin D
        BY <1>1, PlacesApart
    <2>2. \A l \in D : HasRow(l) /\ HasRow(l)'
        BY <1>1, <1>4, RowsOK DEF HasRow
    <2> QED BY <1>5, <2>1, <2>2, PlacesApart DEF RowsStay, HasRow
<1> QED BY <1>9, <1>14, <1>15, <1>16 DEF D

LEMMA ApplyAdjustmentsInv ==
    ASSUME FloorInv, ApplyAdjustments
    PROVE  FloorInv'
<1>1. count # NoRecord /\ Apply /\ UNCHANGED <<transfer, count, shelf, moved>>
    BY DEF ApplyAdjustments
<1>2. /\ Shape' /\ PicksInv'
      /\ \A l \in DOMAIN count.counted :
            /\ HasRow(l)'
            /\ balance'[l].on_hand = IF l \in LinesWithVariance THEN AdjustedTo(l)
                                     ELSE balance[l].on_hand
    BY <1>1, ApplyKeeps
<1>3. ASSUME NEW l \in DOMAIN count.counted
      PROVE  LineOK(l)'
    <2>1. LineOK(l) /\ HasRow(l)' /\ Variance(l)' = Variance(l)
        BY <1>1, <1>2, SessionShape DEF Variance
    <2>2. CASE l \notin LinesWithVariance
        <3>1. balance'[l].on_hand = balance[l].on_hand
            BY <1>2, <2>2
        <3> QED BY <1>1, <2>1, <3>1 DEF LineOK
    <2>3. CASE l \in LinesWithVariance
        <3>1. balance'[l].on_hand = AdjustedTo(l) /\ count.counted[l] # NoRecord
            BY <1>2, <2>3 DEF LinesWithVariance
        <3>2. /\ Settles(l, balance'[l].on_hand)
              /\ moved[l] = "no" => balance'[l].on_hand \in {count.expected[l], shelf[l]}
            BY <1>1, <2>3, <3>1, LineSettles
        <3> QED BY <1>1, <2>1, <3>2 DEF LineOK, Settles
    <2> QED BY <2>2, <2>3
<1>4. CountInv'
    BY <1>1, <1>3, SessionShape DEF CountInv
<1> QED BY <1>2, <1>4 DEF FloorInv

LEMMA CompleteSessionInv ==
    ASSUME FloorInv, NEW auto_adjust \in BOOLEAN, CompleteSession(auto_adjust)
    PROVE  FloorInv'
<1>1. /\ count # NoRecord /\ \A l \in DOMAIN count.counted : count.counted[l] # NoRecord
      /\ UNCHANGED <<transfer, shelf, moved>>
    BY DEF CompleteSession
<1>2. ASSUME NEW status \in {"completed", "variance_review", "adjusted"},
             count' = [count EXCEPT !.status = status],
             \A l \in DOMAIN count.counted :
                 HasRow(l)' /\ (\/ l \in LinesWithVariance /\ balance'[l].on_hand = AdjustedTo(l)
                               \/ /\ l \notin LinesWithVariance \/ status = "variance_review"
                                  /\ balance'[l].on_hand = balance[l].on_hand)
      PROVE  CountInv'
    <2>1. count' = [status |-> status, expected |-> count.expected, counted |-> count.counted]
        BY <1>1, <1>2, SessionShape
    <2>2. count'.status = status /\ count'.expected = count.expected /\ count'.counted = count.counted
        BY <2>1
    <2>3. ASSUME NEW l \in DOMAIN count.counted
          PROVE  LineOK(l)'
        <3>1. LineOK(l) /\ HasRow(l)' /\ Variance(l)' = Variance(l) /\ count.counted[l] # NoRecord
            BY <1>1, <1>2, <2>2, SessionShape DEF Variance
        <3>2. CASE balance'[l].on_hand = balance[l].on_hand /\ status = "variance_review"
            BY <1>1, <2>2, <3>1, <3>2 DEF LineOK
        <3>3. CASE \/ l \in LinesWithVariance /\ balance'[l].on_hand = AdjustedTo(l)
                   \/ l \notin LinesWithVariance /\ balance'[l].on_hand = balance[l].on_hand
            <4>1. /\ Settles(l, balance'[l].on_hand)
                  /\ moved[l] = "no" => balance'[l].on_hand \in {count.expected[l], shelf[l]}
                BY <1>1, <3>1, <3>3, LineSettles
            <4> QED BY <1>1, <2>2, <3>1, <4>1 DEF LineOK, Settles
        <3> QED BY <1>2, <3>2, <3>3
    <2> QED BY <1>1, <2>1, <2>2, <2>3, SessionShape DEF CountInv
<1>3. ASSUME UNCHANGED <<balance, pick>>, NEW status \in {"completed", "variance_review"},
             count' = [count EXCEPT !.status = status],
             LinesWithVariance = {} \/ status = "variance_review"
      PROVE  FloorInv'
    <2>2. \A l \in DOMAIN count.counted : HasRow(l)' /\ balance'[l].on_hand = balance[l].on_hand
        BY <1>1, <1>3, SessionShape DEF LineOK, HasRow
    <2>3. CountInv'
        BY <1>2, <1>3, <2>2
    <2>4. Shape'
        BY <1>1, <1>3 DEF FloorInv, Shape
    <2> QED BY <1>3, <2>3, <2>4, PicksKept DEF FloorInv
<1>4. CASE Apply /\ count' = [count EXCEPT !.status = "adjusted"]
    <2>1. /\ Shape' /\ PicksInv'
          /\ \A l \in DOMAIN count.counted :
                /\ HasRow(l)'
                /\ balance'[l].on_hand = IF l \in LinesWithVariance THEN AdjustedTo(l)
                                         ELSE balance[l].on_hand
        BY <1>1, <1>4, ApplyKeeps
    <2>2. CountInv'
        BY <1>2, <1>4, <2>1
    <2> QED BY <2>1, <2>2 DEF FloorInv
<1> QED BY <1>3, <1>4 DEF CompleteSession

-----------------------------------------------------------------------------
(* Transfers and root rows. *)

Short(t) == transfer[t].quantity - transfer[t].received
ShortOf(w) == Total(From(w), [t \in From(w) |-> Short(t)])
InTransitAt(w) ==
    /\ HasRow(w)
    /\ \A t \in From(w) : transfer[t].drawn /\ transfer[t].received <= transfer[t].quantity
    => balance[w].in_transit = ShortOf(w)

OpenStock == Total(OpenTransfers, [t \in OpenTransfers |-> transfer[t].quantity])
Exact(t) == transfer[t].drawn /\ (t \in OpenTransfers \/ transfer[t].received = transfer[t].quantity)

SparesHeld(w) == HasRow(w) /\ RowsOf(w) = {w} => balance[w].on_hand >= balance[w].allocated

(* A transfer that drew on a root row still finds it, and has received       *)
(* nothing while it is open.                                                 *)
StartedOK(t) ==
    /\ transfer[t] \in Order
    /\ transfer[t].quantity \in Nat /\ transfer[t].received \in Nat
    /\ transfer[t].status # "received" => transfer[t].received = 0
    /\ transfer[t].drawn => HasRow(transfer[t].source)

TransfersInv ==
    /\ IsFiniteSet(Started)
    /\ \A t \in Started : StartedOK(t)
    /\ \A w \in Warehouse : InTransitAt(w) /\ SparesHeld(w)
    /\ (\A t \in Started : Exact(t)) => RootStock + OpenStock = opening

LEMMA TransfersFinite ==
    ASSUME TransfersInv
    PROVE  /\ \A w : IsFiniteSet(From(w)) /\ From(w) \subseteq Started
           /\ IsFiniteSet(OpenTransfers) /\ OpenTransfers \subseteq Started
BY FS_Subset DEF TransfersInv, From, OpenTransfers

LEMMA OnHandInt ==
    ASSUME FloorInv, NEW w \in Warehouse
    PROVE  OnHand(w) \in Int /\ (HasRow(w) => balance[w] \in Row)
BY PlacesApart DEF FloorInv, Shape, OnHand, HasRow, Row

(* Picks and counts leave transfers and root rows alone, and create no row.  *)
RootsUntouched == UNCHANGED <<transfer, opening>> /\ RowsStay

LEMMA RootsKept ==
    ASSUME FloorInv, TransfersInv, RootsUntouched
    PROVE  TransfersInv'
<1>1. /\ Started' = Started /\ OpenTransfers' = OpenTransfers /\ OpenStock' = OpenStock
      /\ \A t \in Started : Exact(t)' <=> Exact(t)
    BY DEF RootsUntouched, RowsStay, Started, OpenTransfers, OpenStock, Exact
<1>2. ASSUME NEW w \in Warehouse
      PROVE  /\ HasRow(w)' <=> HasRow(w)
             /\ OnHand(w)' = OnHand(w)
    BY DEF RootsUntouched, RowsStay, HasRow, OnHand
<1>3. \A t \in Started : StartedOK(t)'
    <2>1. \A t \in Started : transfer[t] \in Order => transfer[t].source \in Warehouse
        BY DEF Order, WarehouseTransfer
    <2> QED BY <1>1, <1>2, <2>1 DEF TransfersInv, StartedOK, RootsUntouched, RowsStay
<1>4. ASSUME NEW w \in Warehouse PROVE InTransitAt(w)' /\ SparesHeld(w)'
    <2>1. From(w)' = From(w) /\ ShortOf(w)' = ShortOf(w) /\ balance'[w] = balance[w]
        BY <1>1 DEF From, ShortOf, Short, RootsUntouched, RowsStay
    <2>2. RowsOf(w)' = RowsOf(w)
        BY <1>2 DEF RowsOf, RootsUntouched, RowsStay
    <2>3. InTransitAt(w)'
        BY <1>2, <2>1 DEF TransfersInv, InTransitAt, RootsUntouched, RowsStay
    <2>4. SparesHeld(w)'
        BY <1>2, <2>1, <2>2 DEF TransfersInv, SparesHeld
    <2> QED BY <2>3, <2>4
<1>5. RootStock' = RootStock
    BY <1>2 DEF RootStock
<1> QED BY <1>1, <1>3, <1>4, <1>5 DEF TransfersInv, RootsUntouched, RowsStay

LEMMA InitiateTransfers ==
    ASSUME FloorInv, TransfersInv, NEW t \in Transfer, NEW source \in Warehouse,
           NEW destination \in Warehouse, NEW q \in 1 .. MaxMove,
           InitiateTransfer(t, source, destination, q)
    PROVE  TransfersInv'
<1> DEFINE order == [source |-> source, destination |-> destination, quantity |-> q,
                     status |-> "pending", received |-> 0, drawn |-> HasRow(source)]
<1>1. /\ transfer[t] = NoRecord /\ transfer' = [transfer EXCEPT ![t] = order]
      /\ source # destination /\ AggregatedAvailable(source) >= q /\ opening' = opening
    BY DEF InitiateTransfer
<1>2. /\ q \in Nat /\ q >= 1
      /\ balance' \in [Place -> Row \cup {NoRow}]
      /\ \A p \in Place \ {source} : balance'[p] = balance[p]
      /\ HasRow(source) => /\ balance[source] \in Row /\ balance'[source] \in Row
                          /\ balance'[source].on_hand = balance[source].on_hand - q
                          /\ balance'[source].allocated = balance[source].allocated
                          /\ balance'[source].in_transit = balance[source].in_transit + q
      /\ ~HasRow(source) => balance'[source] = balance[source]
    BY InitiateChange
<1>3. /\ order \in Order /\ order # NoRecord
      /\ order.source = source /\ order.quantity = q /\ order.received = 0
      /\ order.status = "pending" /\ order.drawn = HasRow(source)
    <2>1. FloorInv'
        BY InitiateInv
    <2>2. transfer'[t] = order
        BY <1>1 DEF FloorInv, Shape
    <2>3. HasRow(source) \in BOOLEAN
        BY DEF HasRow
    <2>4. order \in Order
        BY <1>1, <1>2, <2>3 DEF Order, WarehouseTransfer
    <2> QED BY <2>4, NoRecordIsNone DEF Order
<1> HIDE DEF order
<1>4. /\ t \notin Started /\ Started' = Started \cup {t} /\ transfer'[t] = order
      /\ \A u \in Started : transfer'[u] = transfer[u]
    BY <1>1, <1>3 DEF Started, FloorInv, Shape
<1>5. \A p \in Place : HasRow(p)' <=> HasRow(p)
    BY <1>2, RowsOK DEF HasRow
<1>6. IsFiniteSet(Started')
    BY <1>4, FS_AddElement DEF TransfersInv
<1>7. ASSUME NEW u \in Started' PROVE StartedOK(u)'
    <2>1. CASE u = t
        BY <1>2, <1>3, <1>4, <1>5, <2>1, PlacesApart DEF StartedOK
    <2>2. CASE u # t
        <3>1. StartedOK(u) /\ transfer'[u] = transfer[u] /\ transfer[u].source \in Place
            BY <1>4, <2>2, PlacesApart DEF TransfersInv, StartedOK, Order, WarehouseTransfer
        <3> QED BY <1>5, <3>1 DEF StartedOK
    <2> QED BY <2>1, <2>2
<1>8. ASSUME NEW w \in Warehouse PROVE InTransitAt(w)'
    <2>1. CASE w # source
        <3>1. From(w)' = From(w) /\ balance'[w] = balance[w] /\ HasRow(w)' = HasRow(w)
            BY <1>2, <1>3, <1>4, <1>5, <2>1, PlacesApart DEF From, HasRow
        <3>2. \A u \in From(w) : transfer'[u] = transfer[u]
            BY <1>4 DEF From
        <3>3. ShortOf(w)' = ShortOf(w)
            BY <3>1, <3>2 DEF ShortOf, Short
        <3> QED BY <3>1, <3>2, <3>3 DEF TransfersInv, InTransitAt
    <2>2. CASE w = source /\ ~HasRow(source)
        BY <1>5, <2>2, PlacesApart DEF InTransitAt
    <2>3. CASE w = source /\ HasRow(source)
        <3>1. From(w)' = From(w) \cup {t} /\ t \notin From(w)
            BY <1>3, <1>4, <2>3 DEF From
        <3>2. \A u \in From(w) : transfer'[u] = transfer[u]
            BY <1>4 DEF From
        <3> SUFFICES ASSUME \A u \in From(w)' :
                                transfer'[u].drawn /\ transfer'[u].received <= transfer'[u].quantity
                     PROVE  balance'[w].in_transit = ShortOf(w)'
            BY DEF InTransitAt
        <3>3. balance[w].in_transit = ShortOf(w)
            BY <2>3, <3>1, <3>2 DEF TransfersInv, InTransitAt
        <3> DEFINE p == [u \in From(w) |-> Short(u)]
                   r == [u \in From(w)' |-> Short(u)']
        <3>4. r[t] = q /\ r[t] \in Nat
            BY <1>2, <1>3, <1>4, <3>1 DEF Short
        <3>5. \A u \in From(w) : p[u] \in Nat /\ r[u] = p[u]
            <4>1. \A u \in From(w) : r[u] = p[u]
                BY <3>1, <3>2 DEF Short
            <4>2. ASSUME NEW u \in From(w) PROVE p[u] \in Nat
                <5>1. StartedOK(u) /\ transfer[u].received <= transfer[u].quantity
                    BY <3>1, <3>2 DEF TransfersInv, From
                <5> QED BY <5>1 DEF StartedOK, Short
            <4> QED BY <4>1, <4>2
        <3>6. ShortOf(w) = Total(From(w), p) /\ ShortOf(w)' = Total(From(w)', r)
            BY DEF ShortOf
        <3>7. IsFiniteSet(From(w))
            BY TransfersFinite
        <3> HIDE DEF p, r
        <3>8. Total(From(w) \cup {t}, r) = Total(From(w), p) + r[t]
            <4>1. t \notin From(w) /\ r[t] \in Nat /\ IsFiniteSet(From(w))
                BY <3>1, <3>4, <3>7
            <4> QED BY <3>5, <4>1, TotalAdd, SMTT(30)
        <3> QED BY <1>2, <2>3, <3>1, <3>3, <3>4, <3>6, <3>8
    <2> QED BY <2>1, <2>2, <2>3
<1>9. ASSUME NEW w \in Warehouse PROVE SparesHeld(w)'
    <2>1. RowsOf(w)' = RowsOf(w) /\ (HasRow(w)' <=> HasRow(w))
        BY <1>5, PlacesApart DEF RowsOf
    <2>2. CASE w # source
        BY <1>2, <2>1, <2>2, PlacesApart DEF TransfersInv, SparesHeld
    <2>3. CASE w = source
        <3> SUFFICES ASSUME HasRow(w), RowsOf(w) = {w}
                     PROVE  balance'[w].on_hand >= balance'[w].allocated
            BY <2>1 DEF SparesHeld
        <3> DEFINE free == [p \in RowsOf(w) |-> balance[p].on_hand - balance[p].allocated]
        <3>1. free[w] = balance[w].on_hand - balance[w].allocated
            OBVIOUS
        <3>2. balance[w].on_hand \in Int /\ balance[w].allocated \in Nat
            BY <1>2, <2>3 DEF Row
        <3>3. Floor(NetTotal({w}, free)) >= q
            BY <1>1, <2>3 DEF AggregatedAvailable
        <3> HIDE DEF free
        <3>4. NetTotal({w}, free) = free[w]
            <4>1. free[w] \in Int
                BY <3>1, <3>2
            <4> QED BY <4>1, NetTotalSingleton
        <3>5. balance[w].on_hand - balance[w].allocated >= q
            BY <1>2, <3>1, <3>2, <3>3, <3>4 DEF Floor
        <3> QED BY <1>2, <2>3, <3>2, <3>5
    <2> QED BY <2>2, <2>3
<1>10. ASSUME \A u \in Started' : Exact(u)' PROVE RootStock' + OpenStock' = opening
    <2>1. HasRow(source)
        BY <1>3, <1>4, <1>10 DEF Exact
    <2>2. OpenTransfers' = OpenTransfers \cup {t} /\ t \notin OpenTransfers
        BY <1>3, <1>4 DEF OpenTransfers
    <2>3. \A u \in Started : Exact(u)
        BY <1>4, <1>10, <2>2 DEF Exact
    <2>4. RootStock + OpenStock = opening
        BY <2>3 DEF TransfersInv
    <2> DEFINE p == [u \in OpenTransfers |-> transfer[u].quantity]
               r == [u \in OpenTransfers' |-> transfer'[u].quantity]
               h == [w \in Warehouse |-> OnHand(w)]
               g == [w \in Warehouse |-> OnHand(w)']
    <2>5. OpenStock = Total(OpenTransfers, p) /\ OpenStock' = Total(OpenTransfers', r)
        BY DEF OpenStock
    <2>6. RootStock = NetTotal(Warehouse, h) /\ RootStock' = NetTotal(Warehouse, g)
        BY DEF RootStock
    <2>7. r[t] = q /\ r[t] \in Nat /\ \A u \in OpenTransfers : p[u] \in Nat /\ r[u] = p[u]
        BY <1>2, <1>3, <1>4, <2>2 DEF TransfersInv, StartedOK, OpenTransfers
    <2>8. g[source] = h[source] - q /\ \A w \in Warehouse \ {source} : h[w] = g[w]
        BY <1>2, <1>5, <2>1, PlacesApart DEF OnHand, HasRow
    <2>9. \A w \in Warehouse : h[w] \in Int /\ g[w] \in Int
        <3>1. \A w \in Warehouse : h[w] \in Int
            BY OnHandInt
        <3> QED BY <1>2, <2>8, <3>1
    <2>10. IsFiniteSet(OpenTransfers) /\ IsFiniteSet(Warehouse)
        BY TransfersFinite, SitesOK
    <2> HIDE DEF p, r, h, g
    <2>11. Total(OpenTransfers \cup {t}, r) = Total(OpenTransfers, p) + r[t]
        <3> DEFINE T == OpenTransfers
        <3>1. IsFiniteSet(T) /\ t \notin T /\ r[t] \in Nat
            BY <2>2, <2>7, <2>10
        <3>2. \A u \in T : p[u] \in Nat /\ r[u] = p[u]
            BY <2>7
        <3>3. Total(T \cup {t}, r) = Total(T, p) + r[t]
            <4> HIDE DEF T
            <4> QED BY <3>1, <3>2, TotalAdd
        <3> QED BY <3>3
    <2>12. NetTotal(Warehouse, g) = NetTotal(Warehouse, h) + g[source] - h[source]
        BY <2>8, <2>9, <2>10, NetTotalChange
    <2>13. NetTotal(Warehouse, h) \in Int /\ Total(OpenTransfers, p) \in Nat
        BY <2>7, <2>9, <2>10, NetTotalType, TotalType
    <2> QED BY <1>2, <2>2, <2>4, <2>5, <2>6, <2>7, <2>8, <2>9, <2>11, <2>12, <2>13
<1> QED BY <1>1, <1>6, <1>7, <1>8, <1>9, <1>10 DEF TransfersInv

LEMMA ReceiveTransfers ==
    ASSUME FloorInv, TransfersInv, NEW t \in Transfer, NEW q \in 0 .. MaxMove, ReceiveTransfer(t, q),
           NEW source, source = transfer[t].source,
           NEW destination, destination = transfer[t].destination
    PROVE  TransfersInv'
<1> DEFINE order == transfer[t]
           units == UnitsOf(t, q)
           o == [source |-> source, destination |-> destination, quantity |-> order.quantity,
                 status |-> "received", received |-> units, drawn |-> order.drawn]
<1>1. /\ t \in Started /\ order.status = "shipped" /\ opening' = opening
    BY DEF ReceiveTransfer
<1>2. /\ order \in Order /\ source # destination /\ transfer' = [transfer EXCEPT ![t] = o]
      /\ balance' \in [Place -> Row \cup {NoRow}]
      /\ \A p \in Place \ {source, destination} : balance'[p] = balance[p]
      /\ balance'[source] = Landed(balance[source], order, units)
      /\ balance'[destination] = Stocked(balance[destination], units)
    BY ReceiveChange
<1>3. /\ StartedOK(t) /\ order.quantity \in Nat /\ order.received = 0
      /\ units \in Nat /\ source \in Warehouse /\ destination \in Warehouse
      /\ source \in Place /\ destination \in Place
    BY <1>1, PlacesApart DEF TransfersInv, StartedOK, UnitsOf, Order, WarehouseTransfer
<1>4. /\ o.source = source /\ o.quantity = order.quantity /\ o.received = units
      /\ o.status = "received" /\ o.drawn = order.drawn /\ o \in Order
    BY <1>2, <1>3 DEF Order, WarehouseTransfer
<1> HIDE DEF o, units
<1>5. /\ Started' = Started /\ transfer'[t] = o
      /\ \A u \in Started \ {t} : transfer'[u] = transfer[u]
    BY <1>1, <1>2, <1>4, NoRecordIsNone DEF Started, FloorInv, Shape, Order
<1>6. HasRow(source) =>
          /\ balance[source] \in Row /\ balance'[source] \in Row
          /\ balance'[source].on_hand = balance[source].on_hand
          /\ balance'[source].allocated = balance[source].allocated
          /\ balance'[source].in_transit = Floor(balance[source].in_transit - units)
    <2> SUFFICES ASSUME HasRow(source) PROVE
          /\ balance[source] \in Row /\ balance'[source] \in Row
          /\ balance'[source].on_hand = balance[source].on_hand
          /\ balance'[source].allocated = balance[source].allocated
          /\ balance'[source].in_transit = Floor(balance[source].in_transit - units)
        OBVIOUS
    <2>1. balance[source] \in Row
        BY <1>3 DEF FloorInv, Shape, HasRow
    <2>2. balance'[source] = [balance[source] EXCEPT !.in_transit = Floor(@ - units)]
        BY <1>2 DEF Landed, HasRow
    <2>3. Floor(balance[source].in_transit - units) \in Nat
        BY <1>3, <2>1, FloorNat DEF Row
    <2> QED BY <2>1, <2>2, <2>3 DEF Row
<1>7. /\ balance'[destination] \in Row
      /\ OnHand(destination) \in Int
      /\ balance'[destination].on_hand = OnHand(destination) + units
      /\ balance'[destination].allocated =
             IF HasRow(destination) THEN balance[destination].allocated ELSE 0
      /\ balance'[destination].in_transit =
             IF HasRow(destination) THEN balance[destination].in_transit ELSE 0
    <2>1. HasRow(destination) => balance[destination] \in Row
        BY <1>3 DEF FloorInv, Shape, HasRow
    <2>2. CASE HasRow(destination)
        <3>1. balance'[destination] =
                  [balance[destination] EXCEPT !.on_hand = balance[destination].on_hand + units]
            BY <1>2, <2>2 DEF Stocked, HasRow
        <3> QED BY <1>3, <2>1, <2>2, <3>1 DEF Row, OnHand
    <2>3. CASE ~HasRow(destination)
        <3>1. balance'[destination] = [on_hand |-> units, allocated |-> 0, in_transit |-> 0]
            BY <1>2, <2>3 DEF Stocked, HasRow
        <3> QED BY <1>3, <2>3, <3>1 DEF Row, OnHand
    <2> QED BY <2>2, <2>3
<1>8. /\ \A p \in Place \ {destination} : HasRow(p)' <=> HasRow(p)
      /\ HasRow(destination)'
    <2>1. ASSUME ~HasRow(source) PROVE ~HasRow(source)'
        BY <1>2, <2>1 DEF HasRow, Landed
    <2>2. HasRow(source) => HasRow(source)'
        BY <1>6, RowsOK DEF HasRow
    <2>3. HasRow(destination)'
        BY <1>7, RowsOK DEF HasRow
    <2>4. \A p \in Place \ {source, destination} : HasRow(p)' <=> HasRow(p)
        BY <1>2 DEF HasRow
    <2> QED BY <2>1, <2>2, <2>3, <2>4
<1>9. ASSUME NEW u \in Started' PROVE StartedOK(u)'
    <2>1. CASE u = t
        BY <1>3, <1>4, <1>5, <1>8, <2>1 DEF StartedOK
    <2>2. CASE u # t
        <3>1. StartedOK(u) /\ transfer'[u] = transfer[u] /\ transfer[u].source \in Place
            BY <1>5, <2>2, PlacesApart DEF TransfersInv, StartedOK, Order, WarehouseTransfer
        <3> QED BY <1>8, <3>1 DEF StartedOK
    <2> QED BY <2>1, <2>2
<1>10. ASSUME NEW w \in Warehouse
       PROVE  /\ From(w)' = From(w) /\ (w # source => t \notin From(w))
              /\ IsFiniteSet(From(w))
    BY <1>4, <1>5, TransfersFinite DEF From
<1>11. ASSUME NEW w \in Warehouse, w # source
       PROVE  /\ ShortOf(w)' = ShortOf(w)
              /\ \A u \in From(w) : transfer'[u] = transfer[u]
    <2>1. \A u \in From(w) : transfer'[u] = transfer[u]
        BY <1>5, <1>10, <1>11 DEF From
    <2> QED BY <1>10, <2>1 DEF ShortOf, Short
<1>12. InTransitAt(source)'
    <2> SUFFICES ASSUME HasRow(source)',
                        \A u \in From(source)' :
                            transfer'[u].drawn /\ transfer'[u].received <= transfer'[u].quantity
                 PROVE  balance'[source].in_transit = ShortOf(source)'
        BY <1>2, <1>4, <1>5 DEF InTransitAt
    <2>1. t \in From(source) /\ From(source)' = From(source) /\ IsFiniteSet(From(source))
        BY <1>1, <1>3, <1>10 DEF From
    <2>2. order.drawn /\ units <= order.quantity
        BY <1>4, <1>5, <2>1
    <2>3. HasRow(source)
        BY <1>2, <1>3, <1>8
    <2>4. \A u \in From(source) \ {t} : transfer'[u] = transfer[u]
        BY <1>5 DEF From
    <2>5. balance[source].in_transit = ShortOf(source)
        <3>1. \A u \in From(source) :
                  transfer[u].drawn /\ transfer[u].received <= transfer[u].quantity
            BY <1>3, <2>1, <2>2, <2>4
        <3> QED BY <1>3, <2>3, <3>1 DEF TransfersInv, InTransitAt
    <2> DEFINE p == [u \in From(source) |-> Short(u)]
               r == [u \in From(source) |-> Short(u)']
    <2>6. p[t] = order.quantity /\ r[t] = order.quantity - units
        BY <1>3, <1>4, <1>5, <2>1 DEF Short
    <2>7. \A u \in From(source) \ {t} : p[u] = r[u]
        BY <2>4 DEF Short
    <2>8. \A u \in From(source) : p[u] \in Nat /\ r[u] \in Nat
        <3>1. ASSUME NEW u \in From(source) \ {t} PROVE p[u] \in Nat
            <4>1. StartedOK(u) /\ transfer[u].received <= transfer[u].quantity
                BY <2>1, <2>4 DEF TransfersInv, From
            <4> QED BY <4>1 DEF StartedOK, Short
        <3>2. p[t] \in Nat /\ r[t] \in Nat
            BY <1>3, <2>2, <2>6
        <3> HIDE DEF p, r
        <3> QED BY <2>7, <3>1, <3>2
    <2>9. ShortOf(source) = Total(From(source), p)
        BY DEF ShortOf
    <2>10. ShortOf(source)' = Total(From(source), r)
        BY <1>2, <1>4, <1>5, <2>1 DEF ShortOf
    <2> HIDE DEF p, r
    <2>11. Total(From(source), r) = Total(From(source), p) + r[t] - p[t]
        <3>1. t \in From(source) /\ IsFiniteSet(From(source))
            BY <2>1
        <3> QED BY <2>7, <2>8, <3>1, TotalChange
    <2>12. Total(From(source), p) \in Nat /\ Total(From(source), r) \in Nat
        BY <2>1, <2>8, TotalType
    <2>13. balance[source].in_transit - units = Total(From(source), r)
        BY <1>3, <2>5, <2>6, <2>9, <2>11, <2>12
    <2>14. balance'[source].in_transit = Floor(Total(From(source), r))
        BY <1>6, <2>3, <2>13
    <2> QED BY <2>10, <2>12, <2>14 DEF Floor
<1>13. InTransitAt(destination)'
    <2> SUFFICES ASSUME \A u \in From(destination) :
                            transfer[u].drawn /\ transfer[u].received <= transfer[u].quantity
                 PROVE  balance'[destination].in_transit = ShortOf(destination)
        BY <1>2, <1>3, <1>4, <1>5, <1>10, <1>11 DEF InTransitAt
    <2>1. CASE HasRow(destination)
        BY <1>3, <1>7, <2>1 DEF TransfersInv, InTransitAt
    <2>2. CASE ~HasRow(destination)
        <3>1. From(destination) = {}
            BY <2>2 DEF TransfersInv, StartedOK, From
        <3>2. ShortOf(destination) = 0
            BY <3>1, TotalEmpty DEF ShortOf
        <3> QED BY <1>7, <2>2, <3>2
    <2> QED BY <2>1, <2>2
<1>14. ASSUME NEW w \in Warehouse PROVE InTransitAt(w)'
    <2>1. CASE w \notin {source, destination}
        <3>1. balance'[w] = balance[w] /\ (HasRow(w)' <=> HasRow(w))
            BY <1>2, <1>8, <2>1, PlacesApart
        <3>2. InTransitAt(w)
            BY DEF TransfersInv
        <3> QED BY <1>10, <1>11, <2>1, <3>1, <3>2 DEF InTransitAt
    <2>2. CASE w = source
        BY <1>12, <2>2 DEF InTransitAt, HasRow, From, Started, ShortOf, Short
    <2>3. CASE w = destination
        BY <1>13, <2>3 DEF InTransitAt, HasRow, From, Started, ShortOf, Short
    <2> QED BY <2>1, <2>2, <2>3
<1>15. ASSUME NEW w \in Warehouse PROVE SparesHeld(w)'
    <2>1. w # destination => RowsOf(w)' = RowsOf(w) /\ (HasRow(w)' <=> HasRow(w))
        BY <1>3, <1>8, PlacesApart DEF RowsOf
    <2>2. CASE w \notin {source, destination}
        BY <1>2, <2>1, <2>2, PlacesApart DEF TransfersInv, SparesHeld
    <2>3. CASE w = source
        BY <1>2, <1>6, <2>1, <2>3 DEF TransfersInv, SparesHeld
    <2>4. CASE w = destination
        <3>1. CASE HasRow(w)
            <4>1. RowsOf(w)' = RowsOf(w)
                BY <1>3, <1>8, <2>4, <3>1, PlacesApart DEF RowsOf
            <4>2. balance[w].allocated \in Nat /\ OnHand(w) = balance[w].on_hand
                BY <3>1, OnHandInt DEF OnHand, Row
            <4>3. RowsOf(w) = {w} => balance[w].on_hand >= balance[w].allocated
                BY <3>1 DEF TransfersInv, SparesHeld
            <4> QED BY <1>3, <1>7, <2>4, <3>1, <4>1, <4>2, <4>3 DEF SparesHeld
        <3>2. CASE ~HasRow(w)
            BY <1>3, <1>7, <2>4, <3>2 DEF SparesHeld, OnHand
        <3> QED BY <3>1, <3>2
    <2> QED BY <2>2, <2>3, <2>4
<1>16. ASSUME \A u \in Started' : Exact(u)' PROVE RootStock' + OpenStock' = opening
    <2>1. OpenTransfers' = OpenTransfers \ {t} /\ t \in OpenTransfers
        BY <1>1, <1>4, <1>5 DEF OpenTransfers
    <2>2. order.drawn /\ units = order.quantity
        BY <1>1, <1>4, <1>5, <1>16, <2>1 DEF Exact
    <2>3. \A u \in Started : Exact(u)
        BY <1>5, <1>16, <2>1, <2>2 DEF Exact
    <2>4. RootStock + OpenStock = opening
        BY <2>3 DEF TransfersInv
    <2> DEFINE p == [u \in OpenTransfers |-> transfer[u].quantity]
               r == [u \in OpenTransfers' |-> transfer'[u].quantity]
               h == [w \in Warehouse |-> OnHand(w)]
               g == [w \in Warehouse |-> OnHand(w)']
    <2>5. OpenStock = Total(OpenTransfers, p) /\ OpenStock' = Total(OpenTransfers', r)
        BY DEF OpenStock
    <2>6. RootStock = NetTotal(Warehouse, h) /\ RootStock' = NetTotal(Warehouse, g)
        BY DEF RootStock
    <2>7. /\ p[t] = order.quantity /\ \A u \in OpenTransfers : p[u] \in Nat
          /\ \A u \in OpenTransfers \ {t} : r[u] = p[u]
        BY <1>5, <2>1 DEF TransfersInv, StartedOK, OpenTransfers
    <2>8. /\ g[destination] = h[destination] + units
          /\ \A w \in Warehouse \ {destination} : h[w] = g[w]
        <3>1. \A w \in Warehouse \ {source, destination} : h[w] = g[w]
            BY <1>2, <1>8, PlacesApart DEF OnHand
        <3>2. h[source] = g[source]
            BY <1>2, <1>3, <1>6, <1>8 DEF OnHand, HasRow
        <3>3. g[destination] = h[destination] + units
            BY <1>3, <1>7, <1>8 DEF OnHand, HasRow
        <3> HIDE DEF h, g
        <3> QED BY <3>1, <3>2, <3>3
    <2>9. \A w \in Warehouse : h[w] \in Int /\ g[w] \in Int
        <3>1. \A w \in Warehouse : h[w] \in Int
            BY OnHandInt
        <3> HIDE DEF h, g
        <3> QED BY <1>3, <2>8, <3>1
    <2>10. IsFiniteSet(OpenTransfers) /\ IsFiniteSet(Warehouse)
        BY TransfersFinite, SitesOK
    <2> HIDE DEF p, r, h, g
    <2>11. Total(OpenTransfers \ {t}, r) = Total(OpenTransfers, p) - p[t]
        <3>1. t \in OpenTransfers /\ IsFiniteSet(OpenTransfers)
            BY <2>1, <2>10
        <3>2. \A u \in OpenTransfers : p[u] \in Nat
            BY <2>7
        <3>3. \A u \in OpenTransfers \ {t} : r[u] = p[u]
            BY <2>7
        <3> QED BY <3>1, <3>2, <3>3, TotalRemove, Zenon
    <2>12. NetTotal(Warehouse, g) = NetTotal(Warehouse, h) + g[destination] - h[destination]
        BY <1>3, <2>8, <2>9, <2>10, NetTotalChange
    <2>13. NetTotal(Warehouse, h) \in Int /\ Total(OpenTransfers, p) \in Nat
        BY <2>7, <2>9, <2>10, NetTotalType, TotalType
    <2>14. h[destination] \in Int
        BY <1>3, <2>9
    <2> QED BY <1>3, <2>1, <2>2, <2>4, <2>5, <2>6, <2>7, <2>8, <2>11, <2>12, <2>13, <2>14
<1>17. IsFiniteSet(Started')
    BY <1>5 DEF TransfersInv
<1> QED BY <1>1, <1>9, <1>14, <1>15, <1>16, <1>17 DEF TransfersInv

-----------------------------------------------------------------------------
LEMMA ShipTransfers ==
    ASSUME FloorInv, TransfersInv, NEW t \in Transfer, ShipTransfer(t)
    PROVE  TransfersInv'
<1> DEFINE o == [transfer[t] EXCEPT !.status = "shipped"]
<1>1. /\ t \in Started /\ transfer[t].status = "pending" /\ transfer[t] \in Order
      /\ transfer' = [transfer EXCEPT ![t] = o] /\ UNCHANGED <<balance, opening>>
    BY DEF ShipTransfer, Started, FloorInv, Shape
<1>2. /\ o \in Order /\ o.status = "shipped" /\ o.source = transfer[t].source
      /\ o.quantity = transfer[t].quantity /\ o.received = transfer[t].received
      /\ o.drawn = transfer[t].drawn
    BY <1>1 DEF Order, WarehouseTransfer
<1> HIDE DEF o
<1>3. /\ Started' = Started /\ transfer'[t] = o
      /\ \A u \in Started \ {t} : transfer'[u] = transfer[u]
    BY <1>1, <1>2, NoRecordIsNone DEF Started, FloorInv, Shape, Order
<1>4. \A u \in Started :
          /\ transfer'[u].source = transfer[u].source /\ transfer'[u].drawn = transfer[u].drawn
          /\ transfer'[u].quantity = transfer[u].quantity
          /\ transfer'[u].received = transfer[u].received
          /\ transfer'[u].status = "received" <=> transfer[u].status = "received"
    BY <1>1, <1>2, <1>3
<1>5. OpenTransfers' = OpenTransfers /\ OpenStock' = OpenStock
    <2>1. OpenTransfers' = OpenTransfers
        BY <1>3, <1>4 DEF OpenTransfers
    <2>2. \A u \in OpenTransfers : transfer'[u].quantity = transfer[u].quantity
        BY <1>4 DEF OpenTransfers
    <2> QED BY <2>1, <2>2 DEF OpenStock
<1>6. \A u \in Started : StartedOK(u)'
    <2>1. \A u \in Started : transfer'[u] \in Order
        BY <1>2, <1>3 DEF TransfersInv, StartedOK
    <2> QED BY <1>1, <1>4, <2>1 DEF TransfersInv, StartedOK, HasRow
<1>7. ASSUME NEW w \in Warehouse PROVE InTransitAt(w)' /\ SparesHeld(w)'
    <2>1. From(w)' = From(w)
        BY <1>3, <1>4 DEF From
    <2>2. \A u \in From(w) : u \in Started
        BY DEF From
    <2>3. ShortOf(w)' = ShortOf(w)
        BY <1>4, <2>1, <2>2 DEF ShortOf, Short
    <2>4. SparesHeld(w)'
        BY <1>1 DEF TransfersInv, SparesHeld, RowsOf, HasRow
    <2> QED BY <1>1, <1>4, <2>1, <2>2, <2>3, <2>4 DEF TransfersInv, InTransitAt, HasRow
<1>8. RootStock' = RootStock
    BY <1>1 DEF RootStock, OnHand, HasRow
<1>9. \A u \in Started : Exact(u)' <=> Exact(u)
    BY <1>4, <1>5 DEF Exact
<1> QED BY <1>1, <1>3, <1>5, <1>6, <1>7, <1>8, <1>9 DEF TransfersInv

LEMMA TransfersNext ==
    ASSUME FloorInv, TransfersInv, [FloorNext]_floorVars
    PROVE  TransfersInv'
<1>1. ASSUME UNCHANGED <<balance, transfer, opening>> PROVE TransfersInv'
    BY <1>1, RootsKept DEF RootsUntouched, RowsStay, HasRow
<1>2. ASSUME NEW t \in Transfer, NEW source \in Warehouse, NEW destination \in Warehouse,
             NEW q \in 1 .. MaxMove, InitiateTransfer(t, source, destination, q)
      PROVE  TransfersInv'
    BY <1>2, InitiateTransfers
<1>3. ASSUME NEW t \in Transfer, ShipTransfer(t)
      PROVE  TransfersInv'
    BY <1>3, ShipTransfers
<1>4. ASSUME NEW t \in Transfer, NEW q \in 0 .. MaxMove, ReceiveTransfer(t, q)
      PROVE  TransfersInv'
    BY <1>4, ReceiveTransfers
<1>5. ASSUME NEW wave \in SUBSET Pick, NEW at \in [wave -> Location],
             NEW q \in [wave -> 1 .. MaxMove], CreatePickWave(wave, at, q)
      PROVE  TransfersInv'
    BY <1>1, <1>5 DEF CreatePickWave
<1>6. ASSUME NEW k \in Pick, CompletePick(k)
      PROVE  TransfersInv'
    BY <1>6, CompletePickInv, RootsKept DEF RootsUntouched, CompletePick
<1>7. ASSUME NEW l \in Location, NEW units \in -MaxMove .. MaxMove, Misplace(l, units)
      PROVE  TransfersInv'
    BY <1>1, <1>7 DEF Misplace
<1>8. ASSUME NEW w \in Warehouse, NEW locations \in SUBSET Location, ScheduleCount(w, locations)
      PROVE  TransfersInv'
    BY <1>1, <1>8 DEF ScheduleCount
<1>9. ASSUME NEW l \in Location, RecordCount(l)
      PROVE  TransfersInv'
    BY <1>1, <1>9 DEF RecordCount
<1>10. ASSUME count # NoRecord, Apply, UNCHANGED <<transfer, shelf, moved, opening>>
       PROVE  TransfersInv'
    BY <1>10, ApplyKeeps, RootsKept DEF RootsUntouched
<1>11. ASSUME NEW auto_adjust \in BOOLEAN, CompleteSession(auto_adjust)
       PROVE  TransfersInv'
    BY <1>1, <1>10, <1>11 DEF CompleteSession
<1>12. CASE ApplyAdjustments
    BY <1>10, <1>12 DEF ApplyAdjustments
<1>13. CASE UNCHANGED floorVars
    BY <1>1, <1>13 DEF floorVars
<1> QED BY <1>2, <1>3, <1>4, <1>5, <1>6, <1>7, <1>8, <1>9, <1>11, <1>12, <1>13 DEF FloorNext

LEMMA FloorStarts ==
    ASSUME FloorInit
    PROVE  FloorInv
<1>1. /\ balance \in InitialRows /\ transfer = [t \in Transfer |-> NoRecord]
      /\ pick = [k \in Pick |-> NoRecord] /\ count = NoRecord
      /\ shelf = [l \in Location |-> IF HasRow(l) THEN balance[l].on_hand ELSE 0]
      /\ moved = [l \in Location |-> "no"]
    BY DEF FloorInit
<1>2. /\ balance \in [Place -> Row \cup {NoRow}]
      /\ \A l \in Location : HasRow(l) => balance[l] \in Row /\ balance[l].on_hand >= 0
    BY <1>1, RowsOK, PlacesApart DEF HasRow
<1>3. shelf \in [Location -> Nat]
    <2>1. \A l \in Location : HasRow(l) => balance[l].on_hand \in Nat
        BY <1>2 DEF Row
    <2> QED BY <1>1, <2>1
<1>4. Shape
    BY <1>1, <1>2, <1>3 DEF Shape
<1>5. PicksInv
    <2>1. \A l \in Location : HasRow(l) => ~(balance[l].on_hand < 0)
        BY <1>2 DEF Row
    <2> QED BY <1>1, <2>1 DEF PicksInv, IsOpen
<1> QED BY <1>1, <1>4, <1>5 DEF FloorInv, CountInv

LEMMA TransfersInit ==
    ASSUME FloorInit
    PROVE  TransfersInv
<1>1. /\ balance \in InitialRows /\ transfer = [t \in Transfer |-> NoRecord] /\ opening = RootStock
    BY DEF FloorInit
<1>2. Started = {} /\ OpenTransfers = {} /\ \A w : From(w) = {}
    BY <1>1 DEF Started, OpenTransfers, From
<1>3. IsFiniteSet(Started)
    BY <1>2, FS_EmptySet
<1>4. ASSUME NEW w \in Warehouse PROVE InTransitAt(w) /\ SparesHeld(w)
    <2>1. ShortOf(w) = 0
        BY <1>2, TotalEmpty DEF ShortOf
    <2>2. HasRow(w) =>
              /\ balance[w].in_transit = 0
              /\ \/ balance[w].on_hand >= balance[w].allocated
                 \/ \E l \in Location : SiteOf[l] = w /\ HasRow(l)
        BY <1>1, RowsOK DEF HasRow
    <2>3. \A l \in Location : SiteOf[l] = w /\ HasRow(l) => l \in RowsOf(w) /\ l # w
        BY PlacesApart DEF RowsOf
    <2> QED BY <2>1, <2>2, <2>3 DEF InTransitAt, SparesHeld
<1>5. RootStock + OpenStock = opening
    <2>1. OpenStock = 0
        BY <1>2, TotalEmpty DEF OpenStock
    <2>2. \A w \in Warehouse : OnHand(w) \in Int
        BY FloorStarts, OnHandInt
    <2>3. RootStock \in Int
        BY <2>2, SitesOK, NetTotalType DEF RootStock
    <2> QED BY <1>1, <2>1, <2>3
<1> QED BY <1>2, <1>3, <1>4, <1>5 DEF TransfersInv

LEMMA FloorMoves ==
    ASSUME FloorInv, [FloorNext]_floorVars
    PROVE  FloorInv'
<1>1. ASSUME NEW t \in Transfer, NEW source \in Warehouse, NEW destination \in Warehouse,
             NEW q \in 1 .. MaxMove, InitiateTransfer(t, source, destination, q)
      PROVE  FloorInv'
    BY <1>1, InitiateInv
<1>2. ASSUME NEW t \in Transfer, ShipTransfer(t)
      PROVE  FloorInv'
    BY <1>2, ShipInv
<1>3. ASSUME NEW t \in Transfer, NEW q \in 0 .. MaxMove, ReceiveTransfer(t, q)
      PROVE  FloorInv'
    BY <1>3, ReceiveInv
<1>4. ASSUME NEW wave \in SUBSET Pick, NEW at \in [wave -> Location],
             NEW q \in [wave -> 1 .. MaxMove], CreatePickWave(wave, at, q)
      PROVE  FloorInv'
    BY <1>4, WaveInv
<1>5. ASSUME NEW k \in Pick, CompletePick(k)
      PROVE  FloorInv'
    BY <1>5, CompletePickInv
<1>6. ASSUME NEW l \in Location, NEW units \in -MaxMove .. MaxMove, Misplace(l, units)
      PROVE  FloorInv'
    BY <1>6, MisplaceInv
<1>7. ASSUME NEW w \in Warehouse, NEW locations \in SUBSET Location, ScheduleCount(w, locations)
      PROVE  FloorInv'
    BY <1>7, ScheduleInv
<1>8. ASSUME NEW l \in Location, RecordCount(l)
      PROVE  FloorInv'
    BY <1>8, RecordInv
<1>9. ASSUME NEW auto_adjust \in BOOLEAN, CompleteSession(auto_adjust)
      PROVE  FloorInv'
    BY <1>9, CompleteSessionInv
<1>10. CASE ApplyAdjustments
    BY <1>10, ApplyAdjustmentsInv
<1>11. CASE UNCHANGED floorVars
    <2>1. UNCHANGED <<balance, transfer, pick, count, shelf, moved>>
        BY <1>11 DEF floorVars
    <2>2. PicksInv' /\ CountInv'
        BY <2>1, LocationsKept
    <2> QED BY <2>1, <2>2 DEF FloorInv, Shape
<1> QED BY <1>1, <1>2, <1>3, <1>4, <1>5, <1>6, <1>7, <1>8, <1>9, <1>10, <1>11 DEF FloorNext

(* What book, shelf, pick tasks and count session keep to, whatever calls    *)
(* interleave on the floor.                                                  *)
THEOREM FloorInvariant == FloorSpec => []FloorInv
<1>1. FloorInit => FloorInv
    BY FloorStarts
<1>2. FloorInv /\ [FloorNext]_floorVars => FloorInv'
    BY FloorMoves
<1> QED BY <1>1, <1>2, PTL DEF FloorSpec

(* A settled count leaves the book at what lies on the shelf, whatever picks *)
(* and reviews came between counting and settling, but for the exceptions    *)
(* that CountSettlesBook names.                                              *)
THEOREM CountsSettle == FloorSpec => []CountSettlesBook
<1>1. FloorInv => CountSettlesBook
    BY DEF FloorInv, CountInv, LineOK, CountSettlesBook
<1> QED BY <1>1, FloorInvariant, PTL

(* complete_pick subtracts unconditionally, yet the book of a location falls *)
(* below zero only where picks shared stock or a task was completed twice.   *)
THEOREM NegativesExplained == FloorSpec => []NegativeNeedsSharing
<1>1. FloorInv => NegativeNeedsSharing
    BY DEF FloorInv, PicksInv, Excuses, NegativeNeedsSharing, Tasks
<1> QED BY <1>1, FloorInvariant, PTL

(* Transfers and root rows, whatever picks and counts come in between.       *)
THEOREM TransfersInvariant == FloorSpec => []TransfersInv
<1>1. FloorInit => TransfersInv
    BY TransfersInit
<1>2. FloorInv /\ TransfersInv /\ [FloorNext]_floorVars => TransfersInv'
    BY TransfersNext
<1> QED BY <1>1, <1>2, FloorInvariant, PTL DEF FloorSpec

(* A root row has in transit what left it and has not arrived, short         *)
(* receipts included, unless a transfer drew on no row or over-delivered.    *)
THEOREM InTransitStaysOpen == FloorSpec => []InTransitIsOpen
<1>1. TransfersInv => InTransitIsOpen
    BY DEF TransfersInv, InTransitAt, ShortOf, Short, InTransitIsOpen
<1> QED BY <1>1, TransfersInvariant, PTL

(* Transfers lose no stock and make none, however their steps interleave     *)
(* with each other and with picks and counts.                                *)
THEOREM TransfersConserveStock == FloorSpec => []StockIsConserved
<1>1. TransfersInv => StockIsConserved
    BY DEF TransfersInv, Exact, OpenStock, StockIsConserved
<1> QED BY <1>1, TransfersInvariant, PTL

(* Where a root row stands alone, no transfer takes what is held for orders. *)
THEOREM HeldStockIsSpared == FloorSpec => []TransfersSpareHeldStock
<1>1. TransfersInv => TransfersSpareHeldStock
    BY DEF TransfersInv, SparesHeld, TransfersSpareHeldStock
<1> QED BY <1>1, TransfersInvariant, PTL

-----------------------------------------------------------------------------
(* Replenishment.                                                          *)
Policy == [safety : Nat, reorder : Nat]

(* A calculation read its policies once and was sure of the demand. *)
JobOK(j) ==
    /\ DOMAIN j.new \subseteq Sku
    /\ \A k \in DOMAIN j.new : \E d \in Demand : j.new[k] = PolicyFor(d)
    /\ \A k \in Sku : j.old[k] # None => j.old[k] \in Policy

(* A policy is never deleted: one that was there when a session read is      *)
(* there when it writes.                                                     *)
NoneIsOlder(j) == \A k \in Sku : j.old[k] # None => policy[k] # None

PolicyInv ==
    /\ demand \in [Sku -> Demand]
    /\ policy = [k \in Sku |-> policy[k]]
    /\ \A k \in Sku : policy[k] # None => policy[k] \in Policy
    /\ job = [s \in Session |-> job[s]]
    /\ \A s \in Session : job[s] # None => JobOK(job[s]) /\ NoneIsOlder(job[s])
    /\ MixedPolicyNeedsRace

LEMMA PolicyForType == \A d \in Demand : PolicyFor(d) \in Policy
BY DemandOK DEF PolicyFor, Policy

LEMMA InitPolicies == Init => PolicyInv
<1> SUFFICES ASSUME Init PROVE PolicyInv
    OBVIOUS
<1>1. \A k \in Sku : policy[k] \in {None} \cup {PolicyFor(d) : d \in Demand}
    BY InitialOK DEF Init
<1>2. \A k \in Sku : policy[k] # None => policy[k] \in Policy
    BY <1>1, PolicyForType
<1> QED BY <1>1, <1>2 DEF Init, PolicyInv, MixedPolicyNeedsRace

LEMMA BeginInv ==
    ASSUME PolicyInv, NEW s \in Session, NEW touched \in SUBSET Sku, NEW bought,
           Begin(s, touched, bought)
    PROVE  PolicyInv'
<1> DEFINE j == [old   |-> policy,
                 new   |-> [k \in touched |-> PolicyFor(demand[k])],
                 buy   |-> [k \in bought |-> OrderQty(PolicyFor(demand[k]), available[k])],
                 seen  |-> Len(orders),
                 flow  |-> flow,
                 open  |-> {k \in bought : Outstanding(k) > 0}]
<1>1. job' = [job EXCEPT ![s] = j] /\ UNCHANGED <<policy, demand, clash>>
    BY DEF Begin
<1>2. j.old = policy /\ j.new = [k \in touched |-> PolicyFor(demand[k])]
    OBVIOUS
<1> HIDE DEF j
<1>3. JobOK(j) /\ NoneIsOlder(j)
    BY <1>2 DEF JobOK, NoneIsOlder, PolicyInv
<1>4. /\ job' = [t \in Session |-> job'[t]]
      /\ \A t \in Session : job'[t] = IF t = s THEN j ELSE job[t]
    BY <1>1 DEF PolicyInv
<1>5. \A t \in Session : job'[t] # None => JobOK(job[t])' /\ NoneIsOlder(job[t])'
    <2> SUFFICES ASSUME NEW t \in Session, job'[t] # None
                 PROVE  JobOK(job[t])' /\ NoneIsOlder(job[t])'
        OBVIOUS
    <2>1. JobOK(job'[t]) /\ NoneIsOlder(job'[t])
        BY <1>3, <1>4 DEF PolicyInv
    <2> QED BY <1>1, <2>1 DEF JobOK, NoneIsOlder, PolicyFor
<1> QED BY <1>1, <1>4, <1>5 DEF PolicyInv, MixedPolicyNeedsRace, PolicyFor

(* What is written to a policy nobody has changed since is one calculation. *)
LEMMA MergedIsOne ==
    ASSUME NEW db, NEW old, NEW new \in Policy, old # None => old \in Policy,
           db # None => db \in Policy, old = None => db = None, old # None => db # None
    PROVE  /\ Merged(db, old, new) \in Policy
           /\ old = db => Merged(db, old, new) = new
           /\ old = new => Merged(db, old, new) = db
<1>1. CASE old = None
    BY <1>1 DEF Merged
<1>2. CASE old # None
    <2>1. db \in Policy /\ old \in Policy
        BY <1>2
    <2>2. DOMAIN new = {"safety", "reorder"}
        BY DEF Policy
    <2>3. Merged(db, old, new) = [c \in {"safety", "reorder"} |->
                                     IF new[c] = old[c] THEN db[c] ELSE new[c]]
        BY <1>2, <2>2 DEF Merged
    <2>4. Merged(db, old, new) =
              [safety |-> IF new.safety = old.safety THEN db.safety ELSE new.safety,
               reorder |-> IF new.reorder = old.reorder THEN db.reorder ELSE new.reorder]
        BY <2>3
    <2>5. Merged(db, old, new) \in Policy
        BY <2>1, <2>4 DEF Policy
    <2>6. ASSUME old = db PROVE Merged(db, old, new) = new
        <3>1. Merged(db, old, new) = [safety |-> new.safety, reorder |-> new.reorder]
            BY <2>4, <2>6
        <3> QED BY <3>1 DEF Policy
    <2>7. ASSUME old = new PROVE Merged(db, old, new) = db
        <3>1. Merged(db, old, new) = [safety |-> db.safety, reorder |-> db.reorder]
            BY <2>4, <2>7
        <3> QED BY <2>1, <3>1 DEF Policy
    <2> QED BY <2>5, <2>6, <2>7
<1> QED BY <1>1, <1>2

LEMMA CommitInv ==
    ASSUME PolicyInv, NEW s \in Session, Commit(s)
    PROVE  PolicyInv'
<1> DEFINE j == job[s]
<1>1. /\ JobOK(j) /\ NoneIsOlder(j)
      /\ \A k \in DOMAIN j.new : j.old[k] = None => policy[k] = None
    BY DEF Commit, InsertsTwice, PolicyInv
<1>2. /\ policy' = [k \in Sku |->
            IF k \in DOMAIN j.new
            THEN Merged(policy[k], j.old[k], Persisted(j.old[k], j.new[k])) ELSE policy[k]]
      /\ job' = [job EXCEPT ![s] = None] /\ demand' = demand
      /\ clash' = clash \cup {k \in DOMAIN j.new : j.old[k] # j.new[k] /\ j.old[k] # policy[k]}
    BY DEF Commit
<1> HIDE DEF j
<1>3. ASSUME NEW k \in DOMAIN j.new
      PROVE  /\ k \in Sku /\ policy'[k] = Merged(policy[k], j.old[k], j.new[k])
             /\ policy'[k] \in Policy
             /\ j.old[k] = policy[k] => policy'[k] = j.new[k]
             /\ j.old[k] = j.new[k] => policy'[k] = policy[k]
    <2>1. k \in Sku /\ j.new[k] \in Policy
        BY <1>1, PolicyForType DEF JobOK
    <2>2. policy'[k] = Merged(policy[k], j.old[k], j.new[k])
        BY <1>2, <2>1 DEF Persisted
    <2>3. /\ j.old[k] # None => j.old[k] \in Policy /\ policy[k] # None
          /\ j.old[k] = None => policy[k] = None
          /\ policy[k] # None => policy[k] \in Policy
        BY <1>1, <2>1 DEF JobOK, NoneIsOlder, PolicyInv
    <2> QED BY <2>1, <2>2, <2>3, MergedIsOne
<1>4. /\ policy' = [k \in Sku |-> policy'[k]]
      /\ \A k \in Sku \ DOMAIN j.new : policy'[k] = policy[k]
    BY <1>2
<1>5. \A k \in Sku : policy'[k] # None => policy'[k] \in Policy
    BY <1>3, <1>4 DEF PolicyInv
<1>6. \A k \in Sku : policy[k] # None => policy'[k] # None \/ None \in Policy
    BY <1>3, <1>4
<1>7. None \notin Policy
    BY NoneIsNoPolicy DEF Policy
<1>8. /\ job' = [t \in Session |-> job'[t]]
      /\ \A t \in Session : job'[t] = IF t = s THEN None ELSE job[t]
    BY <1>2 DEF PolicyInv
<1>9. \A t \in Session : job'[t] # None => JobOK(job[t])' /\ NoneIsOlder(job[t])'
    BY <1>2, <1>6, <1>7, <1>8 DEF PolicyInv, JobOK, NoneIsOlder, PolicyFor
<1>10. MixedPolicyNeedsRace'
    <2> SUFFICES ASSUME NEW k \in Sku, k \notin clash', policy'[k] # None
                 PROVE  \E d \in Demand : policy'[k] = PolicyFor(d)
        BY DEF MixedPolicyNeedsRace, PolicyFor
    <2>1. policy[k] = None \/ \E d \in Demand : policy[k] = PolicyFor(d)
        BY <1>2 DEF PolicyInv, MixedPolicyNeedsRace
    <2>2. CASE k \notin DOMAIN j.new
        BY <1>4, <2>1, <2>2
    <2>3. CASE k \in DOMAIN j.new
        <3>1. j.old[k] = j.new[k] \/ j.old[k] = policy[k]
            BY <1>2, <2>3
        <3>2. \E d \in Demand : j.new[k] = PolicyFor(d)
            BY <1>1, <2>3 DEF JobOK
        <3>3. policy'[k] = policy[k] \/ policy'[k] = j.new[k]
            BY <1>3, <2>3, <3>1
        <3> QED BY <2>1, <3>2, <3>3
    <2> QED BY <2>2, <2>3
<1> QED BY <1>2, <1>4, <1>5, <1>8, <1>9, <1>10 DEF PolicyInv

LEMMA RollbackInv ==
    ASSUME PolicyInv, NEW s \in Session, Rollback(s)
    PROVE  PolicyInv'
<1>1. job' = [job EXCEPT ![s] = None] /\ UNCHANGED <<policy, demand, clash>>
    BY DEF Rollback
<1>2. /\ job' = [t \in Session |-> job'[t]]
      /\ \A t \in Session : job'[t] = IF t = s THEN None ELSE job[t]
    BY <1>1 DEF PolicyInv
<1>3. \A t \in Session : job'[t] # None => JobOK(job[t])' /\ NoneIsOlder(job[t])'
    BY <1>1, <1>2 DEF PolicyInv, JobOK, NoneIsOlder, PolicyFor
<1>4. MixedPolicyNeedsRace'
    BY <1>1 DEF PolicyInv, MixedPolicyNeedsRace, PolicyFor
<1> QED BY <1>1, <1>2, <1>3, <1>4 DEF PolicyInv

LEMMA OtherInv ==
    ASSUME PolicyInv, UNCHANGED <<policy, job, clash>>, demand' \in [Sku -> Demand]
    PROVE  PolicyInv'
BY DEF PolicyInv, MixedPolicyNeedsRace, JobOK, NoneIsOlder, PolicyFor

(* Every policy is one calculation's, and every calculation under way knows  *)
(* what it read and what one demand asks for.                                *)
THEOREM PolicyInvariant == Spec => []PolicyInv
<1>1. PolicyInv /\ [Next]_vars => PolicyInv'
    <2> SUFFICES ASSUME PolicyInv, [Next]_vars PROVE PolicyInv'
        OBVIOUS
    <2>1. CASE UNCHANGED vars
        BY <2>1, OtherInv DEF vars, PolicyInv
    <2>2. ASSUME NEW s \in Session, GenerateReplenishment(s) PROVE PolicyInv'
        BY <2>2, BeginInv DEF GenerateReplenishment, BelowReorderPoint
    <2>3. ASSUME NEW s \in Session, Commit(s) \/ Rollback(s) PROVE PolicyInv'
        BY <2>3, CommitInv, RollbackInv
    <2>4. ASSUME NEW s \in Session, NEW k \in Sku, Calculate(s, k) PROVE PolicyInv'
        BY <2>4, BeginInv DEF Calculate
    <2>5. ASSUME NEW i \in DOMAIN orders, NEW k \in DOMAIN orders[i],
                 NEW good \in 0 .. MaxQty, NEW damaged \in 0 .. MaxQty,
                 Receive(i, k, good, damaged)
          PROVE  PolicyInv'
        BY <2>5, OtherInv DEF Receive, PolicyInv
    <2>6. ASSUME NEW k \in Sku, NEW units \in {-1, 1}, Consume(k, units) PROVE PolicyInv'
        BY <2>6, OtherInv DEF Consume, PolicyInv
    <2>7. ASSUME NEW k \in Sku, NEW d \in Demand, DemandShifts(k, d) PROVE PolicyInv'
        BY <2>7, OtherInv DEF DemandShifts, PolicyInv
    <2> QED BY <2>1, <2>2, <2>3, <2>4, <2>5, <2>6, <2>7 DEF Next
<1> QED BY InitPolicies, <1>1, PTL DEF Spec

(* Safety stock and reorder point are of one calculation unless calls that    *)
(* calculated them overlapped.                                                *)
THEOREM PoliciesUnmixed == Spec => []MixedPolicyNeedsRace
<1>1. PolicyInv => MixedPolicyNeedsRace
    BY DEF PolicyInv
<1> QED BY PolicyInvariant, <1>1, PTL
-----------------------------------------------------------------------------
(* What a SKU has, is still to get and has lost: only an order changes it.   *)
Worth(k) == available[k] + Outstanding(k) + flow[k]

Line == [ordered : Nat, received : Nat]
PurchaseOrder == UNION {[S -> Line] : S \in SUBSET Sku}

SupplyShape ==
    /\ available \in [Sku -> Int] /\ flow \in [Sku -> Int]
    /\ orders \in Seq(PurchaseOrder)
    /\ goal = [k \in Sku |-> goal[k]]
    /\ job = [s \in Session |-> job[s]]

Target(j, k) == j.new[k].reorder + j.new[k].safety
Most(j, k) == Largest(Target(j, k), j.old[k].reorder - 1 + j.new[k].safety)
OrderedSince(j, k) == \E i \in j.seen + 1 .. Len(orders) : k \in DOMAIN orders[i]

(* A call that will order k: what k was worth when the call read is not lost *)
(* since, and is still the same unless another call ordered k.               *)
PromiseOK(j, k) ==
    /\ j.buy[k] \in Nat /\ j.flow[k] \in Int
    /\ j.old[k] \in Policy /\ j.new[k] \in Policy
    /\ Worth(k) + j.buy[k] >= Target(j, k) + j.flow[k]
    /\ \/ k \in j.open \/ OrderedSince(j, k)
       \/ Worth(k) + j.buy[k] <= Most(j, k) + j.flow[k]
PromisesOK(j) ==
    /\ j.seen \in 0 .. Len(orders)
    /\ j.buy = [k \in DOMAIN j.buy |-> j.buy[k]] /\ DOMAIN j.buy \subseteq DOMAIN j.new
    /\ DOMAIN j.buy \subseteq Sku
    /\ \A k \in DOMAIN j.buy : PromiseOK(j, k)

GoalOK(k) ==
    /\ goal[k].target \in Int /\ goal[k].most \in Int /\ goal[k].flow \in Int
    /\ Worth(k) >= goal[k].target + goal[k].flow
    /\ goal[k].again \/ Worth(k) <= goal[k].most + goal[k].flow

SupplyInv ==
    /\ SupplyShape
    /\ \A s \in Session : job[s] # None => PromisesOK(job[s])
    /\ \A k \in Sku : goal[k] # None => GoalOK(k)

LEMMA OrderShape ==
    ASSUME NEW o
    PROVE  o \in PurchaseOrder <=>
              /\ DOMAIN o \subseteq Sku /\ o = [k \in DOMAIN o |-> o[k]]
              /\ \A k \in DOMAIN o : o[k] \in Line
<1>1. ASSUME o \in PurchaseOrder
      PROVE  /\ DOMAIN o \subseteq Sku /\ o = [k \in DOMAIN o |-> o[k]]
             /\ \A k \in DOMAIN o : o[k] \in Line
    <2>1. PICK S \in SUBSET Sku : o \in [S -> Line]
        BY <1>1 DEF PurchaseOrder
    <2> QED BY <2>1
<1>2. ASSUME DOMAIN o \subseteq Sku, o = [k \in DOMAIN o |-> o[k]],
             \A k \in DOMAIN o : o[k] \in Line
      PROVE  o \in PurchaseOrder
    <2>1. o \in [DOMAIN o -> Line]
        BY <1>2
    <2> QED BY <1>2, <2>1 DEF PurchaseOrder
<1> QED BY <1>1, <1>2

LEMMA OpenUnitsType ==
    ASSUME NEW o \in PurchaseOrder, NEW k \in Sku
    PROVE  OpenUnits(o, k) \in Nat
<1>1. \A l \in DOMAIN o : o[l] \in Line
    BY OrderShape
<1> QED BY <1>1 DEF OpenUnits, Floor, Line

(* The list of orders, as a set to total over.                               *)
LEMMA OrdersListed ==
    ASSUME SupplyShape
    PROVE  /\ DOMAIN orders = 1 .. Len(orders) /\ Len(orders) \in Nat
           /\ IsFiniteSet(DOMAIN orders)
           /\ \A i \in DOMAIN orders : orders[i] \in PurchaseOrder
           /\ \A i \in DOMAIN orders, k \in Sku : OpenUnits(orders[i], k) \in Nat
<1>1. DOMAIN orders = 1 .. Len(orders) /\ Len(orders) \in Nat
    BY DEF SupplyShape
<1>2. \A i \in DOMAIN orders : orders[i] \in PurchaseOrder
    BY DEF SupplyShape
<1>3. IsFiniteSet(DOMAIN orders)
    BY <1>1, FS_Interval
<1> QED BY <1>1, <1>2, <1>3, OpenUnitsType

LEMMA WorthType ==
    ASSUME SupplyShape, NEW k \in Sku
    PROVE  Outstanding(k) \in Nat /\ Worth(k) \in Int
<1> DEFINE q == [i \in DOMAIN orders |-> OpenUnits(orders[i], k)]
<1>1. \A i \in DOMAIN orders : q[i] \in Nat
    BY OrdersListed
<1> HIDE DEF q
<1>2. Total(DOMAIN orders, q) \in Nat
    BY <1>1, OrdersListed, TotalType
<1>3. Outstanding(k) \in Nat
    BY <1>2 DEF Outstanding, q
<1> QED BY <1>3 DEF Worth, SupplyShape

(* Nothing is promised or ordered, and every SKU is worth what it was.       *)
LEMMA SupplyKept ==
    ASSUME SupplyInv, SupplyShape',
           \A k \in Sku : Worth(k)' = Worth(k),
           Len(orders') = Len(orders),
           \A i \in 1 .. Len(orders) : DOMAIN orders'[i] = DOMAIN orders[i],
           goal' = goal, NEW T \in SUBSET Session,
           \A s \in T : job'[s] = job[s],
           \A s \in Session \ T : job'[s] = None
    PROVE  SupplyInv'
<1>1. ASSUME NEW j, PromisesOK(j) PROVE PromisesOK(j)'
    <2>1. j.seen \in 0 .. Len(orders')
        BY <1>1 DEF PromisesOK
    <2>2. \A k : OrderedSince(j, k) => OrderedSince(j, k)'
        BY <1>1 DEF PromisesOK, OrderedSince
    <2>3. ASSUME NEW k \in DOMAIN j.buy PROVE PromiseOK(j, k)'
        <3>1. k \in Sku /\ PromiseOK(j, k)
            BY <1>1 DEF PromisesOK
        <3>2. Worth(k)' = Worth(k)
            BY <3>1
        <3> QED BY <2>2, <3>1, <3>2 DEF PromiseOK, Target, Most
    <2> QED BY <1>1, <2>1, <2>3 DEF PromisesOK
<1>2. \A s \in Session : job'[s] # None => PromisesOK(job[s])'
    <2>1. ASSUME NEW s \in Session, job'[s] # None, NEW j, j = job'[s] PROVE PromisesOK(j)'
        <3>1. PromisesOK(j)
            BY <2>1 DEF SupplyInv
        <3> QED BY <1>1, <3>1
    <2> QED BY <2>1 DEF PromisesOK, PromiseOK, OrderedSince, Target, Most, Worth, Outstanding
<1>3. \A k \in Sku : goal'[k] # None => GoalOK(k)'
    BY DEF SupplyInv, GoalOK
<1> QED BY <1>2, <1>3 DEF SupplyInv

LEMMA InitSupply == Init => SupplyInv
<1> SUFFICES ASSUME Init PROVE SupplyInv
    OBVIOUS
<1>1. <<>> \in Seq(PurchaseOrder) /\ available \in [Sku -> Int] /\ flow \in [Sku -> Int]
    BY InitialOK DEF Init
<1> QED BY <1>1 DEF Init, SupplyInv, SupplyShape

(* A call promises what it read.                                             *)
LEMMA BeginSupply ==
    ASSUME PolicyInv, SupplyInv, NEW s \in Session, NEW touched \in SUBSET Sku,
           NEW bought \in SUBSET touched,
           \A k \in bought : policy[k] # None /\ available[k] < policy[k].reorder,
           Begin(s, touched, bought)
    PROVE  SupplyInv'
<1> DEFINE j == [old   |-> policy,
                 new   |-> [k \in touched |-> PolicyFor(demand[k])],
                 buy   |-> [k \in bought |-> OrderQty(PolicyFor(demand[k]), available[k])],
                 seen  |-> Len(orders),
                 flow  |-> flow,
                 open  |-> {k \in bought : Outstanding(k) > 0}]
<1>1. job' = [job EXCEPT ![s] = j] /\ UNCHANGED <<available, orders, flow, goal>>
    BY DEF Begin
<1>2. /\ j.old = policy /\ j.new = [k \in touched |-> PolicyFor(demand[k])]
      /\ j.buy = [k \in bought |-> OrderQty(PolicyFor(demand[k]), available[k])]
      /\ j.seen = Len(orders) /\ j.flow = flow
      /\ j.open = {k \in bought : Outstanding(k) > 0}
    OBVIOUS
<1> HIDE DEF j
<1>3. SupplyShape
    BY DEF SupplyInv
<1>4. ASSUME NEW k \in bought PROVE PromiseOK(j, k)
    <2> DEFINE p == PolicyFor(demand[k])
               a == available[k]
               w == Outstanding(k)
               old == policy[k]
    <2>1. k \in Sku /\ p \in Policy /\ j.new[k] = p /\ j.old[k] = old /\ old \in Policy
        BY <1>2, PolicyForType DEF PolicyInv
    <2>2. j.buy[k] = OrderQty(p, a) /\ j.flow[k] = flow[k]
        BY <1>2
    <2>3. a \in Int /\ w \in Nat /\ flow[k] \in Int /\ Worth(k) = a + w + flow[k]
        BY <1>3, <2>1, WorthType DEF SupplyShape, Worth
    <2>4. a < old.reorder
        OBVIOUS
    <2>5. k \in j.open \/ w = 0
        BY <1>2, <2>3
    <2> HIDE DEF p, a, w, old
    <2>6. /\ p.safety \in Nat /\ p.reorder \in Nat /\ old.reorder \in Nat
          /\ OrderQty(p, a) = Largest(p.reorder - a + p.safety, p.safety)
        BY <2>1 DEF Policy, OrderQty
    <2>7. OrderQty(p, a) \in Nat
        BY <2>3, <2>6 DEF Largest
    <2>8. Worth(k) + OrderQty(p, a) >= p.reorder + p.safety + flow[k]
        BY <2>3, <2>6 DEF Largest
    <2>9. w = 0 => Worth(k) + OrderQty(p, a)
                      <= Largest(p.reorder + p.safety, old.reorder - 1 + p.safety) + flow[k]
        BY <2>3, <2>4, <2>6 DEF Largest
    <2> QED BY <2>1, <2>2, <2>3, <2>5, <2>7, <2>8, <2>9 DEF PromiseOK, Target, Most
<1>5. PromisesOK(j)
    <2>1. Len(orders) \in 0 .. Len(orders)
        BY <1>3, OrdersListed
    <2> QED BY <1>2, <1>4, <2>1 DEF PromisesOK
<1>6. /\ job' = [t \in Session |-> job'[t]]
      /\ \A t \in Session : job'[t] = IF t = s THEN j ELSE job[t]
    BY <1>1, <1>3 DEF SupplyShape
<1>7. \A t \in Session : job'[t] # None => PromisesOK(job'[t])
    BY <1>5, <1>6 DEF SupplyInv
<1>8. \A t \in Session : job'[t] # None => PromisesOK(job[t])'
    BY <1>1, <1>7 DEF PromisesOK, PromiseOK, OrderedSince, Target, Most, Worth, Outstanding
<1>9. \A k \in Sku : goal'[k] # None => GoalOK(k)'
    BY <1>1 DEF SupplyInv, GoalOK, Worth, Outstanding
<1> QED BY <1>1, <1>3, <1>6, <1>8, <1>9 DEF SupplyInv, SupplyShape

(* The order of a call adds what it promised to what a SKU is worth.         *)
LEMMA OrderAdds ==
    ASSUME SupplyShape, NEW o \in PurchaseOrder, orders' = Append(orders, o),
           UNCHANGED <<available, flow>>, NEW k \in Sku
    PROVE  Worth(k)' = Worth(k) + OpenUnits(o, k)
<1> DEFINE S == 1 .. Len(orders)
           n == Len(orders) + 1
           p == [i \in DOMAIN orders |-> OpenUnits(orders[i], k)]
           q == [i \in DOMAIN orders' |-> OpenUnits(orders'[i], k)]
<1>1. DOMAIN orders = S /\ IsFiniteSet(S) /\ n \notin S
    BY OrdersListed
<1>2. /\ DOMAIN orders' = S \cup {n} /\ orders'[n] = o
      /\ \A i \in S : orders'[i] = orders[i]
    BY DEF SupplyShape
<1>3. /\ \A i \in S : p[i] \in Nat /\ q[i] = p[i]
      /\ q[n] = OpenUnits(o, k) /\ q[n] \in Nat
    BY <1>1, <1>2, OrdersListed, OpenUnitsType
<1> HIDE DEF p, q, n, S
<1>4. Total(S \cup {n}, q) = Total(S, p) + q[n]
    <2>1. ASSUME NEW T, NEW m, NEW f, NEW g, IsFiniteSet(T), m \notin T, g[m] \in Nat,
                 \A i \in T : f[i] \in Nat /\ g[i] = f[i]
          PROVE  Total(T \cup {m}, g) = Total(T, f) + g[m]
        BY <2>1, TotalAdd
    <2>2. IsFiniteSet(S) /\ n \notin S /\ q[n] \in Nat
        BY <1>1, <1>3
    <2>3. \A i \in S : p[i] \in Nat /\ q[i] = p[i]
        BY <1>3
    <2> QED BY <2>1, <2>2, <2>3
<1>5. Outstanding(k)' = Outstanding(k) + OpenUnits(o, k)
    BY <1>1, <1>2, <1>3, <1>4 DEF Outstanding, p, q
<1>6. available[k] \in Int /\ flow[k] \in Int /\ Outstanding(k) \in Nat /\ OpenUnits(o, k) \in Nat
    BY WorthType, OpenUnitsType DEF SupplyShape
<1> QED BY <1>5, <1>6 DEF Worth

LEMMA CommitSupply ==
    ASSUME PolicyInv, SupplyInv, NEW s \in Session, Commit(s)
    PROVE  SupplyInv'
<1> DEFINE j == job[s]
           bought == DOMAIN j.buy
           order == [k \in bought |-> [ordered |-> j.buy[k], received |-> 0]]
<1>1. /\ j # None
      /\ orders' = IF bought = {} THEN orders ELSE Append(orders, order)
      /\ job' = [job EXCEPT ![s] = None]
      /\ goal' = [k \in Sku |->
            IF k \notin bought THEN goal[k]
            ELSE [target |-> j.new[k].reorder + j.new[k].safety,
                  most   |-> Largest(j.new[k].reorder + j.new[k].safety,
                                     j.old[k].reorder - 1 + j.new[k].safety),
                  flow   |-> j.flow[k],
                  again  |-> k \in j.open \/ \E i \in j.seen + 1 .. Len(orders) :
                                                k \in DOMAIN orders[i]]]
      /\ UNCHANGED <<available, flow>>
    BY DEF Commit
<1>2. PromisesOK(j) /\ SupplyShape
    BY <1>1 DEF SupplyInv
<1> HIDE DEF j
<1>3. bought \subseteq Sku /\ \A k \in bought : PromiseOK(j, k) /\ j.buy[k] \in Nat
    BY <1>2 DEF PromisesOK, PromiseOK
<1>4. order \in PurchaseOrder /\ \A k \in Sku : OpenUnits(order, k) = IF k \in bought THEN j.buy[k] ELSE 0
    <2>1. \A k \in bought : order[k] = [ordered |-> j.buy[k], received |-> 0] /\ order[k] \in Line
        BY <1>3 DEF Line
    <2>2. order \in PurchaseOrder
        BY <1>3, <2>1, OrderShape
    <2>3. ASSUME NEW k \in Sku PROVE OpenUnits(order, k) = IF k \in bought THEN j.buy[k] ELSE 0
        BY <1>3, <2>1 DEF OpenUnits, Floor
    <2> QED BY <2>2, <2>3
<1> HIDE DEF order
<1>5. \A k \in Sku : Worth(k)' = Worth(k) + IF k \in bought THEN j.buy[k] ELSE 0
    <2>1. CASE bought = {}
        <3>1. \A k \in Sku : Worth(k)' = Worth(k)
            BY <1>1, <2>1 DEF Worth, Outstanding
        <3> QED BY <1>2, <2>1, <3>1, WorthType
    <2>2. CASE bought # {}
        BY <1>1, <1>2, <1>4, <2>2, OrderAdds
    <2> QED BY <2>1, <2>2
<1>6. /\ orders' \in Seq(PurchaseOrder) /\ Len(orders') >= Len(orders)
      /\ \A i \in 1 .. Len(orders) : orders'[i] = orders[i]
      /\ bought # {} => /\ Len(orders') = Len(orders) + 1
                        /\ DOMAIN orders'[Len(orders) + 1] = bought
    <2>1. DOMAIN order = bought
        BY DEF order
    <2>2. CASE bought = {}
        BY <1>1, <1>2, <2>2, OrdersListed DEF SupplyShape
    <2>3. CASE bought # {}
        BY <1>1, <1>2, <1>4, <2>1, <2>3 DEF SupplyShape
    <2> QED BY <2>2, <2>3
<1>7. SupplyShape'
    BY <1>1, <1>2, <1>6 DEF SupplyShape
<1>8. ASSUME NEW i, PromisesOK(i) PROVE PromisesOK(i)'
    <2>1. i.seen \in 0 .. Len(orders')
        BY <1>2, <1>6, <1>8, OrdersListed DEF PromisesOK
    <2>2. ASSUME NEW k \in DOMAIN i.buy PROVE PromiseOK(i, k)'
        <3>1. k \in Sku /\ PromiseOK(i, k) /\ i.seen \in 0 .. Len(orders)
            BY <1>8 DEF PromisesOK
        <3>2. OrderedSince(i, k) => OrderedSince(i, k)'
            BY <1>2, <1>6, <3>1, OrdersListed DEF OrderedSince
        <3>3. CASE k \notin bought
            <4>1. Worth(k)' = Worth(k)
                BY <1>2, <1>5, <3>1, <3>3, WorthType
            <4> QED BY <3>1, <3>2, <4>1 DEF PromiseOK, Target, Most
        <3>4. CASE k \in bought
            <4>1. OrderedSince(i, k)'
                <5>1. Len(orders) + 1 \in i.seen + 1 .. Len(orders')
                    BY <1>2, <1>6, <3>1, <3>4, OrdersListed
                <5>2. k \in DOMAIN orders'[Len(orders) + 1]
                    BY <1>6, <3>4
                <5> QED BY <5>1, <5>2 DEF OrderedSince
            <4>2. /\ Worth(k) \in Int /\ Worth(k)' = Worth(k) + j.buy[k] /\ j.buy[k] \in Nat
                BY <1>2, <1>3, <1>5, <3>1, <3>4, WorthType
            <4>3. Worth(k)' + i.buy[k] >= Target(i, k) + i.flow[k]
                <5>1. /\ i.buy[k] \in Nat /\ i.flow[k] \in Int /\ Target(i, k) \in Int
                      /\ Worth(k) + i.buy[k] >= Target(i, k) + i.flow[k]
                    BY <3>1 DEF PromiseOK, Target, Policy
                <5> QED BY <4>2, <5>1
            <4> QED BY <3>1, <4>1, <4>3 DEF PromiseOK, Target
        <3> QED BY <3>3, <3>4
    <2> QED BY <1>8, <2>1, <2>2 DEF PromisesOK
<1>9. \A t \in Session : job'[t] # None => job'[t] = job[t]
    BY <1>1, <1>2 DEF SupplyShape
<1>10. \A t \in Session : job'[t] # None => PromisesOK(job[t])'
    <2>1. ASSUME NEW t \in Session, job'[t] # None, NEW i, i = job'[t] PROVE PromisesOK(i)'
        <3>1. PromisesOK(i)
            BY <1>9, <2>1 DEF SupplyInv
        <3> QED BY <1>8, <3>1
    <2> QED BY <2>1 DEF PromisesOK, PromiseOK, OrderedSince, Target, Most, Worth, Outstanding
<1>11. ASSUME NEW k \in Sku, goal'[k] # None PROVE GoalOK(k)'
    <2>1. CASE k \notin bought
        <3>1. goal'[k] = goal[k] /\ Worth(k)' = Worth(k)
            BY <1>1, <1>2, <1>5, <2>1, WorthType
        <3> QED BY <1>11, <3>1 DEF SupplyInv, GoalOK
    <2>2. CASE k \in bought
        <3>1. /\ goal'[k].target = Target(j, k) /\ goal'[k].most = Most(j, k)
              /\ goal'[k].flow = j.flow[k]
              /\ goal'[k].again = (k \in j.open \/ OrderedSince(j, k))
            BY <1>1, <2>2 DEF Target, Most, OrderedSince
        <3>2. /\ Worth(k) + j.buy[k] >= Target(j, k) + j.flow[k]
              /\ \/ k \in j.open \/ OrderedSince(j, k)
                 \/ Worth(k) + j.buy[k] <= Most(j, k) + j.flow[k]
              /\ j.flow[k] \in Int /\ j.old[k] \in Policy /\ j.new[k] \in Policy
            BY <1>3, <2>2 DEF PromiseOK
        <3>3. Target(j, k) \in Int /\ Most(j, k) \in Int
            BY <3>2 DEF Target, Most, Largest, Policy
        <3>4. Worth(k)' = Worth(k) + j.buy[k]
            BY <1>5, <2>2
        <3> QED BY <3>1, <3>2, <3>3, <3>4 DEF GoalOK
    <2> QED BY <2>1, <2>2
<1> QED BY <1>7, <1>10, <1>11 DEF SupplyInv

LEMMA RollbackSupply ==
    ASSUME SupplyInv, NEW s \in Session, Rollback(s)
    PROVE  SupplyInv'
<1>1. job' = [job EXCEPT ![s] = None] /\ UNCHANGED <<available, orders, flow, goal>>
    BY DEF Rollback
<1>2. SupplyShape'
    BY <1>1 DEF SupplyInv, SupplyShape
<1>3. \A t \in Session : job'[t] = IF t = s THEN None ELSE job[t]
    BY <1>1 DEF SupplyInv, SupplyShape
<1>4. \A k \in Sku : Worth(k)' = Worth(k)
    BY <1>1 DEF Worth, Outstanding
<1>5. Session \ {s} \in SUBSET Session
    OBVIOUS
<1> QED BY <1>1, <1>2, <1>3, <1>4, <1>5, SupplyKept

(* What comes in was ordered, and is no longer on order.                     *)
LEMMA ReceiveSupply ==
    ASSUME SupplyInv, NEW i \in DOMAIN orders, NEW k \in DOMAIN orders[i],
           NEW good \in Nat, NEW damaged \in Nat, Receive(i, k, good, damaged)
    PROVE  SupplyInv'
<1> DEFINE o == orders[i]
           line == [o[k] EXCEPT !.received = o[k].received + good + damaged]
           new == [o EXCEPT ![k] = line]
           open == OpenUnits(o, k)
           counted == Least(good + damaged, open)
<1>1. SupplyShape
    BY DEF SupplyInv
<1>2. /\ i \in 1 .. Len(orders) /\ o \in PurchaseOrder /\ k \in Sku /\ k \in DOMAIN o
      /\ DOMAIN o \subseteq Sku /\ o = [l \in DOMAIN o |-> o[l]]
      /\ \A l \in DOMAIN o : o[l] \in Line
    BY <1>1, OrdersListed, OrderShape
<1>3. /\ orders' = [orders EXCEPT ![i] = new]
      /\ available' = [available EXCEPT ![k] = available[k] + good]
      /\ flow' = [flow EXCEPT ![k] = flow[k] + counted - good]
      /\ job' = job /\ goal' = goal
    BY DEF Receive
<1>4. /\ line \in Line /\ line.ordered = o[k].ordered
      /\ line.received = o[k].received + good + damaged
    BY <1>2 DEF Line
<1> HIDE DEF line
<1>5. /\ DOMAIN new = DOMAIN o /\ new = [l \in DOMAIN new |-> new[l]]
      /\ \A l \in DOMAIN o : new[l] = IF l = k THEN line ELSE o[l]
    BY <1>2
<1> HIDE DEF new
<1>6. new \in PurchaseOrder
    BY <1>2, <1>4, <1>5, OrderShape
<1>7. OpenUnits(new, k) = open - counted /\ open \in Nat /\ counted \in Nat
    <2>1. o[k].ordered \in Nat /\ o[k].received \in Nat
        BY <1>2 DEF Line
    <2>2. /\ open = Floor(o[k].ordered - o[k].received)
          /\ OpenUnits(new, k) = Floor(o[k].ordered - (o[k].received + good + damaged))
        BY <1>2, <1>4, <1>5 DEF OpenUnits
    <2>3. PICK a \in Int : a = o[k].ordered - o[k].received
        BY <2>1
    <2>4. open = Floor(a) /\ OpenUnits(new, k) = Floor(a - (good + damaged))
        BY <2>1, <2>2, <2>3
    <2>5. \A b, c \in Nat : Floor(a - (b + c)) = Floor(a) - Least(b + c, Floor(a))
        BY DEF Floor, Least
    <2>6. \A n \in Nat : open \in Nat /\ Least(n, open) \in Nat
        BY <2>4 DEF Floor, Least
    <2> QED BY <2>4, <2>5, <2>6
<1>8. \A l \in Sku : l # k => OpenUnits(new, l) = OpenUnits(o, l)
    BY <1>2, <1>5 DEF OpenUnits
<1> HIDE DEF open, counted, o
<1>9. /\ orders' \in Seq(PurchaseOrder) /\ Len(orders') = Len(orders)
      /\ DOMAIN orders' = DOMAIN orders /\ orders'[i] = new
      /\ \A h \in DOMAIN orders : h # i => orders'[h] = orders[h]
    BY <1>1, <1>2, <1>3, <1>6 DEF SupplyShape
<1>10. available[k] \in Int /\ flow[k] \in Int
    BY <1>1, <1>2 DEF SupplyShape
<1>11. /\ available' \in [Sku -> Int] /\ flow' \in [Sku -> Int]
       /\ available'[k] = available[k] + good /\ flow'[k] = flow[k] + counted - good
       /\ \A l \in Sku : l # k => available'[l] = available[l] /\ flow'[l] = flow[l]
    BY <1>1, <1>2, <1>3, <1>7, <1>10 DEF SupplyShape
<1>12. SupplyShape'
    BY <1>1, <1>3, <1>9, <1>11 DEF SupplyShape
<1>13. ASSUME NEW l \in Sku
       PROVE  Outstanding(l)' = Outstanding(l) + OpenUnits(new, l) - OpenUnits(o, l)
    <2> DEFINE S == DOMAIN orders
               p == [h \in S |-> OpenUnits(orders[h], l)]
               q == [h \in S |-> OpenUnits(orders'[h], l)]
    <2>1. \A h \in S : p[h] \in Nat /\ q[h] \in Nat
        BY <1>1, <1>6, <1>9, OrdersListed, OpenUnitsType
    <2>2. \A h \in S \ {i} : p[h] = q[h]
        BY <1>9
    <2>3. p[i] = OpenUnits(o, l) /\ q[i] = OpenUnits(new, l)
        BY <1>9 DEF o
    <2>4. IsFiniteSet(S) /\ i \in S
        BY <1>1, OrdersListed
    <2> HIDE DEF p, q, S
    <2>5. Total(S, q) = Total(S, p) + q[i] - p[i]
        BY <2>1, <2>2, <2>4, TotalChange
    <2>6. Outstanding(l) = Total(S, p) /\ Outstanding(l)' = Total(S, q)
        BY <1>9 DEF Outstanding, p, q, S
    <2> QED BY <2>3, <2>5, <2>6
<1>14. ASSUME NEW l \in Sku PROVE Worth(l)' = Worth(l)
    <2>1. Outstanding(l) \in Nat /\ OpenUnits(o, l) \in Nat
        BY <1>1, <1>2, WorthType, OpenUnitsType
    <2>2. CASE l = k
        <3>1. Outstanding(k)' = Outstanding(k) - counted
            BY <1>7, <1>13, <2>1, <2>2 DEF open
        <3> QED BY <1>7, <1>10, <1>11, <2>1, <2>2, <3>1 DEF Worth
    <2>3. CASE l # k
        <3>1. Outstanding(l)' = Outstanding(l)
            BY <1>8, <1>13, <2>1, <2>3
        <3> QED BY <1>11, <2>3, <3>1 DEF Worth
    <2> QED BY <2>2, <2>3
<1>15. \A h \in 1 .. Len(orders) : DOMAIN orders'[h] = DOMAIN orders[h]
    BY <1>1, <1>5, <1>9, OrdersListed DEF o
<1>16. Session \in SUBSET Session
    OBVIOUS
<1> QED BY <1>3, <1>9, <1>12, <1>14, <1>15, <1>16, SupplyKept

LEMMA ConsumeSupply ==
    ASSUME SupplyInv, NEW k \in Sku, NEW units \in {-1, 1}, Consume(k, units)
    PROVE  SupplyInv'
<1>1. /\ available' = [available EXCEPT ![k] = available[k] - units]
      /\ flow' = [flow EXCEPT ![k] = flow[k] + units]
      /\ UNCHANGED <<orders, job, goal>>
    BY DEF Consume
<1>2. SupplyShape
    BY DEF SupplyInv
<1>3. SupplyShape'
    BY <1>1, <1>2 DEF SupplyShape
<1>4. \A l \in Sku : Worth(l)' = Worth(l)
    <2>1. ASSUME NEW l \in Sku PROVE Worth(l)' = Worth(l)
        <3>1. Outstanding(l)' = Outstanding(l) /\ Outstanding(l) \in Nat
            BY <1>1, <1>2, WorthType DEF Outstanding
        <3>2. available[l] \in Int /\ flow[l] \in Int
            BY <1>2 DEF SupplyShape
        <3>3. /\ available'[l] = available[l] - (IF l = k THEN units ELSE 0)
              /\ flow'[l] = flow[l] + (IF l = k THEN units ELSE 0)
            BY <1>1, <1>2, <3>2 DEF SupplyShape
        <3> QED BY <3>1, <3>2, <3>3 DEF Worth
    <2> QED BY <2>1
<1>5. Session \in SUBSET Session
    OBVIOUS
<1> QED BY <1>1, <1>3, <1>4, <1>5, SupplyKept

LEMMA OtherSupply ==
    ASSUME SupplyInv, UNCHANGED <<available, orders, flow, goal, job>>
    PROVE  SupplyInv'
<1>1. SupplyShape' /\ \A k \in Sku : Worth(k)' = Worth(k)
    BY DEF SupplyInv, SupplyShape, Worth, Outstanding
<1>2. Session \in SUBSET Session
    OBVIOUS
<1> QED BY <1>1, <1>2, SupplyKept

(* What a SKU is worth only goes up when it is ordered, by what was promised. *)
THEOREM SupplyInvariant == Spec => []SupplyInv
<1>1. PolicyInv /\ SupplyInv /\ [Next]_vars => SupplyInv'
    <2> SUFFICES ASSUME PolicyInv, SupplyInv, [Next]_vars PROVE SupplyInv'
        OBVIOUS
    <2>1. CASE UNCHANGED vars
        BY <2>1, OtherSupply DEF vars
    <2>2. ASSUME NEW s \in Session, GenerateReplenishment(s) PROVE SupplyInv'
        <3>1. /\ BelowReorderPoint \in SUBSET Sku
              /\ \A k \in BelowReorderPoint : policy[k] # None /\ available[k] < policy[k].reorder
            BY DEF BelowReorderPoint
        <3> QED BY <2>2, <3>1, BeginSupply DEF GenerateReplenishment
    <2>3. ASSUME NEW s \in Session, Commit(s) \/ Rollback(s) PROVE SupplyInv'
        BY <2>3, CommitSupply, RollbackSupply
    <2>4. ASSUME NEW s \in Session, NEW k \in Sku, Calculate(s, k) PROVE SupplyInv'
        BY <2>4, BeginSupply DEF Calculate
    <2>5. ASSUME NEW i \in DOMAIN orders, NEW k \in DOMAIN orders[i],
                 NEW good \in 0 .. MaxQty, NEW damaged \in 0 .. MaxQty,
                 Receive(i, k, good, damaged)
          PROVE  SupplyInv'
        <3>1. good \in Nat /\ damaged \in Nat
            BY BoundsOK
        <3> QED BY <2>5, <3>1, ReceiveSupply
    <2>6. ASSUME NEW k \in Sku, NEW units \in {-1, 1}, Consume(k, units) PROVE SupplyInv'
        BY <2>6, ConsumeSupply
    <2>7. ASSUME NEW k \in Sku, NEW d \in Demand, DemandShifts(k, d) PROVE SupplyInv'
        BY <2>7, OtherSupply DEF DemandShifts
    <2> QED BY <2>1, <2>2, <2>3, <2>4, <2>5, <2>6, <2>7 DEF Next
<1> QED BY PolicyInvariant, InitSupply, <1>1, PTL DEF Spec

LEMMA GoalsKept ==
    ASSUME SupplyInv, NEW k \in Sku, goal[k] # None
    PROVE  /\ Position(k) + Lost(k) >= goal[k].target
           /\ goal[k].again \/ Position(k) + Lost(k) <= goal[k].most
<1>1. GoalOK(k) /\ SupplyShape
    BY DEF SupplyInv
<1>2. available[k] \in Int /\ flow[k] \in Int /\ Outstanding(k) \in Nat
    BY <1>1, WorthType DEF SupplyShape
<1> QED BY <1>1, <1>2 DEF GoalOK, Worth, Position, Lost

(* Once ordered for, a SKU reaches its reorder point and the safety stock     *)
(* above it when all orders have come in, less what was taken since the call  *)
(* read the stock.                                                            *)
THEOREM OrdersReachTarget == Spec => []OrdersCoverTarget
<1>1. SupplyInv => OrdersCoverTarget
    BY GoalsKept DEF OrdersCoverTarget
<1> QED BY SupplyInvariant, <1>1, PTL

(* And it gets no more, unless the call found units of it still on order or   *)
(* overlapped with another that ordered.                                      *)
THEOREM OversupplyIsRepeated == Spec => []OversupplyNeedsRepetition
<1>1. SupplyInv => OversupplyNeedsRepetition
    BY GoalsKept DEF OversupplyNeedsRepetition
<1> QED BY SupplyInvariant, <1>1, PTL
================================================================================
