----------------------------- MODULE StockLedger -----------------------------
(***************************************************************************)
(* The inventory ledger of one SKU: the root balance row of every          *)
(* warehouse (inventory_balances, location_id IS NULL) and the table of    *)
(* reservations that draw on it.  Every action is one service call that    *)
(* runs alone from its first read to its commit; LedgerSessions takes the  *)
(* same calls apart into the statements of concurrent transactions.        *)
(*                                                                         *)
(* A balance row keeps counters (reserved, allocated) that repeat what the *)
(* reservation table already says.  Nothing in the database ties the two   *)
(* together, so the point of this module is that the calls do.             *)
(***************************************************************************)
EXTENDS Ranking

CONSTANTS
    Order,          \* order ids
    Reservation,    \* reservation ids a run may hand out
    None,           \* no order, no warehouse: the columns of an unused id
    Ttl,            \* RESERVATION_TTL_MINUTES, in clock ticks
    MaxExtension,   \* MAX_EXTENSION_MINUTES, in clock ticks
    MaxLeft,        \* bound: an extension may not go beyond this many ticks
    MaxQty,         \* bound: largest quantity one request asks for
    MaxBroken,      \* bound: most damaged units in one row
    MaxStock        \* bound: largest |on_hand|

ASSUME ReservationFinite == IsFiniteSet(Reservation)
ASSUME NoneIsNoId == None \notin Order \cup Warehouse
ASSUME BoundsOK ==
    /\ Ttl \in Nat /\ MaxExtension \in Nat \ {0} /\ MaxLeft \in Nat
    /\ Ttl <= MaxLeft
    /\ MaxQty \in Nat \ {0} /\ MaxBroken \in Nat /\ MaxStock \in Nat

VARIABLES
    rows,       \* the warehouses that have a root balance row
    bal,        \* bal[w]: the counters of that row (zero without a row)
    res         \* res[r]: the reservation row with id r

vars == <<rows, bal, res>>

-----------------------------------------------------------------------------
Status == {"none", "active", "confirmed", "released"}
Row == [on_hand : Int, reserved : Int, allocated : Int, damaged : Nat]
ReservationRow == [status : Status, order : Order \cup {None},
                   warehouse : Warehouse \cup {None}, quantity : Nat,
                   left : -1 .. MaxLeft]

NoRow == [on_hand |-> 0, reserved |-> 0, allocated |-> 0, damaged |-> 0]
NoReservation == [status |-> "none", order |-> None, warehouse |-> None,
                  quantity |-> 0, left |-> 0]

Quantity == [r \in Reservation |-> res[r].quantity]
InState(st) == {r \in Reservation : res[r].status = st}
At(T, w) == {r \in T : res[r].warehouse = w}
ActiveOf(o) == {r \in InState("active") : res[r].order = o}

(* Mutant: the worker never sees a reservation as late enough. *)
ExpiredLater == {r \in InState("active") : res[r].left < -1}

(* expires_at < now, in every place that compares the two. *)
Expired == {r \in InState("active") : res[r].left < 0}

(* Mutants: counters that do not reduce what is available. *)
AvailableWithDamaged(row) == Floor(row.on_hand - row.reserved - row.allocated)
AvailableWithAllocated(row) == Floor(row.on_hand - row.reserved - row.damaged)

(* InventoryBalance.available, also what the SQL aggregate of the routing   *)
(* and ranking code returns for a warehouse whose only row is the root row. *)
Available(row) == Floor(row.on_hand - row.reserved - row.allocated - row.damaged)
Offered == [w \in Warehouse |-> Available(bal[w])]

-----------------------------------------------------------------------------
Init ==
    /\ rows \in SUBSET Warehouse
    /\ \E stock \in [rows -> 0 .. MaxStock] :
          bal = [w \in Warehouse |->
                    IF w \in rows THEN [NoRow EXCEPT !.on_hand = stock[w]]
                                  ELSE NoRow]
    /\ res = [r \in Reservation |-> NoReservation]

(* AllocationEngine.allocate.  An allocation of nothing raises              *)
(* InsufficientInventoryError and the request rolls back.                   *)
Allocate(o, need, pref, split) ==
    LET plan == Plan(Offered, need, pref, split)
        used == {w \in Warehouse : plan[w] > 0}
    IN  /\ used # {}
        /\ \E id \in [used -> InState("none")] :
              /\ \A v, w \in used : id[v] = id[w] => v = w
              /\ res' = [r \in Reservation |->
                    IF \E w \in used : id[w] = r
                    THEN LET w == CHOOSE w \in used : id[w] = r
                         IN  [status |-> "active", order |-> o, warehouse |-> w,
                              quantity |-> plan[w], left |-> Ttl]
                    ELSE res[r]]
        /\ bal' = [w \in Warehouse |->
                      [bal[w] EXCEPT !.reserved = @ + plan[w]]]
        /\ UNCHANGED rows

(* The row effect of releasing the active reservations T, one after the     *)
(* other, each floored at zero.                                             *)
AfterRelease(T, w) ==
    IF At(T, w) = {} THEN bal[w].reserved
                     ELSE Floor(bal[w].reserved - Total(At(T, w), Quantity))

(* Mutant: a reservation that is released is marked as expired. *)
SettleAsExpired(C, R) ==
    [r \in Reservation |->
        CASE r \in C -> [res[r] EXCEPT !.status = "confirmed", !.left = 0]
          [] r \in R -> [res[r] EXCEPT !.status = "expired", !.left = 0]
          [] OTHER   -> res[r]]

(* The table after confirming the reservations C and releasing those of R.  *)
(* The expiry of a settled reservation is not read again.                   *)
Settle(C, R) ==
    [r \in Reservation |->
        CASE r \in C -> [res[r] EXCEPT !.status = "confirmed", !.left = 0]
          [] r \in R -> [res[r] EXCEPT !.status = "released", !.left = 0]
          [] OTHER   -> res[r]]

(* _release_single_reservation for every reservation of T.  Callers only    *)
(* ever pass active ones, so its branch for confirmed ones is never taken.  *)
ReleaseAll(T) ==
    /\ res' = Settle({}, T)
    /\ bal' = [w \in Warehouse |->
                  [bal[w] EXCEPT !.reserved = AfterRelease(T, w)]]
    /\ UNCHANGED rows

(* AllocationEngine.release_reservations, the inventory half of a cancel. *)
ReleaseOrder(o) == ActiveOf(o) # {} /\ ReleaseAll(ActiveOf(o))

(* The worker's expiry pass and ReservationManager.process_expired. *)
ExpireReservations == Expired # {} /\ ReleaseAll(Expired)

(* Mutants: confirming leaves the stock reserved, or ignores the expiry. *)
ConfirmStillReserved(r) ==
    /\ r \in InState("active") \ Expired
    /\ res' = Settle({r}, {})
    /\ bal' = [bal EXCEPT ![res[r].warehouse].allocated = @ + res[r].quantity]
    /\ UNCHANGED rows

ConfirmLate(r) ==
    /\ r \in InState("active")
    /\ res' = Settle({r}, {})
    /\ bal' = [bal EXCEPT
                  ![res[r].warehouse].reserved = @ - res[r].quantity,
                  ![res[r].warehouse].allocated = @ + res[r].quantity]
    /\ UNCHANGED rows

(* AllocationEngine.confirm_allocation.  On a reservation that is not       *)
(* active, or has expired, it raises and the request rolls back.            *)
Confirm(r) ==
    /\ r \in InState("active") \ Expired
    /\ res' = Settle({r}, {})
    /\ bal' = [bal EXCEPT
                  ![res[r].warehouse].reserved = @ - res[r].quantity,
                  ![res[r].warehouse].allocated = @ + res[r].quantity]
    /\ UNCHANGED rows

(* ReservationManager.confirm_all_for_order: the error of an expired        *)
(* reservation is swallowed, so its release is committed with the rest.     *)
ConfirmOrder(o) ==
    LET stale == ActiveOf(o) \cap Expired
        live  == ActiveOf(o) \ Expired
        Confirmed(w) == Total(At(live, w), Quantity)
    IN  /\ ActiveOf(o) # {}
        /\ res' = Settle(live, stale)
        /\ bal' = [w \in Warehouse |->
                      [bal[w] EXCEPT !.reserved = AfterRelease(stale, w) - Confirmed(w),
                                     !.allocated = @ + Confirmed(w)]]
        /\ UNCHANGED rows

(* ReservationManager.extend_reservation.  It does not ask whether the      *)
(* reservation has expired: it may revive one the worker has not seen yet,  *)
(* by an amount that depends on how long ago the expiry was.                *)
Extend(r, minutes) ==
    LET gain == Least(minutes, MaxExtension)
        from == res[r].left
    IN  /\ r \in InState("active")
        /\ from + gain <= MaxLeft
        /\ \E left \in IF from < 0 THEN -1 .. gain - 1 ELSE {from + gain} :
              res' = [res EXCEPT ![r].left = left]
        /\ UNCHANGED <<rows, bal>>

(* InventoryService.adjust_inventory: a row is created on demand. *)
AdjustInventory(w, delta) ==
    LET stock == IF w \in rows THEN bal[w].on_hand + delta ELSE Floor(delta)
    IN  /\ stock \in -MaxStock .. MaxStock
        /\ rows' = rows \cup {w}
        /\ bal' = [bal EXCEPT ![w].on_hand = stock]
        /\ UNCHANGED res

(* ReceivingService._update_inventory: goods arrive, some of them broken. *)
UpdateInventory(w, good, broken) ==
    /\ bal[w].on_hand + good <= MaxStock /\ bal[w].damaged + broken <= MaxBroken
    /\ rows' = rows \cup {w}
    /\ bal' = [bal EXCEPT ![w].on_hand = @ + good, ![w].damaged = @ + broken]
    /\ UNCHANGED res

(* One minute passes for every reservation whose expiry is still read. *)
Tick ==
    /\ \E r \in InState("active") : res[r].left >= 0
    /\ res' = [r \in Reservation |->
                  IF r \in InState("active") /\ res[r].left >= 0
                  THEN [res[r] EXCEPT !.left = @ - 1] ELSE res[r]]
    /\ UNCHANGED <<rows, bal>>

Next ==
    \/ \E o \in Order, need \in 1 .. MaxQty, pref \in Warehouse \cup {None},
          split \in BOOLEAN : Allocate(o, need, pref, split)
    \/ \E o \in Order : ReleaseOrder(o) \/ ConfirmOrder(o)
    \/ ExpireReservations
    \/ \E r \in Reservation : Confirm(r)
    \/ \E r \in Reservation, minutes \in 1 .. MaxExtension + 1 : Extend(r, minutes)
    \/ \E w \in Warehouse, delta \in -MaxStock .. MaxStock : AdjustInventory(w, delta)
    \/ \E w \in Warehouse, good \in 0 .. MaxQty, broken \in 0 .. MaxBroken :
          UpdateInventory(w, good, broken)
    \/ Tick

(* The worker polls for ever and time passes; nobody has to call the rest.  *)
Fairness == WF_vars(ExpireReservations) /\ WF_vars(Tick)

Spec == Init /\ [][Next]_vars
FairSpec == Spec /\ Fairness

-----------------------------------------------------------------------------
(* Rows and reservations keep their shape; clocks stop at one tick late.    *)
TypeOK ==
    /\ rows \in SUBSET Warehouse
    /\ bal \in [Warehouse -> Row]
    /\ res \in [Reservation -> ReservationRow]

(* The reserved counter of every root row is the sum over the active        *)
(* reservations of that warehouse: what reconcile_warehouse compares.       *)
ReservedIsBacked ==
    \A w \in Warehouse : bal[w].reserved = Total(At(InState("active"), w), Quantity)

(* The allocated counter is the sum over the confirmed reservations: stock  *)
(* leaves "reserved" only into "allocated" or back to "available".          *)
AllocatedIsBacked ==
    \A w \in Warehouse : bal[w].allocated = Total(At(InState("confirmed"), w), Quantity)

(* Neither counter says anything the reservation table does not say.        *)
CountersAreBacked == ReservedIsBacked /\ AllocatedIsBacked

(* A reservation always draws on a warehouse that has a balance row, so the *)
(* "if balance:" guards of confirm and release never skip the counters; a   *)
(* warehouse without a row has nothing to offer.                            *)
DrawOnRows == \A r \in Reservation : res[r].status # "none" => res[r].warehouse \in rows
RowlessIsEmpty == \A w \in Warehouse \ rows : bal[w] = NoRow
ReservationsHaveRows == DrawOnRows /\ RowlessIsEmpty

LedgerInv ==
    /\ TypeOK
    /\ ReservedIsBacked
    /\ AllocatedIsBacked
    /\ ReservationsHaveRows

Oversold(w) == bal[w].on_hand - bal[w].reserved - bal[w].allocated - bal[w].damaged < 0

(* A covered warehouse becomes oversold only when its stock is lowered or   *)
(* damaged, and one that more is reserved at is covered afterwards.         *)
Sells(w) ==
    /\ Oversold(w)' /\ ~Oversold(w) => \/ bal'[w].on_hand < bal[w].on_hand
                                      \/ bal'[w].damaged > bal[w].damaged
    /\ bal'[w].reserved > bal[w].reserved => ~Oversold(w)'

(* Nobody but a manual adjustment or damaged receipts can promise more than *)
(* there is: every other call leaves a covered warehouse covered, and a     *)
(* call that reserves more at a warehouse leaves it covered in any case.    *)
NoOverselling == [][\A w \in Warehouse : Sells(w)]_vars

(* What a step may do to reservation r.                                     *)
Settles(r) ==
    /\ res[r].status \in {"confirmed", "released"} => res'[r] = res[r]
    /\ res[r].status = "active" =>
          /\ res'[r].status \in {"active", "confirmed", "released"}
          /\ res'[r].order = res[r].order
          /\ res'[r].warehouse = res[r].warehouse
          /\ res'[r].quantity = res[r].quantity
          /\ res[r].left < 0 => res'[r].status # "confirmed"

(* A reservation is settled once: active, then confirmed or released for    *)
(* good, with its order, warehouse and quantity never rewritten; and one    *)
(* whose time has run out is never confirmed.                               *)
SettledOnce == [][\A r \in Reservation : Settles(r)]_vars

(* Seen from outside, the counters, the ranking and the clocks vanish.      *)
Book == INSTANCE ReservationBook WITH
    usable <- [w \in Warehouse |-> bal[w].on_hand - bal[w].damaged],
    book   <- [r \in Reservation |->
                  [status |-> res[r].status, order |-> res[r].order,
                   warehouse |-> res[r].warehouse, quantity |-> res[r].quantity]]

(* The ledger is a book of promises that are covered when they are made,    *)
(* kept until they are settled, and settled once (ReservationBook).         *)
KeepsTheBook == Book!BookSpec

(* Somebody prolongs a reservation. *)
ExtendStep == \E r \in Reservation : res[r].status = "active"
                                     /\ res'[r].left > res[r].left
(* A hold nobody keeps extending ends: the worker gives the stock back at   *)
(* the latest, whatever the callers of the other services do.               *)
HoldsEnd ==
    <>[][~ExtendStep]_vars =>
        \A r \in Reservation : res[r].status = "active" ~> res[r].status # "active"
=============================================================================
