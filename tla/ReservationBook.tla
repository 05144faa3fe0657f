--------------------------- MODULE ReservationBook ---------------------------
(***************************************************************************)
(* What the inventory side promises its callers, without counters, ranking *)
(* or clocks: a book of reservations against the usable stock of each      *)
(* warehouse.  Stock is promised only where it is there, a promise is kept *)
(* until it is settled, and it is settled once.                            *)
(***************************************************************************)
EXTENDS Totals

CONSTANTS
    Warehouse,      \* the active warehouses
    Order,          \* order ids
    Reservation,    \* reservation ids
    None            \* the columns of an unused id

VARIABLES
    usable,         \* usable[w]: units on hand at w that are not damaged
    book            \* book[r]: what reservation r promises, and its status

bookVars == <<usable, book>>

Blank == [status |-> "none", order |-> None, warehouse |-> None, quantity |-> 0]

(* The reservations a warehouse still owes, and the units they add up to. *)
Owed(w) == {r \in Reservation : /\ book[r].status \in {"active", "confirmed"}
                                /\ book[r].warehouse = w}
Promised(w) == Total(Owed(w), [r \in Reservation |-> book[r].quantity])

BookInit ==
    /\ usable \in [Warehouse -> Nat]
    /\ book = [r \in Reservation |-> Blank]

(* An order gets promises on unused ids, each for units the warehouse has   *)
(* over and above everything else it owes.                                  *)
Promise(o) ==
    LET new == {r \in Reservation : book[r].status = "none" /\ book'[r].status # "none"}
    IN  /\ \A r \in Reservation \ new : book'[r] = book[r]
        /\ \A r \in new : /\ book'[r].status = "active" /\ book'[r].order = o
                         /\ book'[r].warehouse \in Warehouse
                         /\ book'[r].quantity > 0
        /\ \A w \in Warehouse :
              (\E r \in new : book'[r].warehouse = w) => Promised(w)' <= usable[w]
        /\ UNCHANGED usable

(* Some active promises are confirmed, others given back. *)
SettlePromises ==
    /\ \A r \in Reservation :
          \/ book'[r] = book[r]
          \/ /\ book[r].status = "active"
             /\ \E st \in {"confirmed", "released"} :
                   book'[r] = [book[r] EXCEPT !.status = st]
    /\ UNCHANGED usable

(* The stock of one warehouse changes; no promise does. *)
MoveStock ==
    /\ \E w \in Warehouse : \A v \in Warehouse \ {w} : usable'[v] = usable[v]
    /\ UNCHANGED book

BookNext == (\E o \in Order : Promise(o)) \/ SettlePromises \/ MoveStock

BookSpec == BookInit /\ [][BookNext]_bookVars
=============================================================================
