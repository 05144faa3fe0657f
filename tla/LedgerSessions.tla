---------------------------- MODULE LedgerSessions ----------------------------
(***************************************************************************)
(* The calls of StockLedger taken apart into the statements of concurrent  *)
(* database transactions.  A session reads balance rows at READ COMMITTED, *)
(* changes its own copies in memory, writes the columns it changed as      *)
(* absolute values under the row lock, and commits.  Nothing compares the  *)
(* version column, so what another session committed between the read and  *)
(* the write may be overwritten: the module says how far that can go.      *)
(*                                                                         *)
(* Only calls that a route or the worker makes are here: allocate, cancel, *)
(* adjust, receive and the expiry pass.  Reservation rows are written with *)
(* constants ("released"), so their locks change no outcome and are left   *)
(* out; so are the columns no call here writes.                            *)
(***************************************************************************)
EXTENDS Ranking, Sequences

CONSTANTS
    Order, Reservation, None,
    Request,        \* the sessions of concurrent API requests
    Worker,         \* the worker's session, which may be one of them
    Stocks,         \* the initial on_hand of every warehouse; 0: it has no row
    MaxQty,         \* bound: largest quantity of one allocation or receipt
    MaxStock,       \* bound: largest target of an adjustment
    MaxCalls        \* bound: calls started in one behaviour

ASSUME StocksAreNat == Stocks \subseteq [Warehouse -> Nat]
ASSUME ReservationFinite == IsFiniteSet(Reservation)
ASSUME BoundsOK == MaxQty \in Nat /\ MaxStock \in Nat

Session == Request \cup {Worker}

VARIABLES
    rows,       \* rows[w]: the committed root rows of w, oldest first
    res,        \* the committed reservations
    due,        \* the reservations whose expires_at has passed
    lock,       \* lock[w]: the session whose transaction has written row 1 of w
    job,        \* job[s]: what the call of session s has read and changed
    calls,      \* calls started so far
    expected,   \* history: the stock the committed calls meant w to have
    clash       \* history: <<w, what>> that concurrent calls have disturbed

vars == <<rows, res, due, lock, job, calls, expected, clash>>
db == <<rows, res, expected, clash>>

-----------------------------------------------------------------------------
Row == [on_hand : Int, reserved : Nat]
ASSUME NoneIsNoRow == None \notin Row
Blank == [status |-> "none", order |-> None, warehouse |-> None, quantity |-> 0]

Idle == [op |-> "idle", order |-> None, need |-> 0, pref |-> None, split |-> FALSE,
         seen |-> [w \in Warehouse |-> -1],     \* available as ranked; -1: not read
         todo |-> {},                           \* warehouses not tried yet
         pending |-> {},                        \* reservations not released yet
         settled |-> {},                        \* reservations released in memory
         made |-> {},                           \* reservations inserted
         at |-> None, delta |-> 0,              \* stock change not applied yet
         base |-> [w \in Warehouse |-> None],   \* the row as it was read
         copy |-> [w \in Warehouse |-> None]]   \* the row as it is in memory

OnHand(w) == NetTotal(DOMAIN rows[w], [i \in DOMAIN rows[w] |-> rows[w][i].on_hand])
ReservedAt(w) == Total(DOMAIN rows[w], [i \in DOMAIN rows[w] |-> rows[w][i].reserved])

ActiveAt(w) == {r \in Reservation : res[r].status = "active" /\ res[r].warehouse = w}
Held(w) == Total(ActiveAt(w), [r \in Reservation |-> res[r].quantity])

Touched(s) == {w \in Warehouse : job[s].copy[w] # None}
Updated(s) == {w \in Touched(s) : job[s].base[w] # None}

(* The rows a session has changed in memory and not written yet, and the    *)
(* one it writes next: a flush goes by primary key, here the rank order.    *)
Unwritten(s) == {w \in Updated(s) : lock[w] # s}
Wants(s) == {w \in Unwritten(s) : \A v \in Unwritten(s) : Rank[w] <= Rank[v]}

(* The warehouses an allocation can still draw on, in the engine's order.   *)
Candidates(s) ==
    LET j == job[s]
    IN  {w \in j.todo : j.need > 0 /\ j.seen[w] > 0 /\ (j.split \/ j.seen[w] >= j.need)}
Ranked(s) == \A w \in Warehouse : job[s].seen[w] >= 0

Finished(s) ==
    \/ job[s].op = "allocate" /\ Ranked(s) /\ Candidates(s) = {} /\ job[s].made # {}
    \/ job[s].op = "release" /\ job[s].pending = {}
    \/ job[s].op = "receive" /\ job[s].at = None
    \/ job[s].op = "reloaded"

(* An allocation flushes between two turns of its loop, an adjustment when  *)
(* it writes the audit log, every other call when it commits.               *)
Flushing(s) ==
    \/ job[s].op = "allocate" \/ Finished(s)
    \/ job[s].op = "adjust" /\ job[s].at = None

-----------------------------------------------------------------------------
Init ==
    /\ expected \in Stocks
    /\ rows = [w \in Warehouse |->
                  IF expected[w] = 0 THEN <<>>
                  ELSE <<[on_hand |-> expected[w], reserved |-> 0]>>]
    /\ res = [r \in Reservation |-> Blank]
    /\ due = {} /\ clash = {} /\ calls = 0
    /\ lock = [w \in Warehouse |-> None]
    /\ job = [s \in Session |-> Idle]

(* A session takes up a call. *)
Begin(s, j) ==
    /\ job[s] = Idle /\ calls < MaxCalls
    /\ job' = [job EXCEPT ![s] = j]
    /\ calls' = calls + 1
    /\ UNCHANGED <<db, due, lock>>

(* Mutant: the session goes back to the pool without a rollback. *)
FailWithoutRollback(s) ==
    /\ job' = [job EXCEPT ![s] = Idle]
    /\ UNCHANGED <<db, due, lock, calls>>

(* An exception: the session rolls back, and its locks are free again.      *)
Fail(s) ==
    /\ job' = [job EXCEPT ![s] = Idle]
    /\ lock' = [w \in Warehouse |-> IF lock[w] = s THEN None ELSE lock[w]]
    /\ UNCHANGED <<db, due, calls>>

(* The call goes on in memory. *)
Continue(s, j) ==
    /\ job' = [job EXCEPT ![s] = j]
    /\ UNCHANGED <<db, due, lock, calls>>

(* get_balance: the row the session already holds, or else the committed    *)
(* one; scalar_one_or_none raises when there are two.                       *)
Ambiguous(w) == Len(rows[w]) > 1
LoadedAnew(s, w) == rows[w][1]      \* mutant: a second read forgets the change
Loaded(s, w) == IF job[s].copy[w] # None THEN job[s].copy[w] ELSE rows[w][1]
LoadedBase(s, w) == IF job[s].copy[w] # None THEN job[s].base[w] ELSE rows[w][1]
Missing(s, w) == job[s].copy[w] = None /\ rows[w] = <<>>

-----------------------------------------------------------------------------
BeginAllocate(s, o, need, pref, split) ==
    Begin(s, [Idle EXCEPT !.op = "allocate", !.order = o, !.need = need, !.pref = pref,
                          !.split = split, !.todo = Warehouse])

(* _rank_warehouses: one aggregate per warehouse, each its own statement.   *)
ReadAvailable(s, w) ==
    /\ job[s].op = "allocate" /\ job[s].seen[w] = -1
    /\ \A v \in Warehouse : Rank[v] < Rank[w] => job[s].seen[v] >= 0
    /\ Continue(s, [job[s] EXCEPT !.seen[w] = Floor(OnHand(w) - ReservedAt(w))])

(* _apply_allocation raises when the row in memory has too little.          *)
NeverShort(row, qty) == FALSE       \* mutant: it does not look again
Short(row, qty) == Floor(row.on_hand - row.reserved) < qty

(* One turn of the allocation loop: the reservation is inserted, which      *)
(* writes the rows changed so far, then the balance is read again.          *)
Take(s, w, r) ==
    LET j == job[s]
        qty == Least(j.need, j.seen[w])
        row == Loaded(s, w)
    IN  /\ j.op = "allocate" /\ Ranked(s) /\ Unwritten(s) = {}
        /\ w \in Candidates(s)
        /\ \A v \in Candidates(s) : ~Precedes(v, w, j.pref)
        /\ res[r].status = "none"
        /\ \A t \in Session : \A m \in job[t].made : m.id # r
        /\ IF Missing(s, w) \/ Ambiguous(w) \/ Short(row, qty)
           THEN Fail(s)
           ELSE Continue(s, [j EXCEPT
                    !.todo = @ \ {w}, !.need = @ - qty,
                    !.made = @ \cup {[id |-> r, warehouse |-> w, quantity |-> qty]},
                    !.base[w] = LoadedBase(s, w),
                    !.copy[w] = [row EXCEPT !.reserved = @ + qty]])

(* An allocation of nothing raises InsufficientInventoryError. *)
Refuse(s) ==
    /\ job[s].op = "allocate" /\ Ranked(s) /\ Candidates(s) = {} /\ job[s].made = {}
    /\ Fail(s)

(* cancel_order and _expire_reservations read the reservations they are     *)
(* about to release; with none there is nothing to do here.                 *)
BeginRelease(s, T) ==
    T # {} /\ Begin(s, [Idle EXCEPT !.op = "release", !.pending = T])
BeginCancel(s, o) ==
    BeginRelease(s, {r \in Reservation : res[r].status = "active" /\ res[r].order = o})
BeginExpire == BeginRelease(Worker, {r \in due : res[r].status = "active"})

(* The row without the units of a released reservation. *)
GivenBack(row, qty) == [row EXCEPT !.reserved = Floor(@ - qty)]

(* _release_single_reservation. *)
Release(s, r) ==
    LET j == job[s]
        w == res[r].warehouse
    IN  /\ j.op = "release" /\ r \in j.pending
        /\ IF Ambiguous(w) THEN Fail(s)
           ELSE LET row == Loaded(s, w)
                IN  Continue(s, [j EXCEPT
                        !.pending = @ \ {r}, !.settled = @ \cup {r},
                        !.base[w] = LoadedBase(s, w),
                        !.copy[w] = GivenBack(row, res[r].quantity)])

(* adjust_inventory_balance reads the row to turn the target into a delta.  *)
BeginAdjust(s, w, target) ==
    /\ ~Ambiguous(w)
    /\ Begin(s, IF rows[w] = <<>>
                THEN [Idle EXCEPT !.op = "adjust", !.at = w, !.delta = target]
                ELSE [Idle EXCEPT !.op = "adjust", !.at = w,
                                  !.delta = target - rows[w][1].on_hand,
                                  !.base[w] = rows[w][1], !.copy[w] = rows[w][1]])

(* receive_against_po, up to the balance it is about to read. *)
BeginReceive(s, w, good) ==
    Begin(s, [Idle EXCEPT !.op = "receive", !.at = w, !.delta = good])

(* adjust_inventory and _update_inventory: a row is created on demand.      *)
ChangeStock(s) ==
    LET j == job[s]
        w == j.at
    IN  /\ j.op \in {"adjust", "receive"} /\ w # None
        /\ IF Ambiguous(w) THEN Fail(s)
           ELSE IF Missing(s, w)
           THEN Continue(s, [j EXCEPT !.at = None,
                    !.copy[w] = [on_hand |-> Floor(j.delta), reserved |-> 0]])
           ELSE Continue(s, [j EXCEPT !.at = None,
                    !.base[w] = LoadedBase(s, w),
                    !.copy[w] = [Loaded(s, w) EXCEPT !.on_hand = @ + j.delta]])

(* adjust_inventory_balance reads its result back before the commit.        *)
Reload(s) ==
    /\ job[s].op = "adjust" /\ job[s].at = None /\ Unwritten(s) = {}
    /\ IF \E w \in Touched(s) : Len(rows[w]) + (IF w \in Updated(s) THEN 0 ELSE 1) > 1
       THEN Fail(s)
       ELSE Continue(s, [job[s] EXCEPT !.op = "reloaded"])

-----------------------------------------------------------------------------
(* UPDATE of one changed row: it waits for the transaction that has written *)
(* the row before.                                                          *)
Write(s, w) ==
    /\ Flushing(s)
    /\ w \in Wants(s) /\ lock[w] = None
    /\ lock' = [lock EXCEPT ![w] = s]
    /\ UNCHANGED <<db, due, job, calls>>

(* Mutant: it writes the whole row. *)
WrittenWhole(row, base, copy) == copy

(* The unit of work writes a column only if its value has changed.          *)
Written(row, base, copy) ==
    [on_hand  |-> IF copy.on_hand = base.on_hand THEN row.on_hand ELSE copy.on_hand,
     reserved |-> IF copy.reserved = base.reserved THEN row.reserved ELSE copy.reserved]

(* What a commit overwrites unseen: a column that has changed since it was  *)
(* read, or a reservation that somebody else has released meanwhile.  A     *)
(* lowered stock is noted too: an allocation may have counted on it.        *)
Disturbed(s) ==
    LET j == job[s]
        Stale(w, c) == j.copy[w][c] # j.base[w][c] /\ rows[w][1][c] # j.base[w][c]
    IN  {p \in Updated(s) \X {"on_hand", "reserved"} : Stale(p[1], p[2])}
        \cup {<<res[r].warehouse, "reserved">> : r \in {q \in j.settled : res[q].status # "active"}}
        \cup {<<w, "lowered">> : w \in {v \in Updated(s) : j.copy[v].on_hand < j.base[v].on_hand}}

Commit(s) ==
    LET j == job[s]
        Gain(w) == j.copy[w].on_hand - (IF w \in Updated(s) THEN j.base[w].on_hand ELSE 0)
    IN  /\ Finished(s) /\ Unwritten(s) = {}
        /\ rows' = [w \in Warehouse |->
              IF w \in Updated(s)
              THEN [rows[w] EXCEPT ![1] = Written(@, j.base[w], j.copy[w])]
              ELSE IF w \in Touched(s) THEN Append(rows[w], j.copy[w]) ELSE rows[w]]
        /\ res' = [r \in Reservation |->
              IF r \in j.settled THEN [res[r] EXCEPT !.status = "released"]
              ELSE IF \E m \in j.made : m.id = r
              THEN LET m == CHOOSE m \in j.made : m.id = r
                   IN  [status |-> "active", order |-> j.order,
                        warehouse |-> m.warehouse, quantity |-> m.quantity]
              ELSE res[r]]
        /\ expected' = [w \in Warehouse |->
              IF w \in Touched(s) THEN expected[w] + Gain(w) ELSE expected[w]]
        /\ clash' = clash \cup Disturbed(s)
        /\ job' = [job EXCEPT ![s] = Idle]
        /\ lock' = [w \in Warehouse |-> IF lock[w] = s THEN None ELSE lock[w]]
        /\ UNCHANGED <<due, calls>>

(* PostgreSQL ends a session that waits for itself through others. *)
WaitsFor(s) == {lock[w] : w \in {v \in Wants(s) : Flushing(s)}} \ {None}
Deadlocked(s) ==
    \E C \in SUBSET Session :
        /\ s \in C
        /\ \A x \in C : WaitsFor(x) # {} /\ WaitsFor(x) \subseteq C
        /\ \A x \in C : \E y \in C : x \in WaitsFor(y)
DeadlockVictim(s) == Deadlocked(s) /\ Fail(s)

(* The clock passes the expires_at of a reservation. *)
Due(r) ==
    /\ res[r].status = "active" /\ r \notin due
    /\ due' = due \cup {r}
    /\ UNCHANGED <<db, lock, job, calls>>

-----------------------------------------------------------------------------
(* The next statement of a call that has begun. *)
Step(s) ==
    \/ \E w \in Warehouse : ReadAvailable(s, w)
    \/ \E w \in Warehouse, r \in Reservation : Take(s, w, r)
    \/ Refuse(s)
    \/ \E r \in Reservation : Release(s, r)
    \/ ChangeStock(s) \/ Reload(s)
    \/ \E w \in Warehouse : Write(s, w)
    \/ Commit(s)
    \/ DeadlockVictim(s)

Call ==
    \/ \E s \in Request, o \in Order, need \in 1 .. MaxQty,
          pref \in Warehouse \cup {None}, split \in BOOLEAN :
              BeginAllocate(s, o, need, pref, split)
    \/ \E s \in Request, o \in Order : BeginCancel(s, o)
    \/ BeginExpire
    \/ \E s \in Request, w \in Warehouse, target \in 0 .. MaxStock : BeginAdjust(s, w, target)
    \/ \E s \in Request, w \in Warehouse, good \in 1 .. MaxQty : BeginReceive(s, w, good)

Next == Call \/ (\E s \in Session : Step(s)) \/ (\E r \in Reservation : Due(r))

Spec == Init /\ [][Next]_vars

(* A begun request runs on: its coroutine is scheduled, the lock queue is   *)
(* first come, first served, and the deadlock detector runs.                *)
FairSpec == Spec /\ \A s \in Session : SF_vars(Step(s))

-----------------------------------------------------------------------------
(* Rows, reservations and locks keep their shape; no write, however stale,   *)
(* brings a reserved counter below zero.                                    *)
TypeOK ==
    /\ \A w \in Warehouse : \A i \in DOMAIN rows[w] : rows[w][i] \in Row
    /\ \A r \in Reservation :
          /\ res[r].status \in {"none", "active", "released"}
          /\ res[r].status # "none" => res[r].warehouse \in Warehouse /\ res[r].order \in Order
    /\ due \in SUBSET Reservation
    /\ lock \in [Warehouse -> Session \cup {None}]
    /\ \A s \in Session : job[s].op \in {"idle", "allocate", "release", "adjust", "receive", "reloaded"}

(* The reserved counters drift from the reservations in one way only: two   *)
(* calls overlapped on the same counter or on the same reservation.         *)
DriftNeedsOverlap ==
    \A w \in Warehouse : <<w, "reserved">> \notin clash => ReservedAt(w) = Held(w)

(* Stock that was received or counted is lost only when two changes of      *)
(* stock overlap: a reservation, cancel or expiry that read the row before  *)
(* never writes an old on_hand back.                                        *)
StockSurvives ==
    \A w \in Warehouse : <<w, "on_hand">> \notin clash => OnHand(w) = expected[w]

(* More is held than there is only after an overlap, or after stock was     *)
(* taken away.                                                              *)
OversellNeedsOverlap ==
    \A w \in Warehouse :
        {<<w, "reserved">>, <<w, "on_hand">>, <<w, "lowered">>} \cap clash = {}
            => Held(w) <= OnHand(w)

(* Every call that is begun ends: it commits, fails, or is broken off to    *)
(* resolve a deadlock of row locks.                                         *)
EveryCallEnds == \A s \in Session : job[s].op # "idle" ~> job[s].op = "idle"

(* test_concurrent_allocation_exhausts_available: where no stock was taken  *)
(* away, concurrent allocations do not together take more than there is.    *)
NothingPromisedTwice ==
    \A w \in Warehouse : <<w, "lowered">> \notin clash => Held(w) <= expected[w]
=============================================================================
