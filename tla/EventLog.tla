------------------------------- MODULE EventLog -------------------------------
(***************************************************************************)
(* The event store of one aggregate: services publish to it from inside    *)
(* their own transactions, and the worker handles what is pending, a batch *)
(* per cycle, in one transaction with its other duties.  A sequence number *)
(* is a maximum read beforehand and nothing in the schema keeps it unique. *)
(* No bus in the program is given a Redis client, so the copy to the Redis *)
(* stream is left out.                                                     *)
(***************************************************************************)
EXTENDS Integers, SequencesExt

CONSTANTS
    Publisher,      \* the sessions that publish
    Handlers,       \* number of handlers subscribed to the event type
    Wildcards,      \* number of handlers subscribed to "*"
    BatchSize,      \* worker_batch_size
    MaxEvents,      \* bound: events that ever occur
    MaxPerCall,     \* bound: events published by one transaction
    MaxReplays,     \* bound: replays begun
    MaxFaults       \* bound: worker cycles that are rolled back

ASSUME SizesOK == Handlers \in Nat \ {0} /\ Wildcards \in Nat /\ BatchSize \in Nat \ {0}

VARIABLES
    log,        \* the committed events
    tx,         \* tx[p]: the open transaction of a publisher
    occurred,   \* events that have occurred; the n-th has id n
    cycle,      \* the worker's transaction
    faults,     \* cycles rolled back so far
    replay,     \* the EventReplayer: what it has validated, or what it has read
    replays,    \* replays begun so far
    handled,    \* history: ids of the processed events, in the order of handling
    raced       \* history: pairs of events of transactions open together

vars == <<log, tx, occurred, cycle, faults, handled, raced, replay, replays>>

-----------------------------------------------------------------------------
Closed == [event |-> 0, seq |-> 0, stored |-> <<>>]     \* event 0: none at hand
Asleep == [phase |-> "asleep", todo |-> {}, done |-> {}, finished |-> <<>>, turn |-> 0,
           aborted |-> FALSE]
Resting == [phase |-> "resting", from |-> 0, applied |-> <<>>, grew |-> FALSE]

Open(p) == tx[p] # Closed
IdsOf(p) == {e.id : e \in ToSet(tx[p].stored)} \cup ({tx[p].event} \ {0})

Seqs(S) == {e.seq : e \in S}
NextSequence(S) == Max({0} \cup Seqs(S)) + 1
Pending == {e \in log : e.status = "pending"}

(* EventOrderingValidator.validate_aggregate walks the events in the order   *)
(* of their numbers and expects each one to be one more than the one before:*)
(* a number stored twice is a violation, and so is one without predecessor. *)
Violations(S) ==
    {e \in S : \/ \E f \in S \ {e} : f.seq = e.seq
               \/ e.seq # 1 /\ e.seq - 1 \notin Seqs(S)}

-----------------------------------------------------------------------------
Init ==
    /\ log = {} /\ occurred = 0
    /\ tx = [p \in Publisher |-> Closed]
    /\ cycle = Asleep /\ faults = 0
    /\ handled = <<>> /\ raced = {}
    /\ replay = Resting /\ replays = 0

(* A service builds the payload of an event, which dates it. *)
Occur(p) ==
    /\ occurred < MaxEvents
    /\ tx[p].event = 0 /\ Len(tx[p].stored) < MaxPerCall
    /\ occurred' = occurred + 1
    /\ tx' = [tx EXCEPT ![p].event = occurred + 1]
    /\ raced' = raced \cup {{occurred + 1, id} : id \in UNION {IdsOf(q) : q \in Publisher \ {p}}}
    /\ UNCHANGED <<log, cycle, faults, handled, replay, replays>>

(* Mutant: a session does not see what it has published itself. *)
ReadCommitted(p) ==
    /\ tx[p].event # 0 /\ tx[p].seq = 0
    /\ tx' = [tx EXCEPT ![p].seq = NextSequence(log)]
    /\ UNCHANGED <<log, occurred, cycle, faults, handled, raced, replay, replays>>

(* EventBus.publish reads the last number the session can see ...           *)
ReadSequence(p) ==
    /\ tx[p].event # 0 /\ tx[p].seq = 0
    /\ tx' = [tx EXCEPT ![p].seq = NextSequence(log \cup ToSet(tx[p].stored))]
    /\ UNCHANGED <<log, occurred, cycle, faults, handled, raced, replay, replays>>

(* ... then inserts the event.                                              *)
Publish(p) ==
    /\ tx[p].seq # 0
    /\ tx' = [tx EXCEPT ![p] =
          [event |-> 0, seq |-> 0,
           stored |-> Append(@.stored, [id |-> @.event, seq |-> @.seq,
                                        status |-> "pending", effects |-> 0, turn |-> 0])]]
    /\ UNCHANGED <<log, occurred, cycle, faults, handled, raced, replay, replays>>

Commit(p) ==
    /\ tx[p].stored # <<>> /\ tx[p].event = 0
    /\ log' = log \cup ToSet(tx[p].stored)
    /\ tx' = [tx EXCEPT ![p] = Closed]
    /\ replay' = [replay EXCEPT !.grew = @ \/ replay.phase = "validated"]
    /\ UNCHANGED <<occurred, cycle, faults, handled, raced, replays>>

(* The service fails after it has published, or its commit does. *)
Rollback(p) ==
    /\ Open(p)
    /\ tx' = [tx EXCEPT ![p] = Closed]
    /\ UNCHANGED <<log, occurred, cycle, faults, handled, raced, replay, replays>>

-----------------------------------------------------------------------------
(* Mutant: the newest events first. *)
PollNewest ==
    /\ cycle = Asleep /\ Pending # {}
    /\ cycle' = [Asleep EXCEPT !.phase = "events",
          !.todo = {e \in Pending : Cardinality({f \in Pending : f.id > e.id}) < BatchSize}]
    /\ UNCHANGED <<log, tx, occurred, faults, handled, raced, replay, replays>>

(* WorkerRunner._process_cycle begins: list_pending, by occurred_at. *)
Poll ==
    /\ cycle = Asleep /\ Pending # {}
    /\ cycle' = [Asleep EXCEPT !.phase = "events",
          !.todo = {e \in Pending : Cardinality({f \in Pending : f.id < e.id}) < BatchSize}]
    /\ UNCHANGED <<log, tx, occurred, faults, handled, raced, replay, replays>>

(* The oldest event of the batch is next: all handlers run, some, or, from   *)
(* the first database error on, no statement at all.                        *)
IsNext(e) == \A f \in cycle.todo : e.id <= f.id
Runs == Handlers + (cycle.turn + 1) * Wildcards
Marked(e, status, n) ==
    [e EXCEPT !.status = status, !.effects = @ + n, !.turn = cycle.turn + 1]
Dispatched(e, marked, aborted) ==
    /\ cycle' = [cycle EXCEPT !.todo = @ \ {e}, !.done = @ \cup marked,
                              !.finished = IF \E d \in marked : d.status = "processed"
                                           THEN Append(@, e.id) ELSE @,
                              !.turn = @ + 1, !.aborted = aborted]
    /\ UNCHANGED <<log, tx, occurred, faults, handled, raced, replay, replays>>

(* Mutant: an event whose handler raised stays pending. *)
DispatchRetrying ==
    /\ cycle.phase = "events"
    /\ \E e \in cycle.todo :
          /\ IsNext(e)
          /\ \/ ~cycle.aborted /\ Dispatched(e, {Marked(e, "processed", Runs)}, FALSE)
             \/ ~cycle.aborted /\ Dispatched(e, {}, FALSE)
             \/ (cycle.aborted \/ faults < MaxFaults) /\ Dispatched(e, {}, TRUE)

(* EventBus.dispatch: the handlers in turn; the first that raises marks the *)
(* event as failed, and what the earlier ones did stays in the transaction. *)
(* The handlers of "*" are appended to the registered list itself, so on    *)
(* one bus, which lives for a cycle, they run once more for every event.    *)
(* Once a database error has aborted it no statement succeeds, also not the *)
(* one that marks the event, and process_pending goes on to the next.       *)
Dispatch ==
    /\ cycle.phase = "events"
    /\ \E e \in cycle.todo :
          /\ IsNext(e)
          /\ \/ ~cycle.aborted /\ Dispatched(e, {Marked(e, "processed", Runs)}, FALSE)
             \/ /\ ~cycle.aborted
                /\ \E n \in 0 .. Runs - 1 : Dispatched(e, {Marked(e, "failed", n)}, FALSE)
             \/ (cycle.aborted \/ faults < MaxFaults) /\ Dispatched(e, {}, TRUE)

(* The cycle's other duties succeed, and it commits. *)
CycleCommits ==
    /\ cycle.phase = "events" /\ cycle.todo = {} /\ ~cycle.aborted
    /\ log' = {e \in log : \A d \in cycle.done : d.id # e.id} \cup cycle.done
    /\ handled' = handled \o cycle.finished
    /\ cycle' = Asleep
    /\ UNCHANGED <<tx, occurred, faults, raced, replay, replays>>

(* Mutant: handlers commit their own work, the cycle marks events later. *)
CycleFailsHalfway ==
    /\ cycle.phase = "events" /\ faults < MaxFaults
    /\ log' = {e \in log : \A d \in cycle.done : d.id # e.id}
                 \cup {[d EXCEPT !.status = "pending", !.turn = 0] : d \in cycle.done}
    /\ cycle' = Asleep
    /\ faults' = faults + 1
    /\ UNCHANGED <<tx, occurred, handled, raced, replay, replays>>

(* They raise (_expire_reservations meets a row it cannot read), the        *)
(* transaction was aborted, or the worker dies: the events are pending      *)
(* again.                                                                   *)
CycleFails ==
    /\ cycle.phase = "events" /\ faults < MaxFaults
    /\ cycle' = Asleep
    /\ faults' = faults + 1
    /\ UNCHANGED <<log, tx, occurred, handled, raced, replay, replays>>

-----------------------------------------------------------------------------
(* Mutant: the replay starts on whatever is there. *)
ValidateNothing(from) ==
    /\ replay = Resting /\ replays < MaxReplays
    /\ replay' = [Resting EXCEPT !.phase = "validated", !.from = from]
    /\ replays' = replays + 1
    /\ UNCHANGED <<log, tx, occurred, cycle, faults, handled, raced>>

(* EventReplayer.replay_aggregate: validate_and_raise; a log with violations *)
(* is reported and not replayed.  replay_pending_events replays all of an    *)
(* aggregate that has something pending, and leaves it pending.              *)
Validate(from) ==
    /\ replay = Resting /\ replays < MaxReplays
    /\ replay' = IF Violations(log) # {} THEN Resting
                 ELSE [Resting EXCEPT !.phase = "validated", !.from = from]
    /\ replays' = replays + 1
    /\ UNCHANGED <<log, tx, occurred, cycle, faults, handled, raced>>

ReplayPending == Pending # {} /\ Validate(1)

(* The log is read a second time, and every event from from_sequence on goes *)
(* to its projection, number by number; one that raises is reported, and the *)
(* next is applied.                                                         *)
ReplayEvents ==
    /\ replay.phase = "validated"
    /\ replay' = [replay EXCEPT !.phase = "replayed", !.applied =
           [n \in replay.from .. Max({0} \cup Seqs(log)) |-> Cardinality({e \in log : e.seq = n})]]
    /\ UNCHANGED <<log, tx, occurred, cycle, faults, handled, raced, replays>>

Work == Poll \/ Dispatch \/ CycleCommits \/ (cycle.aborted /\ CycleFails)

Next ==
    \/ \E p \in Publisher : Occur(p) \/ ReadSequence(p) \/ Publish(p) \/ Commit(p) \/ Rollback(p)
    \/ Poll \/ Dispatch \/ CycleCommits \/ CycleFails
    \/ (\E from \in 1 .. 2 : Validate(from)) \/ ReplayPending \/ ReplayEvents

Spec == Init /\ [][Next]_vars

(* The worker's loop goes on after an exception; faults are not for ever.   *)
FairSpec == Spec /\ WF_vars(Work)

-----------------------------------------------------------------------------
(* Events keep their shape. *)
TypeOK ==
    /\ \A e \in log : /\ e.id \in 1 .. occurred /\ e.seq \in 1 .. MaxEvents
                      /\ e.status \in {"pending", "processed", "failed"}
                      /\ e.effects \in 0 .. Handlers + BatchSize * Wildcards
    /\ cycle.phase \in {"asleep", "events"}

(* However transactions interleave and roll back, the numbers of the        *)
(* committed events leave no gap, and two events share one only if their    *)
(* transactions were open together; events of one transaction never do.     *)
NumbersTellEvents ==
    /\ Seqs(log) = 1 .. Max({0} \cup Seqs(log))
    /\ \A e, f \in log : e.seq = f.seq /\ e # f => {e.id, f.id} \in raced

(* Events are handled in the order of their numbers, although the worker    *)
(* sorts by occurred_at and misses what is not yet committed, unless their  *)
(* transactions were open together.                                         *)
HandledInOrder ==
    \A i, j \in DOMAIN handled :
        LET e == CHOOSE x \in log : x.id = handled[i]
            f == CHOOSE x \in log : x.id = handled[j]
        IN  i < j => e # f /\ (e.seq < f.seq \/ {e.id, f.id} \in raced)

(* Whatever cycles are rolled back in between, a pending event has had no    *)
(* handler, a failed one not all of them, and a processed one each handler   *)
(* once; only those for every type ("*") run again, and only for an event    *)
(* that came after another on the same bus.                                  *)
EffectsFollowStatus ==
    LET once == Handlers + Wildcards
    IN  \A e \in log :
            CASE e.status = "processed" -> /\ e.effects >= once
                                           /\ e.effects > once => e.turn > 1
              [] e.status = "pending"   -> e.effects = 0
              [] e.status = "failed"    -> e.turn = 1 => e.effects < once

(* A replay applies every number from where it starts on exactly once.       *)
(* Only if the log grows between its validation and its reading, by one of   *)
(* two events that were published at once and share their number, does a    *)
(* number come twice.                                                        *)
ReplaysAreGapless ==
    replay.phase = "replayed" =>
        \/ \A n \in DOMAIN replay.applied : replay.applied[n] = 1
        \/ replay.grew /\ \E e, f \in log : e # f /\ e.seq = f.seq /\ {e.id, f.id} \in raced

(* Every committed event is eventually processed or failed.                 *)
EventsSettle ==
    \A n \in 1 .. MaxEvents : (\E e \in log : e.id = n) ~>
        (\E e \in log : e.id = n /\ e.status # "pending")
=============================================================================
