---------------------------- MODULE EventLogProofs ----------------------------
(***************************************************************************)
(* Proofs about EventLog, for any publishers, handlers, batches and bounds.*)
(***************************************************************************)
EXTENDS EventLog, FiniteSetTheorems, TLAPS

Event == [id : Nat \ {0}, seq : Nat \ {0}, status : {"pending", "processed", "failed"},
          effects : Nat, turn : Nat]
Tx == [event : Nat, seq : Nat, stored : Seq(Event)]
Cycle == [phase : {"asleep", "events"}, todo : SUBSET Event, done : SUBSET Event,
          finished : Seq(Nat), turn : Nat, aborted : BOOLEAN]

Mine(p) == ToSet(tx[p].stored)
Segment(S) == \E n \in Nat : S = 1 .. n

Shape ==
    /\ occurred \in Nat /\ log \in SUBSET Event /\ cycle \in Cycle
    /\ tx \in [Publisher -> Tx]
    /\ \A p \in Publisher : tx[p].event = 0 => tx[p].seq = 0

(* An id is used once: in the log, by a transaction, and between them.       *)
IdsOnce ==
    /\ \A e \in log : e.id <= occurred /\ \A f \in log : e.id = f.id => e = f
    /\ \A p \in Publisher :
          /\ tx[p].event <= occurred
          /\ \A e \in Mine(p) :
                /\ e.id <= occurred /\ e.id # tx[p].event
                /\ \A f \in Mine(p) : e.id = f.id => e = f
          /\ \A e \in log : e.id \notin IdsOf(p)

(* What the cycle holds are events of the log, under their numbers.          *)
CycleKnowsLog ==
    /\ cycle.todo \subseteq Pending
    /\ \A d \in cycle.done :
          /\ \E c \in log : c.id = d.id /\ c.seq = d.seq
          /\ \A e \in cycle.todo : e.id # d.id
          /\ \A e \in cycle.done : e.id = d.id => e = d

(* The numbers a transaction sees, its own with them, are 1, 2, ... n.       *)
NoGap ==
    /\ Segment(Seqs(log))
    /\ \A p \in Publisher :
          /\ Segment(Seqs(log \cup Mine(p)))
          /\ tx[p].seq # 0 => Segment(Seqs(log \cup Mine(p)) \cup {tx[p].seq})

(* Whoever is open at once has raced; who shares a number has.               *)
Sharing ==
    /\ \A e, f \in log : e.seq = f.seq /\ e # f => {e.id, f.id} \in raced
    /\ \A p \in Publisher :
          /\ \A e \in log :
                /\ \A f \in Mine(p) : e.seq = f.seq => {e.id, f.id} \in raced
                /\ tx[p].seq = e.seq => {e.id, tx[p].event} \in raced
          /\ \A e \in Mine(p) :
                /\ tx[p].seq # e.seq
                /\ \A f \in Mine(p) : e.seq = f.seq => e = f
          /\ \A q \in Publisher \ {p} : \A a \in IdsOf(p), b \in IdsOf(q) :
                a # b /\ {a, b} \in raced

EffectsOK(e) ==
    /\ e.status = "pending" => e.effects = 0
    /\ e.status = "processed" => /\ e.effects >= Handlers + Wildcards
                                 /\ e.effects > Handlers + Wildcards => e.turn > 1
    /\ e.status = "failed" => (e.turn = 1 => e.effects < Handlers + Wildcards)
Effects ==
    /\ \A e \in log : EffectsOK(e)
    /\ \A e \in cycle.done : EffectsOK(e)
    /\ \A p \in Publisher : \A e \in Mine(p) : EffectsOK(e)

LogInv == Shape /\ IdsOnce /\ CycleKnowsLog /\ NoGap /\ Sharing /\ Effects

(* An event of the log that occurred, or got its number, after one of an      *)
(* open transaction has raced with it.                                       *)
Precedes(e, p) ==
    /\ \A b \in IdsOf(p) : b < e.id => {e.id, b} \in raced
    /\ \A f \in Mine(p) : e.seq < f.seq \/ {e.id, f.id} \in raced
    /\ tx[p].seq # 0 => e.seq < tx[p].seq \/ {e.id, tx[p].event} \in raced

(* The events of one transaction are numbered as they occur. *)
InOrder(p) ==
    \A e \in Mine(p) :
        /\ tx[p].event # 0 => e.id < tx[p].event
        /\ tx[p].seq # 0 => e.seq < tx[p].seq
        /\ \A f \in Mine(p) : e.id < f.id => e.seq < f.seq

Numbered ==
    /\ \A e, f \in log : e.id < f.id => e.seq < f.seq \/ {e.id, f.id} \in raced
    /\ \A p \in Publisher : InOrder(p) /\ \A e \in log : Precedes(e, p)

(* A cycle that can still commit has passed over no pending event, except     *)
(* those that were committed late, and works through its batch by id.        *)
Taken(e) == e \in cycle.todo \/ \E c \in cycle.done : c.id = e.id
Batch ==
    ~cycle.aborted =>
        /\ \A i \in DOMAIN cycle.finished :
              \E d \in cycle.done : d.status = "processed" /\ d.id = cycle.finished[i]
        /\ \A i, j \in DOMAIN cycle.finished : i < j => cycle.finished[i] < cycle.finished[j]
        /\ \A d \in cycle.done :
              /\ d.status # "pending" /\ \E c \in Pending : c.id = d.id
              /\ \A e \in cycle.todo : d.id < e.id
        /\ \A d \in cycle.done \cup cycle.todo, f \in Pending :
              f.id < d.id => Taken(f) \/ {d.id, f.id} \in raced

(* What has been handled is processed, by id except for those that raced, and*)
(* so is what was left pending by then.                                      *)
Handling ==
    /\ handled \in Seq(Nat)
    /\ \A i \in DOMAIN handled :
          /\ \E e \in log : e.id = handled[i] /\ e.status = "processed"
          /\ \A f \in Pending : f.id < handled[i] => {handled[i], f.id} \in raced
    /\ \A i, j \in DOMAIN handled : i < j =>
          \/ handled[i] < handled[j]
          \/ handled[i] # handled[j] /\ {handled[i], handled[j]} \in raced

Finite == IsFiniteSet(log) /\ IsFiniteSet(cycle.done)

OrderInv == Numbered /\ Batch /\ Handling /\ Finite

-----------------------------------------------------------------------------
LEMMA SegmentsUnite ==
    ASSUME NEW S, NEW T, Segment(S), Segment(T)
    PROVE  Segment(S \cup T)
<1>1. PICK m \in Nat : S = 1 .. m
    BY DEF Segment
<1>2. PICK n \in Nat : T = 1 .. n
    BY DEF Segment
<1>3. CASE m <= n
    <2>1. S \cup T = 1 .. n
        BY <1>1, <1>2, <1>3
    <2> QED BY <2>1 DEF Segment
<1>4. CASE n <= m
    <2>1. S \cup T = 1 .. m
        BY <1>1, <1>2, <1>4
    <2> QED BY <2>1 DEF Segment
<1> QED BY <1>3, <1>4

(* The maximum of a segment is its end, and the number after it extends it.  *)
LEMMA SegmentEnds ==
    ASSUME NEW S, Segment(S)
    PROVE  /\ Max({0} \cup S) \in Nat /\ S = 1 .. Max({0} \cup S)
           /\ \A s \in S : s < Max({0} \cup S) + 1
           /\ Segment(S \cup {Max({0} \cup S) + 1})
<1>1. PICK n \in Nat : S = 1 .. n
    BY DEF Segment
<1> DEFINE T == {0} \cup S
           IsMax(x) == x \in T /\ \A y \in T : x >= y
<1>2. T = 0 .. n
    BY <1>1
<1>3. IsMax(n) /\ \A x : IsMax(x) => x = n
    BY <1>2
<1>4. Max(T) = CHOOSE x : IsMax(x)
    BY DEF Max
<1>5. Max(T) = n
    BY <1>3, <1>4
<1>6. S \cup {n + 1} = 1 .. n + 1
    BY <1>1
<1>7. Segment(S \cup {n + 1})
    BY <1>6 DEF Segment
<1> DEFINE m == Max({0} \cup S)
<1>8. m = n
    BY <1>5
<1> HIDE DEF m
<1>9. m \in Nat /\ S = 1 .. m /\ \A s \in S : s < m + 1
    BY <1>1, <1>8
<1>10. Segment(S \cup {m + 1})
    BY <1>7, <1>8
<1> QED BY <1>9, <1>10 DEF m

LEMMA SeqsUnite ==
    ASSUME NEW S, NEW T
    PROVE  Seqs(S \cup T) = Seqs(S) \cup Seqs(T)
BY DEF Seqs

LEMMA NothingStored == ToSet(<<>>) = {}
BY DEF ToSet

LEMMA StoredOneMore ==
    ASSUME NEW S, NEW s \in Seq(S), NEW x \in S
    PROVE  /\ ToSet(Append(s, x)) = ToSet(s) \cup {x}
           /\ ToSet(s) \subseteq S
<1> DEFINE n == Len(s)
           t == Append(s, x)
<1>1. n \in Nat /\ DOMAIN s = 1 .. n /\ t \in Seq(S) /\ Len(t) = n + 1
    OBVIOUS
<1>2. DOMAIN t = 1 .. n + 1
    BY <1>1
<1>3. t[n + 1] = x /\ \A i \in 1 .. n : t[i] = s[i] /\ s[i] \in S
    BY <1>1
<1> QED BY <1>1, <1>2, <1>3 DEF ToSet

LEMMA MineAreEvents ==
    ASSUME Shape, NEW p \in Publisher
    PROVE  Mine(p) \subseteq Event /\ tx[p] \in Tx /\ tx[p].stored \in Seq(Event)
<1>1. tx[p] \in Tx
    BY DEF Shape
<1>2. tx[p].stored \in Seq(Event)
    BY <1>1 DEF Tx
<1> QED BY <1>1, <1>2 DEF Mine, ToSet

(* What an action that changes one transaction leaves of the others.         *)
LEMMA TxChange ==
    ASSUME Shape, NEW p \in Publisher, NEW t \in Tx, tx' = [tx EXCEPT ![p] = t]
    PROVE  /\ tx' \in [Publisher -> Tx] /\ tx'[p] = t /\ Mine(p)' = ToSet(t.stored)
           /\ IdsOf(p)' = {e.id : e \in ToSet(t.stored)} \cup ({t.event} \ {0})
           /\ \A q \in Publisher \ {p} :
                 tx'[q] = tx[q] /\ Mine(q)' = Mine(q) /\ IdsOf(q)' = IdsOf(q)
<1>1. tx' \in [Publisher -> Tx] /\ tx'[p] = t
    BY DEF Shape
<1>2. \A q \in Publisher \ {p} : tx'[q] = tx[q]
    BY DEF Shape
<1> QED BY <1>1, <1>2 DEF Mine, IdsOf

(* An action that changes nothing here. *)
LEMMA QuietStep ==
    ASSUME LogInv, UNCHANGED <<log, tx, occurred, cycle, raced>>
    PROVE  LogInv'
<1>1. Shape'
    BY DEF LogInv, Shape
<1>2. \A p \in Publisher : Mine(p)' = Mine(p) /\ IdsOf(p)' = IdsOf(p)
    BY DEF Mine, IdsOf
<1>3. IdsOnce'
    BY <1>2 DEF LogInv, IdsOnce
<1>4. CycleKnowsLog'
    BY DEF LogInv, CycleKnowsLog, Pending
<1>5. NoGap'
    BY <1>2 DEF LogInv, NoGap, Segment, Seqs
<1>6. Sharing'
    BY <1>2 DEF LogInv, Sharing
<1>7. Effects'
    BY <1>2 DEF LogInv, Effects, EffectsOK
<1> QED BY <1>1, <1>3, <1>4, <1>5, <1>6, <1>7 DEF LogInv

(* A new event of p, under the next id. *)
LEMMA OccurChange ==
    ASSUME LogInv, NEW p \in Publisher, Occur(p)
    PROVE  /\ occurred \in Nat /\ tx[p].event = 0 /\ tx[p].seq = 0 /\ Mine(p) \subseteq Event
           /\ tx' \in [Publisher -> Tx] /\ tx'[p].event = occurred + 1 /\ tx'[p].seq = 0
           /\ Mine(p)' = Mine(p) /\ IdsOf(p)' = IdsOf(p) \cup {occurred + 1}
           /\ \A q \in Publisher \ {p} :
                 tx'[q] = tx[q] /\ Mine(q)' = Mine(q) /\ IdsOf(q)' = IdsOf(q)
           /\ log' = log /\ cycle' = cycle /\ occurred' = occurred + 1
           /\ raced' = raced \cup
                  {{occurred + 1, id} : id \in UNION {IdsOf(q) : q \in Publisher \ {p}}}
<1> DEFINE new == occurred + 1
           t == [tx[p] EXCEPT !.event = new]
<1>1. /\ tx[p] \in Tx /\ occurred \in Nat /\ Mine(p) \subseteq Event
      /\ tx[p].event = 0 /\ tx[p].seq = 0
    BY MineAreEvents DEF LogInv, Shape, Occur
<1>2. t = [event |-> new, seq |-> 0, stored |-> tx[p].stored] /\ t \in Tx
    BY <1>1 DEF Tx
<1>3. tx' = [tx EXCEPT ![p] = t]
    BY DEF Occur
<1> HIDE DEF t
<1>4. t.event = new /\ t.seq = 0 /\ t.stored = tx[p].stored /\ new # 0
    BY <1>1, <1>2
<1>5. /\ tx' \in [Publisher -> Tx] /\ tx'[p] = t /\ Mine(p)' = ToSet(t.stored)
      /\ IdsOf(p)' = {e.id : e \in ToSet(t.stored)} \cup ({t.event} \ {0})
      /\ \A q \in Publisher \ {p} :
            tx'[q] = tx[q] /\ Mine(q)' = Mine(q) /\ IdsOf(q)' = IdsOf(q)
    BY <1>2, <1>3, TxChange DEF LogInv
<1>6. ToSet(t.stored) = Mine(p) /\ {t.event} \ {0} = {new}
    BY <1>4 DEF Mine
<1>7. IdsOf(p)' = IdsOf(p) \cup {new}
    BY <1>1, <1>5, <1>6 DEF IdsOf, Mine
<1>8. /\ log' = log /\ cycle' = cycle /\ occurred' = new
      /\ raced' = raced \cup {{new, id} : id \in UNION {IdsOf(q) : q \in Publisher \ {p}}}
    BY DEF Occur
<1> QED BY <1>1, <1>4, <1>5, <1>6, <1>7, <1>8

LEMMA OccurKeeps ==
    ASSUME LogInv, NEW p \in Publisher, Occur(p)
    PROVE  LogInv'
<1> DEFINE new == occurred + 1
<1>1. /\ occurred \in Nat /\ Mine(p) \subseteq Event /\ tx[p].event = 0 /\ tx[p].seq = 0
    BY OccurChange
<1>4. /\ tx' \in [Publisher -> Tx] /\ tx'[p].event = new /\ tx'[p].seq = 0
      /\ Mine(p)' = Mine(p)
      /\ \A q \in Publisher \ {p} :
            tx'[q] = tx[q] /\ Mine(q)' = Mine(q) /\ IdsOf(q)' = IdsOf(q)
    BY OccurChange
<1>5. IdsOf(p)' = IdsOf(p) \cup {new}
    BY OccurChange
<1>6. /\ log' = log /\ cycle' = cycle /\ occurred' = new
      /\ raced' = raced \cup {{new, id} : id \in UNION {IdsOf(q) : q \in Publisher \ {p}}}
    BY OccurChange
<1>7. \A q \in Publisher : \A a \in IdsOf(q) : a \in Nat /\ a <= occurred
    BY MineAreEvents DEF LogInv, Shape, IdsOnce, IdsOf, Mine, Event, Tx
<1>8. \A e \in log : e.id \in Nat /\ e.id <= occurred /\ e.seq \in Nat \ {0}
    BY DEF LogInv, Shape, IdsOnce, Event
<1>9. Shape'
    BY <1>1, <1>4, <1>6 DEF LogInv, Shape
<1>10. IdsOnce'
    <2>1. \A e \in log' : e.id <= occurred' /\ \A f \in log' : e.id = f.id => e = f
        BY <1>1, <1>6, <1>8 DEF LogInv, IdsOnce
    <2>2. ASSUME NEW q \in Publisher
          PROVE  /\ tx'[q].event <= occurred'
                 /\ \A e \in Mine(q)' :
                       /\ e.id <= occurred' /\ e.id # tx'[q].event
                       /\ \A f \in Mine(q)' : e.id = f.id => e = f
                 /\ \A e \in log' : e.id \notin IdsOf(q)'
        <3>1. tx[q].event \in Nat /\ \A e \in Mine(q) : e.id \in Nat
            BY MineAreEvents DEF LogInv, Tx, Event
        <3>2. CASE q = p
            BY <1>1, <1>4, <1>5, <1>6, <1>8, <3>1, <3>2 DEF LogInv, IdsOnce
        <3>3. CASE q # p
            BY <1>1, <1>4, <1>6, <1>8, <3>1, <3>3 DEF LogInv, IdsOnce
        <3> QED BY <3>2, <3>3
    <2> QED BY <2>1, <2>2 DEF IdsOnce
<1>11. CycleKnowsLog' /\ Effects' /\ NoGap'
    <2>1. \A q \in Publisher : Mine(q)' = Mine(q) /\ tx'[q].seq = tx[q].seq
        BY <1>1, <1>4
    <2> QED BY <1>6, <2>1 DEF LogInv, CycleKnowsLog, Pending, Effects, EffectsOK, NoGap, Segment, Seqs
<1>12. Sharing'
    <2>1. \A e, f \in log' : e.seq = f.seq /\ e # f => {e.id, f.id} \in raced'
        BY <1>6 DEF LogInv, Sharing
    <2>2. ASSUME NEW q \in Publisher
          PROVE  /\ \A e \in log' :
                       /\ \A f \in Mine(q)' : e.seq = f.seq => {e.id, f.id} \in raced'
                       /\ tx'[q].seq = e.seq => {e.id, tx'[q].event} \in raced'
                 /\ \A e \in Mine(q)' :
                       /\ tx'[q].seq # e.seq
                       /\ \A f \in Mine(q)' : e.seq = f.seq => e = f
        <3>1. CASE q = p
            <4>1. \A e \in Mine(q)' : e \in Mine(q) /\ e.seq # 0
                BY <1>1, <1>4, <3>1 DEF Event
            <4>2. \A e \in log' : e \in log /\ e.seq # 0
                BY <1>6, <1>8
            <4>3. tx'[q].seq = 0 /\ raced \subseteq raced'
                BY <1>4, <1>6, <3>1
            <4>4. /\ \A e \in log, f \in Mine(q) : e.seq = f.seq => {e.id, f.id} \in raced
                  /\ \A e, f \in Mine(q) : e.seq = f.seq => e = f
                BY DEF LogInv, Sharing
            <4> QED BY <4>1, <4>2, <4>3, <4>4
        <3>2. CASE q # p
            BY <1>4, <1>6, <3>2 DEF LogInv, Sharing
        <3> QED BY <3>1, <3>2
    <2>3. ASSUME NEW q \in Publisher, NEW r \in Publisher \ {q},
                 NEW a \in IdsOf(q)', NEW b \in IdsOf(r)'
          PROVE  a # b /\ {a, b} \in raced'
        <3>1. CASE a \in IdsOf(q) /\ b \in IdsOf(r)
            BY <1>6, <3>1 DEF LogInv, Sharing
        <3>2. CASE q = p /\ a = new
            BY <1>1, <1>4, <1>6, <1>7, <3>2
        <3>3. CASE r = p /\ b = new
            <4>1. a \in IdsOf(q) /\ q # p
                BY <1>4, <3>3
            <4>2. {new, a} \in raced'
                BY <1>6, <4>1
            <4>3. {new, a} = {a, b}
                BY <3>3
            <4>4. a \in Nat /\ a <= occurred /\ b = occurred + 1
                BY <1>7, <3>3, <4>1
            <4>5. a # b
                BY <1>1, <4>4
            <4> QED BY <4>2, <4>3, <4>5
        <3> QED BY <1>4, <1>5, <3>1, <3>2, <3>3
    <2> QED BY <2>1, <2>2, <2>3 DEF Sharing
<1> QED BY <1>9, <1>10, <1>11, <1>12 DEF LogInv

(* p reads the number after all it can see. *)
LEMMA ReadChange ==
    ASSUME LogInv, NEW p \in Publisher, ReadSequence(p)
    PROVE  /\ tx[p].event # 0 /\ tx' \in [Publisher -> Tx]
           /\ tx'[p].seq \in Nat \ {0} /\ Segment(Seqs(log \cup Mine(p)) \cup {tx'[p].seq})
           /\ \A e \in log \cup Mine(p) : e.seq < tx'[p].seq
           /\ \A q \in Publisher \ {p} : tx'[q] = tx[q]
           /\ \A q \in Publisher :
                 tx'[q].event = tx[q].event /\ Mine(q)' = Mine(q) /\ IdsOf(q)' = IdsOf(q)
           /\ log' = log /\ cycle' = cycle /\ occurred' = occurred /\ raced' = raced
<1> DEFINE number == NextSequence(log \cup ToSet(tx[p].stored))
           t == [tx[p] EXCEPT !.seq = number]
           S == Seqs(log \cup Mine(p))
<1>1. /\ tx[p] \in Tx /\ Mine(p) \subseteq Event /\ tx[p].event # 0 /\ tx[p].seq = 0
    BY MineAreEvents DEF LogInv, Shape, ReadSequence
<1>2. number = Max({0} \cup S) + 1 /\ Segment(S)
    BY DEF NextSequence, Mine, LogInv, NoGap
<1>3. number \in Nat \ {0} /\ Segment(S \cup {number}) /\ \A s \in S : s < number
    <2> DEFINE m == Max({0} \cup S)
    <2> HIDE DEF S, number
    <2>1. /\ m \in Nat /\ S = 1 .. m
          /\ \A s \in S : s < m + 1
          /\ Segment(S \cup {m + 1})
        BY <1>2, SegmentEnds
    <2>2. number = m + 1
        BY <1>2
    <2> HIDE DEF m
    <2>3. Segment(S \cup {number})
        BY <2>1, <2>2
    <2>4. number \in Nat \ {0} /\ \A s \in S : s < number
        BY <2>1, <2>2
    <2> QED BY <2>3, <2>4
<1> HIDE DEF number
<1>4. t = [event |-> tx[p].event, seq |-> number, stored |-> tx[p].stored] /\ t \in Tx
    BY <1>1, <1>3 DEF Tx
<1>5. tx' = [tx EXCEPT ![p] = t]
    BY DEF ReadSequence, number
<1> HIDE DEF t
<1>6. /\ tx' \in [Publisher -> Tx] /\ tx'[p].event = tx[p].event /\ tx'[p].seq = number
      /\ \A q \in Publisher \ {p} : tx'[q] = tx[q]
      /\ \A q \in Publisher : Mine(q)' = Mine(q) /\ IdsOf(q)' = IdsOf(q)
    BY <1>4, <1>5, TxChange DEF LogInv, Mine, IdsOf
<1>7. log' = log /\ cycle' = cycle /\ occurred' = occurred /\ raced' = raced
    BY DEF ReadSequence
<1>8. \A e \in log \cup Mine(p) : e.seq < number
    BY <1>3 DEF Seqs
<1> QED BY <1>1, <1>3, <1>6, <1>7, <1>8

LEMMA ReadKeeps ==
    ASSUME LogInv, NEW p \in Publisher, ReadSequence(p)
    PROVE  LogInv'
<1> DEFINE number == tx'[p].seq
           S == Seqs(log \cup Mine(p))
<1>3. number \in Nat \ {0} /\ Segment(S \cup {number})
    BY ReadChange
<1>6. /\ tx' \in [Publisher -> Tx] /\ tx'[p].event = tx[p].event
      /\ \A q \in Publisher \ {p} : tx'[q] = tx[q]
      /\ \A q \in Publisher : Mine(q)' = Mine(q) /\ IdsOf(q)' = IdsOf(q)
    BY ReadChange
<1>7. log' = log /\ cycle' = cycle /\ occurred' = occurred /\ raced' = raced
    BY ReadChange
<1>1. tx[p].event # 0 /\ Mine(p) \subseteq Event
    BY ReadChange, MineAreEvents DEF LogInv
<1>8. Shape'
    BY <1>1, <1>6, <1>7 DEF LogInv, Shape
<1>9. IdsOnce'
    <2>1. \A q \in Publisher : tx'[q].event = tx[q].event
        BY <1>6
    <2> QED BY <1>6, <1>7, <2>1 DEF LogInv, IdsOnce
<1>10. CycleKnowsLog' /\ Effects'
    BY <1>6, <1>7 DEF LogInv, CycleKnowsLog, Pending, Effects, EffectsOK
<1>11. NoGap'
    <2>1. \A q \in Publisher : Seqs(log \cup Mine(q))' = Seqs(log \cup Mine(q))
        BY <1>6, <1>7 DEF Seqs
    <2>2. Segment(Seqs(log))'
        BY <1>7 DEF LogInv, NoGap, Segment, Seqs
    <2>3. ASSUME NEW q \in Publisher
          PROVE  /\ Segment(Seqs(log \cup Mine(q))')
                 /\ tx'[q].seq # 0 => Segment(Seqs(log \cup Mine(q))' \cup {tx'[q].seq})
        BY <1>3, <1>6, <2>1 DEF LogInv, NoGap
    <2> QED BY <2>2, <2>3 DEF NoGap, Segment
<1>12. Sharing'
    <2>1. \A e \in log \cup Mine(p) : e.seq # number
        <3>1. \A e \in log \cup Mine(p) : e.seq < number /\ e.seq \in Nat
            BY <1>1, ReadChange DEF LogInv, Shape, Event
        <3> QED BY <1>3, <3>1
    <2>2. ASSUME NEW q \in Publisher
          PROVE  /\ \A e \in log :
                       /\ \A f \in Mine(q)' : e.seq = f.seq => {e.id, f.id} \in raced
                       /\ tx'[q].seq = e.seq => {e.id, tx'[q].event} \in raced
                 /\ \A e \in Mine(q)' :
                       /\ tx'[q].seq # e.seq
                       /\ \A f \in Mine(q)' : e.seq = f.seq => e = f
        <3>1. Mine(q)' = Mine(q)
            BY <1>6
        <3>2. CASE q = p
            <4>1. /\ \A e \in log, f \in Mine(p) : e.seq = f.seq => {e.id, f.id} \in raced
                  /\ \A e, f \in Mine(p) : e.seq = f.seq => e = f
                BY DEF LogInv, Sharing
            <4> QED BY <2>1, <3>1, <3>2, <4>1
        <3>3. CASE q # p
            BY <1>6, <3>1, <3>3 DEF LogInv, Sharing
        <3> QED BY <3>2, <3>3
    <2>3. \A e, f \in log : e.seq = f.seq /\ e # f => {e.id, f.id} \in raced
        BY DEF LogInv, Sharing
    <2>4. ASSUME NEW q \in Publisher, NEW r \in Publisher \ {q},
                 NEW a \in IdsOf(q)', NEW b \in IdsOf(r)'
          PROVE  a # b /\ {a, b} \in raced
        <3>1. a \in IdsOf(q) /\ b \in IdsOf(r)
            BY <1>6
        <3> QED BY <3>1 DEF LogInv, Sharing
    <2> QED BY <1>7, <2>2, <2>3, <2>4 DEF Sharing
<1> QED BY <1>8, <1>9, <1>10, <1>11, <1>12 DEF LogInv

(* The event p had at hand is stored, under the number it has read. *)
LEMMA PublishChange ==
    ASSUME LogInv, NEW p \in Publisher, Publish(p)
    PROVE  /\ tx[p] \in Tx /\ tx[p].seq # 0 /\ tx[p].event # 0 /\ Mine(p) \subseteq Event
           /\ tx' \in [Publisher -> Tx] /\ tx'[p].event = 0 /\ tx'[p].seq = 0
           /\ \E rec \in Event :
                 /\ rec.id = tx[p].event /\ rec.seq = tx[p].seq
                 /\ rec.status = "pending" /\ rec.effects = 0
                 /\ Mine(p)' = Mine(p) \cup {rec}
           /\ \A q \in Publisher \ {p} : tx'[q] = tx[q] /\ Mine(q)' = Mine(q)
           /\ \A q \in Publisher : IdsOf(q)' = IdsOf(q)
           /\ log' = log /\ cycle' = cycle /\ occurred' = occurred /\ raced' = raced
<1> DEFINE rec == [id |-> tx[p].event, seq |-> tx[p].seq,
                   status |-> "pending", effects |-> 0, turn |-> 0]
           t == [event |-> 0, seq |-> 0, stored |-> Append(tx[p].stored, rec)]
<1>1. /\ tx[p] \in Tx /\ tx[p].stored \in Seq(Event) /\ Mine(p) \subseteq Event
      /\ tx[p].seq # 0 /\ tx[p].event # 0 /\ tx[p].seq \in Nat /\ tx[p].event \in Nat
    BY MineAreEvents DEF LogInv, Shape, Publish, Tx
<1>2. /\ rec \in Event /\ rec.id = tx[p].event /\ rec.seq = tx[p].seq
      /\ rec.status = "pending" /\ rec.effects = 0
    BY <1>1 DEF Event
<1>3. tx' = [tx EXCEPT ![p] = t]
    BY DEF Publish
<1> HIDE DEF rec
<1>4. /\ t \in Tx /\ t.event = 0 /\ t.seq = 0 /\ ToSet(t.stored) = Mine(p) \cup {rec}
    BY <1>1, <1>2, StoredOneMore DEF Tx, Mine
<1> HIDE DEF t
<1>5. /\ tx' \in [Publisher -> Tx] /\ tx'[p] = t /\ Mine(p)' = ToSet(t.stored)
      /\ IdsOf(p)' = {e.id : e \in ToSet(t.stored)} \cup ({t.event} \ {0})
      /\ \A q \in Publisher \ {p} :
            tx'[q] = tx[q] /\ Mine(q)' = Mine(q) /\ IdsOf(q)' = IdsOf(q)
    BY <1>3, <1>4, TxChange DEF LogInv
<1>6. tx'[p].event = 0 /\ tx'[p].seq = 0 /\ Mine(p)' = Mine(p) \cup {rec}
    BY <1>4, <1>5
<1>7. \A q \in Publisher : IdsOf(q)' = IdsOf(q)
    <2>1. IdsOf(p)' = {e.id : e \in Mine(p)} \cup {rec.id}
        BY <1>4, <1>5
    <2>2. IdsOf(p) = {e.id : e \in Mine(p)} \cup {tx[p].event}
        BY <1>1 DEF IdsOf, Mine
    <2> QED BY <1>2, <1>5, <2>1, <2>2
<1>8. log' = log /\ cycle' = cycle /\ occurred' = occurred /\ raced' = raced
    BY DEF Publish
<1> QED BY <1>1, <1>2, <1>5, <1>6, <1>7, <1>8

LEMMA PublishKeeps ==
    ASSUME LogInv, NEW p \in Publisher, Publish(p)
    PROVE  LogInv'
<1>2. PICK rec \in Event : /\ rec.id = tx[p].event /\ rec.seq = tx[p].seq
                           /\ rec.status = "pending" /\ rec.effects = 0
                           /\ Mine(p)' = Mine(p) \cup {rec}
    BY PublishChange
<1>1. /\ tx[p] \in Tx /\ Mine(p) \subseteq Event
      /\ tx[p].seq # 0 /\ tx[p].event # 0 /\ tx[p].seq \in Nat /\ tx[p].event \in Nat
    BY PublishChange DEF Tx
<1>5. /\ tx' \in [Publisher -> Tx]
      /\ \A q \in Publisher \ {p} :
            tx'[q] = tx[q] /\ Mine(q)' = Mine(q) /\ IdsOf(q)' = IdsOf(q)
    BY PublishChange
<1>6. tx'[p].event = 0 /\ tx'[p].seq = 0 /\ Mine(p)' = Mine(p) \cup {rec}
    BY <1>2, PublishChange
<1>7. \A q \in Publisher : IdsOf(q)' = IdsOf(q)
    BY PublishChange
<1>8. log' = log /\ cycle' = cycle /\ occurred' = occurred /\ raced' = raced
    BY PublishChange
<1>9. Shape'
    BY <1>1, <1>5, <1>6, <1>8 DEF LogInv, Shape
<1>10. IdsOnce'
    <2>1. \A e \in Mine(p) : e.id # rec.id /\ rec.id # 0 /\ e.id # 0
        BY <1>1, <1>2 DEF LogInv, IdsOnce, Event
    <2>2. rec.id <= occurred /\ 0 <= occurred
        BY <1>1, <1>2 DEF LogInv, IdsOnce, Shape
    <2>3. ASSUME NEW q \in Publisher
          PROVE  /\ tx'[q].event <= occurred
                 /\ \A e \in Mine(q)' :
                       /\ e.id <= occurred /\ e.id # tx'[q].event
                       /\ \A f \in Mine(q)' : e.id = f.id => e = f
        <3>1. CASE q = p
            <4>1. \A e \in Mine(p) : /\ e.id <= occurred
                                     /\ \A f \in Mine(p) : e.id = f.id => e = f
                BY DEF LogInv, IdsOnce
            <4>2. \A e \in Mine(p) \cup {rec} : e.id <= occurred /\ e.id # 0
                BY <1>1, <1>2, <2>1, <2>2, <4>1
            <4>3. \A e, f \in Mine(p) \cup {rec} : e.id = f.id => e = f
                BY <2>1, <4>1
            <4> QED BY <1>6, <2>2, <3>1, <4>2, <4>3
        <3>2. CASE q # p
            BY <1>5, <3>2 DEF LogInv, IdsOnce
        <3> QED BY <3>1, <3>2
    <2> QED BY <1>7, <1>8, <2>3 DEF LogInv, IdsOnce
<1>11. CycleKnowsLog'
    BY <1>8 DEF LogInv, CycleKnowsLog, Pending
<1>12. Effects'
    <2>1. EffectsOK(rec)
        BY <1>2 DEF EffectsOK
    <2>2. \A q \in Publisher : \A e \in Mine(q)' : EffectsOK(e)
        BY <1>5, <1>6, <2>1 DEF LogInv, Effects
    <2> QED BY <1>8, <2>2 DEF LogInv, Effects, EffectsOK
<1>13. NoGap'
    <2>1. Seqs(log \cup Mine(p))' = Seqs(log \cup Mine(p)) \cup {rec.seq}
        BY <1>6, <1>8 DEF Seqs
    <2>2. Segment(Seqs(log \cup Mine(p)) \cup {rec.seq})
        BY <1>1, <1>2 DEF LogInv, NoGap
    <2>3. Segment(Seqs(log))'
        BY <1>8 DEF LogInv, NoGap, Segment, Seqs
    <2>4. ASSUME NEW q \in Publisher
          PROVE  /\ Segment(Seqs(log \cup Mine(q))')
                 /\ tx'[q].seq # 0 => Segment(Seqs(log \cup Mine(q))' \cup {tx'[q].seq})
        <3>1. CASE q = p
            BY <1>6, <2>1, <2>2, <3>1
        <3>2. CASE q # p
            <4>1. Seqs(log \cup Mine(q))' = Seqs(log \cup Mine(q)) /\ tx'[q] = tx[q]
                BY <1>5, <1>8, <3>2 DEF Seqs
            <4> QED BY <4>1 DEF LogInv, NoGap
        <3> QED BY <3>1, <3>2
    <2> QED BY <2>3, <2>4 DEF NoGap, Segment
<1>14. Sharing'
    <2>1. \A e \in log : e.seq = rec.seq => {e.id, rec.id} \in raced
        BY <1>2 DEF LogInv, Sharing
    <2>2. \A e \in Mine(p) : e.seq # rec.seq /\ e.seq # 0
        BY <1>1, <1>2 DEF LogInv, Sharing, Event
    <2>3. rec.seq # 0 /\ \A e \in log : e.seq # 0
        BY <1>1, <1>2 DEF LogInv, Shape, Event
    <2>4. ASSUME NEW q \in Publisher
          PROVE  /\ \A e \in log :
                       /\ \A f \in Mine(q)' : e.seq = f.seq => {e.id, f.id} \in raced
                       /\ tx'[q].seq = e.seq => {e.id, tx'[q].event} \in raced
                 /\ \A e \in Mine(q)' :
                       /\ tx'[q].seq # e.seq
                       /\ \A f \in Mine(q)' : e.seq = f.seq => e = f
        <3>1. CASE q = p
            BY <1>6, <2>1, <2>2, <2>3, <3>1 DEF LogInv, Sharing
        <3>2. CASE q # p
            BY <1>5, <3>2 DEF LogInv, Sharing
        <3> QED BY <3>1, <3>2
    <2> QED BY <1>7, <1>8, <2>4 DEF LogInv, Sharing
<1> QED BY <1>9, <1>10, <1>11, <1>12, <1>13, <1>14 DEF LogInv

(* A transaction that ends leaves nothing of its own. *)
LEMMA ClosedTx ==
    ASSUME Shape, NEW p \in Publisher, tx' = [tx EXCEPT ![p] = Closed]
    PROVE  /\ tx' \in [Publisher -> Tx] /\ tx'[p].event = 0 /\ tx'[p].seq = 0
           /\ Mine(p)' = {} /\ IdsOf(p)' = {}
           /\ \A q \in Publisher \ {p} :
                 tx'[q] = tx[q] /\ Mine(q)' = Mine(q) /\ IdsOf(q)' = IdsOf(q)
<1>1. Closed \in Tx /\ Closed.event = 0 /\ Closed.seq = 0 /\ ToSet(Closed.stored) = {}
    BY NothingStored DEF Closed, Tx
<1>2. /\ tx' \in [Publisher -> Tx] /\ tx'[p] = Closed /\ Mine(p)' = ToSet(Closed.stored)
      /\ IdsOf(p)' = {e.id : e \in ToSet(Closed.stored)} \cup ({Closed.event} \ {0})
      /\ \A q \in Publisher \ {p} :
            tx'[q] = tx[q] /\ Mine(q)' = Mine(q) /\ IdsOf(q)' = IdsOf(q)
    BY <1>1, TxChange
<1> QED BY <1>1, <1>2

LEMMA RollbackKeeps ==
    ASSUME LogInv, NEW p \in Publisher, Rollback(p)
    PROVE  LogInv'
<1>1. /\ tx' \in [Publisher -> Tx] /\ tx'[p].event = 0 /\ tx'[p].seq = 0
      /\ Mine(p)' = {} /\ IdsOf(p)' = {}
      /\ \A q \in Publisher \ {p} :
            tx'[q] = tx[q] /\ Mine(q)' = Mine(q) /\ IdsOf(q)' = IdsOf(q)
    BY ClosedTx DEF LogInv, Rollback
<1>2. log' = log /\ cycle' = cycle /\ occurred' = occurred /\ raced' = raced
    BY DEF Rollback
<1>3. \A e \in log : e.seq # 0
    BY DEF LogInv, Shape, Event
<1>4. Shape'
    BY <1>1, <1>2 DEF LogInv, Shape
<1>5. IdsOnce'
    <2>1. 0 <= occurred
        BY DEF LogInv, Shape
    <2>2. ASSUME NEW q \in Publisher
          PROVE  /\ tx'[q].event <= occurred
                 /\ \A e \in Mine(q)' :
                       /\ e.id <= occurred /\ e.id # tx'[q].event
                       /\ \A f \in Mine(q)' : e.id = f.id => e = f
                 /\ \A e \in log : e.id \notin IdsOf(q)'
        <3>1. CASE q = p
            BY <1>1, <2>1, <3>1
        <3>2. CASE q # p
            BY <1>1, <3>2 DEF LogInv, IdsOnce
        <3> QED BY <3>1, <3>2
    <2> QED BY <1>2, <2>2 DEF LogInv, IdsOnce
<1>6. CycleKnowsLog' /\ Effects'
    <2>1. \A q \in Publisher : Mine(q)' \subseteq Mine(q)
        BY <1>1
    <2> QED BY <1>2, <2>1 DEF LogInv, CycleKnowsLog, Pending, Effects, EffectsOK
<1>7. NoGap'
    <2>1. Segment(Seqs(log))'
        BY <1>2 DEF LogInv, NoGap, Segment, Seqs
    <2>2. ASSUME NEW q \in Publisher
          PROVE  /\ Segment(Seqs(log \cup Mine(q))')
                 /\ tx'[q].seq # 0 => Segment(Seqs(log \cup Mine(q))' \cup {tx'[q].seq})
        <3>1. CASE q = p
            <4>1. Seqs(log \cup Mine(q))' = Seqs(log)
                BY <1>1, <1>2, <3>1 DEF Seqs
            <4> QED BY <1>1, <3>1, <4>1 DEF LogInv, NoGap
        <3>2. CASE q # p
            <4>1. Seqs(log \cup Mine(q))' = Seqs(log \cup Mine(q)) /\ tx'[q] = tx[q]
                BY <1>1, <1>2, <3>2 DEF Seqs
            <4> QED BY <4>1 DEF LogInv, NoGap
        <3> QED BY <3>1, <3>2
    <2> QED BY <2>1, <2>2 DEF NoGap, Segment
<1>8. Sharing'
    <2>1. ASSUME NEW q \in Publisher
          PROVE  /\ \A e \in log :
                       /\ \A f \in Mine(q)' : e.seq = f.seq => {e.id, f.id} \in raced
                       /\ tx'[q].seq = e.seq => {e.id, tx'[q].event} \in raced
                 /\ \A e \in Mine(q)' :
                       /\ tx'[q].seq # e.seq
                       /\ \A f \in Mine(q)' : e.seq = f.seq => e = f
        <3>1. CASE q = p
            BY <1>1, <1>3, <3>1
        <3>2. CASE q # p
            BY <1>1, <3>2 DEF LogInv, Sharing
        <3> QED BY <3>1, <3>2
    <2>2. \A q \in Publisher : IdsOf(q)' \subseteq IdsOf(q)
        BY <1>1
    <2>3. \A q \in Publisher, r \in Publisher : r # q =>
              \A a \in IdsOf(q)', b \in IdsOf(r)' : a # b /\ {a, b} \in raced
        BY <2>2 DEF LogInv, Sharing
    <2> QED BY <1>2, <2>1, <2>3 DEF LogInv, Sharing
<1> QED BY <1>4, <1>5, <1>6, <1>7, <1>8 DEF LogInv

LEMMA CommitKeeps ==
    ASSUME LogInv, NEW p \in Publisher, Commit(p)
    PROVE  LogInv'
<1>1. /\ tx' \in [Publisher -> Tx] /\ tx'[p].event = 0 /\ tx'[p].seq = 0
      /\ Mine(p)' = {} /\ IdsOf(p)' = {}
      /\ \A q \in Publisher \ {p} :
            tx'[q] = tx[q] /\ Mine(q)' = Mine(q) /\ IdsOf(q)' = IdsOf(q)
    BY ClosedTx DEF LogInv, Commit
<1>2. /\ log' = log \cup Mine(p)
      /\ cycle' = cycle /\ occurred' = occurred /\ raced' = raced
    BY DEF Commit, Mine
<1>3. Mine(p) \subseteq Event /\ log \subseteq Event
    BY MineAreEvents DEF LogInv, Shape
<1>4. \A e \in log' : e.seq # 0
    BY <1>2, <1>3 DEF Event
<1>5. \A e \in Mine(p) : e.id \in IdsOf(p)
    BY DEF IdsOf, Mine
<1>6. Shape'
    BY <1>1, <1>2, <1>3 DEF LogInv, Shape
<1>7. IdsOnce'
    <2>1. \A e \in log' : e.id <= occurred'
        BY <1>2 DEF LogInv, IdsOnce
    <2>2. \A e, f \in log' : e.id = f.id => e = f
        BY <1>2, <1>5 DEF LogInv, IdsOnce
    <2>3. 0 <= occurred
        BY DEF LogInv, Shape
    <2>4. ASSUME NEW q \in Publisher
          PROVE  /\ tx'[q].event <= occurred
                 /\ \A e \in Mine(q)' :
                       /\ e.id <= occurred /\ e.id # tx'[q].event
                       /\ \A f \in Mine(q)' : e.id = f.id => e = f
                 /\ \A e \in log' : e.id \notin IdsOf(q)'
        <3>1. CASE q = p
            BY <1>1, <2>3, <3>1
        <3>2. CASE q # p
            <4>1. \A e \in Mine(p) : e.id \notin IdsOf(q)
                BY <1>5, <3>2 DEF LogInv, Sharing
            <4> QED BY <1>1, <1>2, <3>2, <4>1 DEF LogInv, IdsOnce
        <3> QED BY <3>1, <3>2
    <2> QED BY <1>2, <2>1, <2>2, <2>4 DEF IdsOnce
<1>8. CycleKnowsLog'
    BY <1>2 DEF LogInv, CycleKnowsLog, Pending
<1>9. Effects'
    <2>1. \A q \in Publisher : Mine(q)' \subseteq Mine(q)
        BY <1>1
    <2> QED BY <1>2, <2>1 DEF LogInv, Effects, EffectsOK
<1>10. NoGap'
    <2>1. Seqs(log)' = Seqs(log \cup Mine(p)) /\ Segment(Seqs(log \cup Mine(p)))
        BY <1>2 DEF LogInv, NoGap, Seqs
    <2>2. ASSUME NEW q \in Publisher
          PROVE  /\ Segment(Seqs(log \cup Mine(q))')
                 /\ tx'[q].seq # 0 => Segment(Seqs(log \cup Mine(q))' \cup {tx'[q].seq})
        <3>1. CASE q = p
            <4>1. Seqs(log \cup Mine(q))' = Seqs(log \cup Mine(p))
                BY <1>1, <1>2, <3>1 DEF Seqs
            <4> QED BY <1>1, <2>1, <3>1, <4>1
        <3>2. CASE q # p
            <4> DEFINE A == Seqs(log \cup Mine(p))
                       B == Seqs(log \cup Mine(q))
                       k == tx[q].seq
            <4>1. Seqs(log \cup Mine(q))' = A \cup B /\ tx'[q] = tx[q]
                BY <1>1, <1>2, <3>2 DEF Seqs
            <4>2. Segment(A) /\ Segment(B) /\ (k # 0 => Segment(B \cup {k}))
                BY DEF LogInv, NoGap
            <4> HIDE DEF A, B
            <4>3. (A \cup B) \cup {k} = A \cup (B \cup {k})
                OBVIOUS
            <4>4. Segment(A \cup B) /\ (k # 0 => Segment((A \cup B) \cup {k}))
                BY <4>2, <4>3, SegmentsUnite
            <4> QED BY <4>1, <4>4
        <3> QED BY <3>1, <3>2
    <2> QED BY <2>1, <2>2 DEF NoGap, Segment
<1>11. Sharing'
    <2>1. \A e, f \in log' : e.seq = f.seq /\ e # f => {e.id, f.id} \in raced
        <3>1. \A e \in log, f \in Mine(p) : e.seq = f.seq => {e.id, f.id} \in raced
            BY DEF LogInv, Sharing
        <3>2. \A e \in Mine(p), f \in log : e.seq = f.seq => {e.id, f.id} \in raced
            <4>1. \A a, b : {a, b} = {b, a}
                OBVIOUS
            <4> QED BY <3>1, <4>1
        <3>3. \A e, f \in Mine(p) : e.seq = f.seq => e = f
            BY DEF LogInv, Sharing
        <3> QED BY <1>2, <3>1, <3>2, <3>3 DEF LogInv, Sharing
    <2>2. ASSUME NEW q \in Publisher
          PROVE  /\ \A e \in log' :
                       /\ \A f \in Mine(q)' : e.seq = f.seq => {e.id, f.id} \in raced
                       /\ tx'[q].seq = e.seq => {e.id, tx'[q].event} \in raced
                 /\ \A e \in Mine(q)' :
                       /\ tx'[q].seq # e.seq
                       /\ \A f \in Mine(q)' : e.seq = f.seq => e = f
        <3>1. CASE q = p
            BY <1>1, <1>4, <3>1
        <3>2. CASE q # p
            <4>1. \A e \in Mine(p), f \in Mine(q) : {e.id, f.id} \in raced
                <5>1. \A f \in Mine(q) : f.id \in IdsOf(q)
                    BY DEF IdsOf, Mine
                <5> QED BY <1>5, <3>2, <5>1 DEF LogInv, Sharing
            <4>2. \A e \in Mine(p) : tx[q].seq = e.seq => {e.id, tx[q].event} \in raced
                <5>1. ASSUME NEW e \in Mine(p), tx[q].seq = e.seq
                      PROVE  {e.id, tx[q].event} \in raced
                    <6>1. tx[q].event # 0
                        BY <1>2, <1>4, <5>1 DEF LogInv, Shape
                    <6>2. tx[q].event \in IdsOf(q)
                        BY <6>1 DEF IdsOf
                    <6> QED BY <1>5, <3>2, <6>2 DEF LogInv, Sharing
                <5> QED BY <5>1
            <4>3. tx'[q] = tx[q] /\ Mine(q)' = Mine(q)
                BY <1>1, <3>2
            <4>4. /\ \A e \in log :
                        /\ \A f \in Mine(q) : e.seq = f.seq => {e.id, f.id} \in raced
                        /\ tx[q].seq = e.seq => {e.id, tx[q].event} \in raced
                  /\ \A e \in Mine(q) :
                        /\ tx[q].seq # e.seq
                        /\ \A f \in Mine(q) : e.seq = f.seq => e = f
                BY DEF LogInv, Sharing
            <4>5. log' = log \cup Mine(p) /\ raced' = raced
                BY <1>2
            <4> QED BY <4>1, <4>2, <4>3, <4>4, <4>5
        <3> QED BY <3>1, <3>2
    <2>3. \A q \in Publisher, r \in Publisher : r # q =>
              \A a \in IdsOf(q)', b \in IdsOf(r)' : a # b /\ {a, b} \in raced
        <3>1. \A q \in Publisher : IdsOf(q)' \subseteq IdsOf(q)
            BY <1>1
        <3> QED BY <3>1 DEF LogInv, Sharing
    <2> QED BY <1>2, <2>1, <2>2, <2>3 DEF Sharing
<1> QED BY <1>6, <1>7, <1>8, <1>9, <1>10, <1>11 DEF LogInv

(* A step of the worker that leaves the log and the transactions alone need  *)
(* only keep what is said of the cycle.                                      *)
LEMMA CycleStep ==
    ASSUME LogInv, UNCHANGED <<log, tx, occurred, raced>>,
           cycle' \in Cycle, CycleKnowsLog', \A d \in cycle'.done : EffectsOK(d)
    PROVE  LogInv'
<1>1. Shape' /\ IdsOnce'
    BY DEF LogInv, Shape, IdsOnce, Mine, IdsOf
<1>2. NoGap' /\ Sharing'
    <2>1. NoGap /\ Sharing
        BY DEF LogInv
    <2>2. NoGap'
        BY <2>1 DEF NoGap, Mine, Segment, Seqs
    <2>3. \A p \in Publisher : Mine(p)' = Mine(p) /\ IdsOf(p)' = IdsOf(p) /\ tx'[p] = tx[p]
        BY DEF Mine, IdsOf
    <2>4. Sharing'
        BY <2>1, <2>3 DEF Sharing
    <2> QED BY <2>2, <2>4
<1>3. Effects'
    BY DEF LogInv, Effects, EffectsOK, Mine
<1> QED BY <1>1, <1>2, <1>3 DEF LogInv

LEMMA AsleepIsCycle ==
    Asleep \in Cycle /\ Asleep.todo = {} /\ Asleep.done = {}
BY DEF Asleep, Cycle

LEMMA PollKeeps ==
    ASSUME LogInv, Poll
    PROVE  LogInv'
<1> DEFINE batch == {e \in Pending : Cardinality({f \in Pending : f.id < e.id}) < BatchSize}
<1>1. batch \subseteq Pending /\ Pending \subseteq Event
    BY DEF Pending, LogInv, Shape
<1>2. cycle' = [phase |-> "events", todo |-> batch, done |-> {}, finished |-> <<>>, turn |-> 0,
                aborted |-> FALSE]
    BY DEF Poll, Asleep
<1>3. UNCHANGED <<log, tx, occurred, raced>>
    BY DEF Poll
<1> HIDE DEF batch
<1>4. cycle' \in Cycle /\ cycle'.todo = batch /\ cycle'.done = {}
    BY <1>1, <1>2 DEF Cycle
<1>5. CycleKnowsLog'
    BY <1>1, <1>3, <1>4 DEF CycleKnowsLog, Pending
<1> QED BY <1>3, <1>4, <1>5, CycleStep

LEMMA CycleFailsKeeps ==
    ASSUME LogInv, CycleFails
    PROVE  LogInv'
<1>1. cycle' = Asleep /\ UNCHANGED <<log, tx, occurred, raced>>
    BY DEF CycleFails
<1>2. CycleKnowsLog'
    BY <1>1, AsleepIsCycle DEF CycleKnowsLog
<1> QED BY <1>1, <1>2, AsleepIsCycle, CycleStep

(* Any number of runs counts every handler, those of "*" at least once.      *)
LEMMA RunsCover ==
    ASSUME cycle \in Cycle
    PROVE  /\ Runs \in Nat /\ Runs >= Handlers + Wildcards
           /\ cycle.turn = 0 => Runs = Handlers + Wildcards
<1> DEFINE t == cycle.turn
<1>1. t \in Nat /\ Handlers \in Nat /\ Wildcards \in Nat
    BY SizesOK DEF Cycle
<1> HIDE DEF t
<1>2. (t + 1) * Wildcards = t * Wildcards + Wildcards
    BY <1>1
<1>3. t * Wildcards \in Nat
    BY <1>1
<1>4. t = 0 => t * Wildcards = 0
    BY <1>1
<1>5. Runs = Handlers + (t + 1) * Wildcards
    BY DEF Runs, t
<1> DEFINE product == t * Wildcards
<1>6. product \in Nat /\ (t = 0 => product = 0)
    BY <1>3, <1>4
<1>7. Runs = Handlers + (product + Wildcards)
    BY <1>2, <1>5
<1> HIDE DEF product
<1>8. Runs \in Nat /\ Runs >= Handlers + Wildcards
    BY <1>1, <1>6, <1>7
<1>9. t = 0 => Runs = Handlers + Wildcards
    BY <1>1, <1>6, <1>7
<1> QED BY <1>8, <1>9 DEF t

(* One event less to do, and possibly one more done. *)
LEMMA DispatchedKeeps ==
    ASSUME LogInv, NEW e \in cycle.todo, NEW aborted \in BOOLEAN, NEW marked \in SUBSET Event,
           \A d \in marked : d.id = e.id /\ d.seq = e.seq /\ EffectsOK(d),
           \A d, f \in marked : d = f,
           Dispatched(e, marked, aborted)
    PROVE  LogInv'
<1>1. /\ cycle \in Cycle /\ cycle.todo \subseteq log /\ log \subseteq Event
      /\ cycle.todo \subseteq Event /\ cycle.done \subseteq Event /\ cycle.turn \in Nat
    BY DEF LogInv, Shape, CycleKnowsLog, Pending, Cycle
<1>2. UNCHANGED <<log, tx, occurred, raced>>
    BY DEF Dispatched
<1> DEFINE ids == IF \E d \in marked : d.status = "processed"
                  THEN Append(cycle.finished, e.id) ELSE cycle.finished
<1>3. cycle' = [phase |-> cycle.phase, todo |-> cycle.todo \ {e}, done |-> cycle.done \cup marked,
                finished |-> ids, turn |-> cycle.turn + 1, aborted |-> aborted]
    BY <1>1 DEF Dispatched, Cycle
<1>4. /\ cycle' \in Cycle
      /\ cycle'.todo = cycle.todo \ {e} /\ cycle'.done = cycle.done \cup marked
    <2>1. ids \in Seq(Nat)
        BY <1>1 DEF Cycle, Event
    <2> HIDE DEF ids
    <2> QED BY <1>1, <1>3, <2>1 DEF Cycle
<1>5. \A f \in cycle.todo \ {e} : f.id # e.id
    BY <1>1 DEF LogInv, IdsOnce
<1>6. \A d \in cycle.done : d.id # e.id
    BY DEF LogInv, CycleKnowsLog
<1>7. CycleKnowsLog'
    <2>1. cycle'.todo \subseteq Pending'
        BY <1>2, <1>4 DEF LogInv, CycleKnowsLog, Pending
    <2>2. ASSUME NEW d \in cycle'.done
          PROVE  /\ \E c \in log' : c.id = d.id /\ c.seq = d.seq
                 /\ \A f \in cycle'.todo : f.id # d.id
                 /\ \A f \in cycle'.done : f.id = d.id => d = f
        <3>1. CASE d \in cycle.done
            BY <1>2, <1>4, <1>6, <3>1 DEF LogInv, CycleKnowsLog
        <3>2. CASE d \in marked
            <4>1. d.id = e.id /\ d.seq = e.seq
                BY <3>2
            <4>2. \A f \in cycle'.done : f.id = d.id => d = f
                BY <1>4, <1>6, <3>2, <4>1
            <4> QED BY <1>1, <1>2, <1>4, <1>5, <4>1, <4>2
        <3> QED BY <1>4, <3>1, <3>2
    <2> QED BY <2>1, <2>2 DEF CycleKnowsLog
<1>8. \A d \in cycle'.done : EffectsOK(d)
    BY <1>4 DEF LogInv, Effects
<1> QED BY <1>2, <1>4, <1>7, <1>8, CycleStep

LEMMA MarkedEvent ==
    ASSUME cycle \in Cycle, NEW e \in Event, e.effects = 0, NEW n \in Nat,
           NEW status \in {"processed", "failed"}
    PROVE  /\ Marked(e, status, n) \in Event
           /\ Marked(e, status, n).id = e.id /\ Marked(e, status, n).seq = e.seq
           /\ Marked(e, status, n).status = status /\ Marked(e, status, n).effects = n
           /\ Marked(e, status, n).turn = cycle.turn + 1
<1> DEFINE turn == cycle.turn + 1
<1>1. turn \in Nat
    BY DEF Cycle
<1>2. e.effects + n = n
    OBVIOUS
<1>3. e = [id |-> e.id, seq |-> e.seq, status |-> e.status, effects |-> e.effects,
           turn |-> e.turn]
    BY DEF Event
<1> HIDE DEF turn
<1>4. Marked(e, status, n)
        = [id |-> e.id, seq |-> e.seq, status |-> status, effects |-> e.effects + n, turn |-> turn]
    <2> DEFINE b == [e EXCEPT !.status = status]
               c == [b EXCEPT !.effects = b.effects + n]
    <2>1. b = [id |-> e.id, seq |-> e.seq, status |-> status, effects |-> e.effects,
               turn |-> e.turn]
        BY <1>3
    <2>2. Marked(e, status, n) = [c EXCEPT !.turn = turn]
        BY DEF Marked, turn
    <2> HIDE DEF b
    <2>3. c = [id |-> e.id, seq |-> e.seq, status |-> status, effects |-> e.effects + n,
               turn |-> e.turn]
        BY <2>1
    <2> HIDE DEF c
    <2> QED BY <2>2, <2>3
<1>5. Marked(e, status, n)
        = [id |-> e.id, seq |-> e.seq, status |-> status, effects |-> n, turn |-> turn]
    BY <1>2, <1>4
<1>6. e.id \in Nat \ {0} /\ e.seq \in Nat \ {0}
    BY DEF Event
<1>7. Marked(e, status, n) \in Event
    BY <1>1, <1>5, <1>6 DEF Event
<1> QED BY <1>5, <1>7 DEF turn

LEMMA DispatchKeeps ==
    ASSUME LogInv, Dispatch
    PROVE  LogInv'
<1>1. cycle \in Cycle /\ cycle.turn \in Nat /\ cycle.todo \subseteq Event
    BY DEF LogInv, Shape, Cycle
<1>2. PICK e \in cycle.todo :
          \/ Dispatched(e, {Marked(e, "processed", Runs)}, FALSE)
          \/ \E n \in 0 .. Runs - 1 :
                Dispatched(e, {Marked(e, "failed", n)}, FALSE)
          \/ Dispatched(e, {}, TRUE)
    BY DEF Dispatch
<1>3. e \in Event /\ e.status = "pending" /\ e.effects = 0
    BY <1>1, <1>2 DEF LogInv, CycleKnowsLog, Pending, Effects, EffectsOK
<1> DEFINE turn == cycle.turn + 1
<1>4. /\ Runs \in Nat /\ Runs >= Handlers + Wildcards
      /\ turn = 1 => Runs = Handlers + Wildcards
    BY <1>1, RunsCover
<1>5. turn \in Nat /\ (turn > 1 \/ turn = 1) /\ Handlers + Wildcards \in Nat
    BY <1>1, SizesOK
<1>6. ASSUME NEW d \in Event, d.id = e.id, d.seq = e.seq, EffectsOK(d), Dispatched(e, {d}, FALSE)
      PROVE  LogInv'
    <2>1. /\ {d} \in SUBSET Event /\ FALSE \in BOOLEAN
          /\ \A x \in {d} : x.id = e.id /\ x.seq = e.seq /\ EffectsOK(x)
          /\ \A x, y \in {d} : x = y
        BY <1>6
    <2> QED BY <1>6, <2>1, DispatchedKeeps
<1>7. CASE Dispatched(e, {Marked(e, "processed", Runs)}, FALSE)
    <2> DEFINE d == Marked(e, "processed", Runs)
    <2>1. Dispatched(e, {d}, FALSE)
        BY <1>7
    <2>2. /\ d \in Event /\ d.id = e.id /\ d.seq = e.seq
          /\ d.status = "processed" /\ d.effects = Runs /\ d.turn = turn
        BY <1>1, <1>3, <1>4, MarkedEvent
    <2> HIDE DEF d, turn
    <2>3. EffectsOK(d)
        BY <1>4, <1>5, <2>2 DEF EffectsOK
    <2> QED BY <1>6, <2>1, <2>2, <2>3
<1>8. ASSUME NEW n \in 0 .. Runs - 1,
             Dispatched(e, {Marked(e, "failed", n)}, FALSE)
      PROVE  LogInv'
    <2> DEFINE d == Marked(e, "failed", n)
    <2>1. n \in Nat /\ n < Runs
        BY <1>4
    <2>2. Dispatched(e, {d}, FALSE)
        BY <1>8
    <2>3. /\ d \in Event /\ d.id = e.id /\ d.seq = e.seq
          /\ d.status = "failed" /\ d.effects = n /\ d.turn = turn
        BY <1>1, <1>3, <2>1, MarkedEvent
    <2> HIDE DEF d, turn
    <2>4. EffectsOK(d)
        BY <1>4, <2>1, <2>3 DEF EffectsOK
    <2> QED BY <1>6, <2>2, <2>3, <2>4
<1>9. CASE Dispatched(e, {}, TRUE)
    <2>1. /\ {} \in SUBSET Event /\ TRUE \in BOOLEAN
          /\ \A x \in {} : x.id = e.id /\ x.seq = e.seq /\ EffectsOK(x)
          /\ \A x, y \in {} : x = y
        OBVIOUS
    <2> QED BY <1>9, <2>1, DispatchedKeeps
<1> QED BY <1>2, <1>7, <1>8, <1>9

(* The log after a cycle has committed: the same events, under their numbers. *)
LEMMA CommittedLog ==
    ASSUME LogInv, CycleCommits
    PROVE  /\ \A e \in log' : \E c \in log : c.id = e.id /\ c.seq = e.seq
           /\ \A c \in log : \E e \in log' : c.id = e.id /\ c.seq = e.seq
           /\ \A e, f \in log' : e.id = f.id => e = f
<1> DEFINE done == cycle.done
<1>1. log' = {e \in log : \A d \in done : d.id # e.id} \cup done
    BY DEF CycleCommits
<1>2. \A d \in done : /\ \E c \in log : c.id = d.id /\ c.seq = d.seq
                     /\ \A f \in done : f.id = d.id => d = f
    BY DEF LogInv, CycleKnowsLog
<1> HIDE DEF done
<1>3. \A e \in log' : \E c \in log : c.id = e.id /\ c.seq = e.seq
    BY <1>1, <1>2
<1>4. \A c \in log : \E e \in log' : c.id = e.id /\ c.seq = e.seq
    <2> TAKE c \in log
    <2>1. CASE \A d \in done : d.id # c.id
        BY <1>1, <2>1
    <2>2. CASE \E d \in done : d.id = c.id
        <3>1. PICK d \in done : d.id = c.id
            BY <2>2
        <3>2. PICK b \in log : b.id = d.id /\ b.seq = d.seq
            BY <1>2
        <3>3. b = c
            BY <3>1, <3>2 DEF LogInv, IdsOnce
        <3> QED BY <1>1, <3>1, <3>2, <3>3
    <2> QED BY <2>1, <2>2
<1>5. \A e, f \in log' : e.id = f.id => e = f
    <2>1. \A e, f \in log : e.id = f.id => e = f
        BY DEF LogInv, IdsOnce
    <2> QED BY <1>1, <1>2, <2>1
<1> QED BY <1>3, <1>4, <1>5

(* What the cycle handled takes the place of what it was: the log holds the  *)
(* same ids under the same numbers as before.                                *)
LEMMA CycleCommitsKeeps ==
    ASSUME LogInv, CycleCommits
    PROVE  LogInv'
<1> DEFINE done == cycle.done
<1>1. /\ log' = {e \in log : \A d \in done : d.id # e.id} \cup done
      /\ cycle' = Asleep /\ UNCHANGED <<tx, occurred, raced>>
    BY DEF CycleCommits
<1>2. done \subseteq Event /\ log \subseteq Event
    BY DEF LogInv, Shape, Cycle
<1> HIDE DEF done
<1>4. \A e \in log' : \E c \in log : c.id = e.id /\ c.seq = e.seq
    BY CommittedLog
<1>5. \A c \in log : \E e \in log' : c.id = e.id /\ c.seq = e.seq
    BY CommittedLog
<1>6. \A e, f \in log' : e.id = f.id => e = f
    BY CommittedLog
<1>7. \A p \in Publisher : Mine(p)' = Mine(p) /\ IdsOf(p)' = IdsOf(p) /\ tx'[p] = tx[p]
    BY <1>1 DEF Mine, IdsOf
<1>8. Shape'
    BY <1>1, <1>2, AsleepIsCycle DEF LogInv, Shape
<1>9. IdsOnce'
    BY <1>1, <1>4, <1>6, <1>7 DEF LogInv, IdsOnce
<1>10. CycleKnowsLog'
    BY <1>1, AsleepIsCycle DEF CycleKnowsLog
<1>11. Effects'
    <2>1. \A e \in log' : EffectsOK(e)
        BY <1>1 DEF LogInv, Effects, done
    <2>2. \A p \in Publisher : \A e \in Mine(p)' : EffectsOK(e)
        BY <1>7 DEF LogInv, Effects
    <2>3. \A e \in cycle'.done : EffectsOK(e)
        BY <1>1, AsleepIsCycle
    <2> QED BY <2>1, <2>2, <2>3 DEF Effects, EffectsOK
<1>12. NoGap'
    <2>1. Seqs(log)' = Seqs(log)
        BY <1>4, <1>5 DEF Seqs
    <2>2. ASSUME NEW p \in Publisher
          PROVE  Seqs(log \cup Mine(p))' = Seqs(log \cup Mine(p))
        <3>1. Seqs(log \cup Mine(p))' = Seqs(log)' \cup Seqs(Mine(p))
            BY <1>7 DEF Seqs
        <3> QED BY <2>1, <3>1 DEF Seqs
    <2>3. Segment(Seqs(log)')
        BY <2>1 DEF LogInv, NoGap
    <2>4. \A p \in Publisher :
              /\ Segment(Seqs(log \cup Mine(p))')
              /\ tx'[p].seq # 0 => Segment(Seqs(log \cup Mine(p))' \cup {tx'[p].seq})
        BY <1>7, <2>2 DEF LogInv, NoGap
    <2> QED BY <2>3, <2>4 DEF NoGap, Segment
<1>13. Sharing'
    <2>1. ASSUME NEW e \in log', NEW f \in log', e.seq = f.seq, e # f
          PROVE  {e.id, f.id} \in raced
        <3>1. PICK b \in log : b.id = e.id /\ b.seq = e.seq
            BY <1>4
        <3>2. PICK c \in log : c.id = f.id /\ c.seq = f.seq
            BY <1>4
        <3>3. b # c
            BY <1>6, <2>1, <3>1, <3>2
        <3>4. {b.id, c.id} \in raced
            BY <2>1, <3>1, <3>2, <3>3 DEF LogInv, Sharing
        <3> QED BY <3>1, <3>2, <3>4
    <2>2. ASSUME NEW p \in Publisher, NEW e \in log'
          PROVE  /\ \A f \in Mine(p) : e.seq = f.seq => {e.id, f.id} \in raced
                 /\ tx[p].seq = e.seq => {e.id, tx[p].event} \in raced
        <3>1. PICK c \in log : c.id = e.id /\ c.seq = e.seq
            BY <1>4
        <3>2. /\ \A f \in Mine(p) : c.seq = f.seq => {c.id, f.id} \in raced
              /\ tx[p].seq = c.seq => {c.id, tx[p].event} \in raced
            BY DEF LogInv, Sharing
        <3> QED BY <3>1, <3>2
    <2> QED BY <1>1, <1>7, <2>1, <2>2 DEF LogInv, Sharing
<1> QED BY <1>8, <1>9, <1>10, <1>11, <1>12, <1>13 DEF LogInv

LEMMA LogInvInit ==
    ASSUME Init
    PROVE  LogInv
<1>1. /\ log = {} /\ occurred = 0 /\ cycle = Asleep /\ raced = {}
      /\ tx = [p \in Publisher |-> Closed]
    BY DEF Init
<1>2. Closed \in Tx /\ Closed.event = 0 /\ Closed.seq = 0 /\ ToSet(Closed.stored) = {}
    BY NothingStored DEF Closed, Tx
<1>3. \A p \in Publisher : tx[p].event = 0 /\ tx[p].seq = 0 /\ Mine(p) = {} /\ IdsOf(p) = {}
    BY <1>1, <1>2 DEF Mine, IdsOf
<1>4. Shape
    BY <1>1, <1>2, AsleepIsCycle DEF Shape
<1>5. IdsOnce /\ Sharing /\ Effects
    BY <1>1, <1>3, AsleepIsCycle DEF IdsOnce, Sharing, Effects
<1>6. CycleKnowsLog
    BY <1>1, AsleepIsCycle DEF CycleKnowsLog
<1>7. NoGap
    <2>1. Seqs({}) = 1 .. 0 /\ {} \cup {} = {}
        BY DEF Seqs
    <2>2. Segment(Seqs({}))
        BY <2>1 DEF Segment
    <2> QED BY <1>1, <1>3, <2>1, <2>2 DEF NoGap
<1> QED BY <1>4, <1>5, <1>6, <1>7 DEF LogInv

LEMMA LogInvNext ==
    ASSUME LogInv, [Next]_vars
    PROVE  LogInv'
<1>1. ASSUME NEW p \in Publisher,
             Occur(p) \/ ReadSequence(p) \/ Publish(p) \/ Commit(p) \/ Rollback(p)
      PROVE  LogInv'
    BY <1>1, OccurKeeps, ReadKeeps, PublishKeeps, CommitKeeps, RollbackKeeps
<1>2. CASE Poll \/ Dispatch \/ CycleCommits \/ CycleFails
    BY <1>2, PollKeeps, DispatchKeeps, CycleCommitsKeeps, CycleFailsKeeps
<1>3. CASE (\E from \in 1 .. 2 : Validate(from)) \/ ReplayPending \/ ReplayEvents
    <2>1. UNCHANGED <<log, tx, occurred, cycle, raced>>
        BY <1>3 DEF Validate, ReplayPending, ReplayEvents
    <2> QED BY <2>1, QuietStep
<1>4. CASE UNCHANGED vars
    <2>1. UNCHANGED <<log, tx, occurred, cycle, raced>>
        BY <1>4 DEF vars
    <2> QED BY <2>1, QuietStep
<1> QED BY <1>1, <1>2, <1>3, <1>4 DEF Next

(* What the log, the transactions and the cycle keep to, in every run of the *)
(* event store: EventBus.publish and process_pending, in open transactions.  *)
THEOREM LogInvariant == Spec => []LogInv
<1>1. Init => LogInv
    BY LogInvInit
<1>2. LogInv /\ [Next]_vars => LogInv'
    BY LogInvNext
<1> QED BY <1>1, <1>2, PTL DEF Spec

(* EventBus.publish takes the maximum it can see plus one: whatever          *)
(* interleaves, the committed numbers have no gap, and only transactions     *)
(* that were open together can have stored one number twice.                 *)
THEOREM NumbersAreTold == Spec => []NumbersTellEvents
<1>1. LogInv => NumbersTellEvents
    <2> SUFFICES ASSUME LogInv
                 PROVE  NumbersTellEvents
        OBVIOUS
    <2>1. Segment(Seqs(log))
        BY DEF LogInv, NoGap
    <2>2. Seqs(log) = 1 .. Max({0} \cup Seqs(log))
        BY <2>1, SegmentEnds
    <2> QED BY <2>2 DEF NumbersTellEvents, LogInv, Sharing
<1> QED BY <1>1, LogInvariant, PTL

(* EventBus.dispatch marks an event in the transaction its handlers run in:  *)
(* what the status of an event says of them is true, after any rollbacks.    *)
THEOREM StatusTellsEffects == Spec => []EffectsFollowStatus
<1>1. LogInv => EffectsFollowStatus
    <2> SUFFICES ASSUME LogInv, NEW e \in log
                 PROVE  LET once == Handlers + Wildcards
                        IN  CASE e.status = "processed" -> /\ e.effects >= once
                                                           /\ e.effects > once => e.turn > 1
                              [] e.status = "pending"   -> e.effects = 0
                              [] e.status = "failed"    -> e.turn = 1 => e.effects < once
        BY DEF EffectsFollowStatus
    <2>1. e.status \in {"pending", "processed", "failed"} /\ EffectsOK(e)
        BY DEF LogInv, Shape, Event, Effects
    <2> QED BY <2>1 DEF EffectsOK
<1> QED BY <1>1, LogInvariant, PTL

-----------------------------------------------------------------------------
LEMMA Swap == ASSUME NEW a, NEW b PROVE {a, b} = {b, a}
OBVIOUS

(* Shapes that the proofs below need again and again. *)
LEMMA EventShapes ==
    ASSUME LogInv
    PROVE  /\ \A e \in log : e.id \in Nat /\ e.id <= occurred /\ e.seq \in Nat \ {0}
           /\ \A p \in Publisher :
                 /\ tx[p].event \in Nat /\ tx[p].seq \in Nat
                 /\ \A e \in Mine(p) : /\ e.id \in Nat /\ e.id <= occurred
                                        /\ e.seq \in Nat \ {0} /\ e.id \in IdsOf(p)
                 /\ \A a \in IdsOf(p) : a \in Nat /\ a <= occurred
                 /\ tx[p].event # 0 => tx[p].event \in IdsOf(p)
                 /\ tx[p].event = 0 => tx[p].seq = 0
<1>1. \A e \in log : e.id \in Nat /\ e.id <= occurred /\ e.seq \in Nat \ {0}
    BY DEF LogInv, Shape, IdsOnce, Event
<1>2. ASSUME NEW p \in Publisher
      PROVE  /\ tx[p].event \in Nat /\ tx[p].seq \in Nat
             /\ \A e \in Mine(p) : /\ e.id \in Nat /\ e.id <= occurred
                                    /\ e.seq \in Nat \ {0} /\ e.id \in IdsOf(p)
             /\ \A a \in IdsOf(p) : a \in Nat /\ a <= occurred
             /\ tx[p].event # 0 => tx[p].event \in IdsOf(p)
             /\ tx[p].event = 0 => tx[p].seq = 0
    <2>1. tx[p] \in Tx /\ Mine(p) \subseteq Event
        BY MineAreEvents DEF LogInv
    <2>2. /\ tx[p].event <= occurred /\ \A e \in Mine(p) : e.id <= occurred
          /\ tx[p].event = 0 => tx[p].seq = 0
        BY DEF LogInv, IdsOnce, Shape
    <2>3. \A e \in Mine(p) : e.id \in Nat /\ e.seq \in Nat \ {0}
        BY <2>1 DEF Event
    <2>4. tx[p].event \in Nat /\ tx[p].seq \in Nat
        BY <2>1 DEF Tx
    <2>5. IdsOf(p) = {e.id : e \in Mine(p)} \cup ({tx[p].event} \ {0})
        BY DEF IdsOf, Mine
    <2> QED BY <2>2, <2>3, <2>4, <2>5
<1> QED BY <1>1, <1>2

(* Nothing but the publishers' own steps can disturb the order of numbers.    *)
LEMMA NumberedQuiet ==
    ASSUME Numbered, UNCHANGED <<log, tx, raced>>
    PROVE  Numbered'
<1>1. \A p \in Publisher : Mine(p)' = Mine(p) /\ IdsOf(p)' = IdsOf(p)
    BY DEF Mine, IdsOf
<1> QED BY <1>1 DEF Numbered, InOrder, Precedes

LEMMA OccurNumbers ==
    ASSUME LogInv, Numbered, NEW p \in Publisher, Occur(p)
    PROVE  Numbered'
<1> DEFINE new == occurred + 1
<1>1. /\ occurred \in Nat /\ tx[p].event = 0 /\ tx[p].seq = 0
      /\ tx'[p].event = new /\ tx'[p].seq = 0
      /\ Mine(p)' = Mine(p) /\ IdsOf(p)' = IdsOf(p) \cup {new}
      /\ \A q \in Publisher \ {p} :
            tx'[q] = tx[q] /\ Mine(q)' = Mine(q) /\ IdsOf(q)' = IdsOf(q)
      /\ log' = log /\ raced \subseteq raced'
    BY OccurChange
<1> HIDE DEF new
<1>2. new = occurred + 1
    BY DEF new
<1>3. \A e, f \in log' : e.id < f.id => e.seq < f.seq \/ {e.id, f.id} \in raced'
    BY <1>1 DEF Numbered
<1>4. ASSUME NEW q \in Publisher
      PROVE  InOrder(q)'
    <2>1. CASE q = p
        <3>1. \A e \in Mine(p) : e.id < new
            BY <1>1, <1>2, EventShapes
        <3> QED BY <1>1, <2>1, <3>1 DEF Numbered, InOrder
    <2>2. CASE q # p
        BY <1>1, <2>2 DEF Numbered, InOrder
    <2> QED BY <2>1, <2>2
<1>5. ASSUME NEW q \in Publisher, NEW e \in log
      PROVE  Precedes(e, q)'
    <2>1. CASE q = p
        <3>1. ~(new < e.id)
            BY <1>1, <1>2, EventShapes
        <3> QED BY <1>1, <2>1, <3>1 DEF Numbered, Precedes
    <2>2. CASE q # p
        BY <1>1, <2>2 DEF Numbered, Precedes
    <2> QED BY <2>1, <2>2
<1> QED BY <1>1, <1>3, <1>4, <1>5 DEF Numbered

LEMMA ReadNumbers ==
    ASSUME LogInv, Numbered, NEW p \in Publisher, ReadSequence(p)
    PROVE  Numbered'
<1>1. /\ \A e \in log \cup Mine(p) : e.seq < tx'[p].seq
      /\ \A q \in Publisher \ {p} : tx'[q] = tx[q]
      /\ \A q \in Publisher :
            tx'[q].event = tx[q].event /\ Mine(q)' = Mine(q) /\ IdsOf(q)' = IdsOf(q)
      /\ log' = log /\ raced' = raced
    BY ReadChange
<1>2. ASSUME NEW q \in Publisher
      PROVE  InOrder(q)'
    BY <1>1 DEF Numbered, InOrder
<1>3. ASSUME NEW q \in Publisher, NEW e \in log
      PROVE  Precedes(e, q)'
    BY <1>1 DEF Numbered, Precedes
<1>4. \A e, f \in log : e.id < f.id => e.seq < f.seq \/ {e.id, f.id} \in raced
    BY DEF Numbered
<1> QED BY <1>1, <1>2, <1>3, <1>4 DEF Numbered

LEMMA PublishNumbers ==
    ASSUME LogInv, Numbered, NEW p \in Publisher, Publish(p)
    PROVE  Numbered'
<1>1. PICK rec \in Event : /\ rec.id = tx[p].event /\ rec.seq = tx[p].seq
                           /\ Mine(p)' = Mine(p) \cup {rec}
    BY PublishChange
<1>2. /\ tx[p].seq # 0 /\ tx[p].event # 0 /\ tx'[p].event = 0 /\ tx'[p].seq = 0
      /\ \A q \in Publisher \ {p} : tx'[q] = tx[q] /\ Mine(q)' = Mine(q)
      /\ \A q \in Publisher : IdsOf(q)' = IdsOf(q)
      /\ log' = log /\ raced' = raced
    BY PublishChange
<1>3. ASSUME NEW q \in Publisher
      PROVE  InOrder(q)'
    <2>1. CASE q = p
        <3>1. \A e \in Mine(p) : e.id < rec.id /\ e.seq < rec.seq /\ e.id \in Nat
            BY <1>1, <1>2, EventShapes DEF Numbered, InOrder
        <3>2. \A e, f \in Mine(p) : e.id < f.id => e.seq < f.seq
            BY DEF Numbered, InOrder
        <3>3. rec.id \in Nat
            BY DEF Event
        <3>4. \A e, f \in Mine(p) \cup {rec} : e.id < f.id => e.seq < f.seq
            BY <3>1, <3>2, <3>3
        <3> QED BY <1>1, <1>2, <2>1, <3>4 DEF InOrder
    <2>2. CASE q # p
        BY <1>2, <2>2 DEF Numbered, InOrder
    <2> QED BY <2>1, <2>2
<1>4. ASSUME NEW q \in Publisher, NEW e \in log
      PROVE  Precedes(e, q)'
    <2>1. CASE q = p
        BY <1>1, <1>2, <2>1 DEF Numbered, Precedes
    <2>2. CASE q # p
        BY <1>2, <2>2 DEF Numbered, Precedes
    <2> QED BY <2>1, <2>2
<1>5. \A e, f \in log : e.id < f.id => e.seq < f.seq \/ {e.id, f.id} \in raced
    BY DEF Numbered
<1> QED BY <1>2, <1>3, <1>4, <1>5 DEF Numbered

LEMMA RollbackNumbers ==
    ASSUME LogInv, Numbered, NEW p \in Publisher, Rollback(p)
    PROVE  Numbered'
<1>1. /\ tx'[p].event = 0 /\ tx'[p].seq = 0 /\ Mine(p)' = {} /\ IdsOf(p)' = {}
      /\ \A q \in Publisher \ {p} :
            tx'[q] = tx[q] /\ Mine(q)' = Mine(q) /\ IdsOf(q)' = IdsOf(q)
    BY ClosedTx DEF LogInv, Rollback
<1>2. log' = log /\ raced' = raced
    BY DEF Rollback
<1>3. ASSUME NEW q \in Publisher
      PROVE  InOrder(q)' /\ \A e \in log : Precedes(e, q)'
    <2>1. CASE q = p
        BY <1>1, <2>1 DEF InOrder, Precedes
    <2>2. CASE q # p
        BY <1>1, <1>2, <2>2 DEF Numbered, InOrder, Precedes
    <2> QED BY <2>1, <2>2
<1>4. \A e, f \in log : e.id < f.id => e.seq < f.seq \/ {e.id, f.id} \in raced
    BY DEF Numbered
<1> QED BY <1>2, <1>3, <1>4 DEF Numbered

(* What p commits joins the log: each of its events has raced with those of   *)
(* the transactions still open, and comes after the log it could see.        *)
LEMMA CommitNumbers ==
    ASSUME LogInv, Numbered, NEW p \in Publisher, Commit(p)
    PROVE  Numbered'
<1>1. /\ tx'[p].event = 0 /\ tx'[p].seq = 0 /\ Mine(p)' = {} /\ IdsOf(p)' = {}
      /\ \A q \in Publisher \ {p} :
            tx'[q] = tx[q] /\ Mine(q)' = Mine(q) /\ IdsOf(q)' = IdsOf(q)
    BY ClosedTx DEF LogInv, Commit
<1>2. log' = log \cup Mine(p) /\ raced' = raced
    BY DEF Commit, Mine
<1>3. \A e \in Mine(p) : e.id \in IdsOf(p)
    BY EventShapes
<1>4. ASSUME NEW e \in log', NEW f \in log', e.id < f.id
      PROVE  e.seq < f.seq \/ {e.id, f.id} \in raced
    <2>1. CASE e \in log /\ f \in log
        BY <1>4, <2>1 DEF Numbered
    <2>2. CASE e \in Mine(p) /\ f \in Mine(p)
        BY <1>4, <2>2 DEF Numbered, InOrder
    <2>3. CASE e \in log /\ f \in Mine(p)
        BY <2>3 DEF Numbered, Precedes
    <2>4. CASE e \in Mine(p) /\ f \in log
        <3>1. {f.id, e.id} \in raced
            BY <1>3, <1>4, <2>4 DEF Numbered, Precedes
        <3> QED BY <3>1, Swap
    <2> QED BY <1>2, <2>1, <2>2, <2>3, <2>4
<1>5. ASSUME NEW q \in Publisher
      PROVE  InOrder(q)'
    <2>1. CASE q = p
        BY <1>1, <2>1 DEF InOrder
    <2>2. CASE q # p
        BY <1>1, <2>2 DEF Numbered, InOrder
    <2> QED BY <2>1, <2>2
<1>6. ASSUME NEW q \in Publisher, NEW e \in log'
      PROVE  Precedes(e, q)'
    <2>1. CASE q = p
        BY <1>1, <2>1 DEF Precedes
    <2>2. CASE q # p /\ e \in log
        BY <1>1, <1>2, <2>2 DEF Numbered, Precedes
    <2>3. CASE q # p /\ e \in Mine(p)
        <3>1. \A b \in IdsOf(q) : {e.id, b} \in raced
            BY <1>3, <2>3 DEF LogInv, Sharing
        <3>2. /\ \A f \in Mine(q) : f.id \in IdsOf(q)
              /\ tx[q].seq # 0 => tx[q].event \in IdsOf(q)
            BY EventShapes
        <3> QED BY <1>1, <1>2, <2>3, <3>1, <3>2 DEF Precedes
    <2> QED BY <1>2, <2>1, <2>2, <2>3
<1> QED BY <1>2, <1>4, <1>5, <1>6 DEF Numbered

LEMMA CycleNumbers ==
    ASSUME LogInv, Numbered, CycleCommits
    PROVE  Numbered'
<1>1. UNCHANGED <<tx, raced>>
    BY DEF CycleCommits
<1>2. \A p \in Publisher : Mine(p)' = Mine(p) /\ IdsOf(p)' = IdsOf(p) /\ tx'[p] = tx[p]
    BY <1>1 DEF Mine, IdsOf
<1>3. ASSUME NEW e \in log', NEW f \in log', e.id < f.id
      PROVE  e.seq < f.seq \/ {e.id, f.id} \in raced
    <2>1. PICK b \in log : b.id = e.id /\ b.seq = e.seq
        BY CommittedLog
    <2>2. PICK c \in log : c.id = f.id /\ c.seq = f.seq
        BY CommittedLog
    <2>3. b.seq < c.seq \/ {b.id, c.id} \in raced
        BY <1>3, <2>1, <2>2 DEF Numbered
    <2> QED BY <2>1, <2>2, <2>3
<1>4. ASSUME NEW p \in Publisher
      PROVE  InOrder(p)'
    BY <1>2 DEF Numbered, InOrder
<1>5. ASSUME NEW p \in Publisher, NEW e \in log'
      PROVE  Precedes(e, p)'
    <2>1. PICK b \in log : b.id = e.id /\ b.seq = e.seq
        BY CommittedLog
    <2>2. Precedes(b, p)
        BY DEF Numbered
    <2> QED BY <1>1, <1>2, <2>1, <2>2 DEF Precedes
<1> QED BY <1>1, <1>3, <1>4, <1>5 DEF Numbered

(* A step that leaves log, cycle and history alone keeps what is said of the  *)
(* handling; more races do not harm.                                         *)
LEMMA HandlingQuiet ==
    ASSUME Batch, Handling, Finite, UNCHANGED <<log, cycle, handled>>, raced \subseteq raced'
    PROVE  Batch' /\ Handling' /\ Finite'
<1>1. Pending' = Pending /\ \A e : Taken(e)' <=> Taken(e)
    BY DEF Pending, Taken
<1>2. Batch'
    BY <1>1 DEF Batch
<1>3. Handling'
    BY <1>1 DEF Handling
<1>4. Finite'
    BY DEF Finite
<1> QED BY <1>2, <1>3, <1>4

LEMMA CommitHandles ==
    ASSUME LogInv, OrderInv, NEW p \in Publisher, Commit(p)
    PROVE  Batch' /\ Handling' /\ Finite'
<1>1. /\ log' = log \cup Mine(p)
      /\ cycle' = cycle /\ raced' = raced /\ handled' = handled
    BY DEF Commit, Mine
<1>2. Pending' \subseteq Pending \cup Mine(p) /\ \A e : Taken(e)' <=> Taken(e)
    BY <1>1 DEF Pending, Taken
<1>3. ASSUME NEW e \in log, NEW f \in Mine(p), f.id < e.id
      PROVE  {e.id, f.id} \in raced
    BY <1>3, EventShapes DEF OrderInv, Numbered, Precedes
<1>4. \A d \in cycle.done \cup cycle.todo : \E e \in log : e.id = d.id
    BY DEF LogInv, CycleKnowsLog, Pending
<1>5. Batch'
    <2>1. ASSUME NEW d \in cycle.done \cup cycle.todo, NEW f \in Mine(p), f.id < d.id
          PROVE  {d.id, f.id} \in raced
        BY <1>3, <1>4, <2>1
    <2>2. Pending \subseteq Pending'
        BY <1>1 DEF Pending
    <2> QED BY <1>1, <1>2, <2>1, <2>2 DEF OrderInv, Batch
<1>6. Handling'
    <2>1. ASSUME NEW i \in DOMAIN handled
          PROVE  /\ \E e \in log' : e.id = handled[i] /\ e.status = "processed"
                 /\ \A f \in Pending' : f.id < handled[i] => {handled[i], f.id} \in raced
        <3>1. PICK e \in log : e.id = handled[i] /\ e.status = "processed"
            BY DEF OrderInv, Handling
        <3>2. \A f \in Pending : f.id < handled[i] => {handled[i], f.id} \in raced
            BY DEF OrderInv, Handling
        <3> QED BY <1>1, <1>2, <1>3, <3>1, <3>2
    <2> QED BY <1>1, <2>1 DEF OrderInv, Handling
<1>7. Finite'
    <2>1. tx[p].stored \in Seq(Event)
        BY MineAreEvents DEF LogInv
    <2>2. IsFiniteSet(Mine(p))
        <3> DEFINE stored == tx[p].stored
        <3>1. IsFiniteSet(1 .. Len(stored)) /\ DOMAIN stored = 1 .. Len(stored)
            BY <2>1, FS_Interval
        <3>2. Mine(p) = {stored[n] : n \in 1 .. Len(stored)}
            BY <3>1 DEF Mine, ToSet
        <3>3. stored \in [1 .. Len(stored) -> Mine(p)]
            BY <2>1, <3>1, <3>2
        <3> HIDE DEF stored
        <3>4. stored \in Surjection(1 .. Len(stored), Mine(p))
            BY <3>2, <3>3 DEF Surjection
        <3> QED BY <3>1, <3>4, FS_Surjection
    <2> QED BY <1>1, <2>2, FS_Union DEF OrderInv, Finite
<1> QED BY <1>5, <1>6, <1>7

(* A cycle that is asleep has taken nothing. *)
LEMMA AsleepHandles ==
    ASSUME OrderInv, cycle' = Asleep, UNCHANGED <<log, handled, raced>>
    PROVE  Batch' /\ Handling' /\ Finite'
<1>1. /\ Asleep.todo = {} /\ Asleep.done = {} /\ Asleep.finished = <<>>
      /\ DOMAIN Asleep.finished = {}
    BY DEF Asleep
<1>2. Pending' = Pending
    BY DEF Pending
<1>3. Batch'
    BY <1>1 DEF Batch
<1>4. Handling'
    BY <1>2 DEF OrderInv, Handling
<1>5. Finite'
    BY <1>1, FS_EmptySet DEF OrderInv, Finite
<1> QED BY <1>3, <1>4, <1>5

(* list_pending takes the lowest ids there are: whoever is before one of the  *)
(* batch is in it.                                                           *)
LEMMA PollHandles ==
    ASSUME LogInv, OrderInv, Poll
    PROVE  Batch' /\ Handling' /\ Finite'
<1> DEFINE Lower(e) == {f \in Pending : f.id < e.id}
           batch == {e \in Pending : Cardinality(Lower(e)) < BatchSize}
<1>1. UNCHANGED <<log, tx, occurred, raced, handled>>
    BY DEF Poll
<1>2. /\ cycle'.todo = batch /\ cycle'.done = {} /\ cycle'.finished = <<>>
      /\ DOMAIN cycle'.finished = {}
    BY DEF Poll, Asleep
<1>3. ASSUME NEW e \in batch, NEW f \in Pending, f.id < e.id
      PROVE  f \in batch
    <2>1. e \in log /\ f \in log /\ IsFiniteSet(Pending)
        BY FS_Subset DEF Pending, OrderInv, Finite
    <2>2. \A g \in Pending : g.id \in Nat
        BY EventShapes DEF Pending
    <2>3. Lower(f) \subseteq Lower(e) /\ IsFiniteSet(Lower(e)) /\ e \in Pending
        BY <1>3, <2>1, <2>2, FS_Subset
    <2>4. Cardinality(Lower(f)) <= Cardinality(Lower(e)) /\ Cardinality(Lower(e)) < BatchSize
        BY <2>3, FS_Subset
    <2>5. Cardinality(Lower(f)) \in Nat /\ Cardinality(Lower(e)) \in Nat
        BY <2>3, FS_Subset, FS_CardinalityType
    <2>6. Cardinality(Lower(f)) < BatchSize
        BY <2>4, <2>5, SizesOK
    <2> QED BY <2>6
<1>4. Pending' = Pending
    BY <1>1 DEF Pending
<1> HIDE DEF batch
<1>5. Batch'
    BY <1>2, <1>3, <1>4 DEF Batch, Taken
<1>6. Handling'
    BY <1>1, <1>4 DEF OrderInv, Handling
<1>7. Finite'
    BY <1>1, <1>2, FS_EmptySet DEF OrderInv, Finite
<1> QED BY <1>5, <1>6, <1>7

(* The event dispatched, still the lowest of the batch, moves from what is to *)
(* do to what is done; an aborted cycle may lose it.                         *)
LEMMA DispatchedHandles ==
    ASSUME LogInv, OrderInv, NEW e \in cycle.todo, IsNext(e), ~cycle.aborted,
           NEW d \in Event, d.id = e.id, d.status \in {"processed", "failed"},
           Dispatched(e, {d}, FALSE)
    PROVE  Batch' /\ Handling' /\ Finite'
<1> DEFINE old == cycle.finished
           ids == IF d.status = "processed" THEN Append(old, e.id) ELSE old
<1>1. cycle \in Cycle /\ cycle.todo \subseteq log
    BY DEF LogInv, Shape, CycleKnowsLog, Pending
<1>2. UNCHANGED <<log, raced, handled>>
    BY DEF Dispatched
<1>3. /\ cycle'.todo = cycle.todo \ {e} /\ cycle'.done = cycle.done \cup {d}
      /\ cycle'.finished = ids
    BY <1>1 DEF Dispatched, Cycle
<1>4. old \in Seq(Nat) /\ \A f \in cycle.todo : f.id \in Nat
    BY <1>1, EventShapes DEF Cycle
<1>5. \A f \in cycle.todo \ {e} : e.id < f.id
    <2>1. \A f \in cycle.todo : e.id <= f.id /\ (f.id = e.id => f = e)
        BY <1>1 DEF IsNext, LogInv, IdsOnce
    <2> QED BY <1>4, <2>1
<1>6. Pending' = Pending /\ \A f : Taken(f) => Taken(f)'
    <2>1. Pending' = Pending
        BY <1>2 DEF Pending
    <2>2. \A f : Taken(f) => Taken(f)'
        BY <1>3 DEF Taken
    <2> QED BY <2>1, <2>2
<1>7. /\ \A i \in DOMAIN old : \E c \in cycle.done : c.status = "processed" /\ c.id = old[i]
      /\ \A i, j \in DOMAIN old : i < j => old[i] < old[j]
      /\ \A c \in cycle.done : /\ c.status # "pending" /\ \E f \in Pending : f.id = c.id
                               /\ \A f \in cycle.todo : c.id < f.id
      /\ \A c \in cycle.done \cup cycle.todo, f \in Pending :
              f.id < c.id => Taken(f) \/ {c.id, f.id} \in raced
    BY DEF OrderInv, Batch
<1>8. /\ \A i \in DOMAIN ids : \E c \in cycle'.done : c.status = "processed" /\ c.id = ids[i]
      /\ \A i, j \in DOMAIN ids : i < j => ids[i] < ids[j]
    <2>1. CASE d.status = "processed"
        <3>1. /\ ids = Append(old, e.id) /\ e.id \in Nat
              /\ DOMAIN old = 1 .. Len(old) /\ DOMAIN ids = 1 .. Len(old) + 1 /\ Len(old) \in Nat
              /\ ids[Len(old) + 1] = e.id /\ \A i \in 1 .. Len(old) : ids[i] = old[i]
            BY <1>4, <2>1
        <3> HIDE DEF ids
        <3>2. \A i \in DOMAIN old : old[i] < e.id
            BY <1>7
        <3>3. \A i \in DOMAIN ids : i \in DOMAIN old \/ i = Len(old) + 1
            BY <3>1
        <3>4. ASSUME NEW i \in DOMAIN ids
              PROVE  \E c \in cycle'.done : c.status = "processed" /\ c.id = ids[i]
            <4>1. CASE i \in DOMAIN old
                BY <1>3, <1>7, <3>1, <4>1
            <4>2. CASE i = Len(old) + 1
                BY <1>3, <2>1, <3>1, <4>2
            <4> QED BY <3>3, <4>1, <4>2
        <3>5. ASSUME NEW i \in DOMAIN ids, NEW j \in DOMAIN ids, i < j
              PROVE  ids[i] < ids[j]
            <4>1. i \in DOMAIN old
                BY <3>1, <3>5
            <4>2. CASE j \in DOMAIN old
                BY <1>7, <3>1, <3>5, <4>1, <4>2
            <4>3. CASE j = Len(old) + 1
                BY <3>1, <3>2, <4>1, <4>3
            <4> QED BY <3>3, <4>2, <4>3
        <3> QED BY <3>4, <3>5
    <2>2. CASE d.status # "processed"
        BY <1>3, <1>7, <2>2
    <2> QED BY <2>1, <2>2
<1> HIDE DEF ids
<1>9. \A c \in cycle'.done : /\ c.status # "pending" /\ \E f \in Pending : f.id = c.id
                             /\ \A f \in cycle'.todo : c.id < f.id
    <2>1. e \in Pending
        BY DEF LogInv, CycleKnowsLog
    <2> QED BY <1>3, <1>5, <1>7, <2>1
<1>10. ASSUME NEW c \in cycle'.done \cup cycle'.todo, NEW f \in Pending, f.id < c.id
       PROVE  Taken(f)' \/ {c.id, f.id} \in raced
    <2>1. \E b \in cycle.done \cup cycle.todo : b.id = c.id
        BY <1>3
    <2> QED BY <1>6, <1>7, <1>10, <2>1
<1>11. Batch'
    BY <1>2, <1>3, <1>6, <1>8, <1>9, <1>10 DEF Batch
<1>12. Handling'
    BY <1>2, <1>6 DEF OrderInv, Handling
<1>13. Finite'
    <2>1. IsFiniteSet(log) /\ IsFiniteSet(cycle.done)
        BY DEF OrderInv, Finite
    <2>2. IsFiniteSet(cycle.done \cup {d})
        BY <2>1, FS_AddElement
    <2> QED BY <1>2, <1>3, <2>1, <2>2 DEF Finite
<1> QED BY <1>11, <1>12, <1>13

LEMMA DispatchHandles ==
    ASSUME LogInv, OrderInv, Dispatch
    PROVE  Batch' /\ Handling' /\ Finite'
<1>1. cycle \in Cycle /\ cycle.todo \subseteq Event
    BY DEF LogInv, Shape, Cycle
<1>2. PICK e \in cycle.todo :
          /\ IsNext(e)
          /\ \/ ~cycle.aborted /\ Dispatched(e, {Marked(e, "processed", Runs)}, FALSE)
             \/ /\ ~cycle.aborted
                /\ \E n \in 0 .. Runs - 1 : Dispatched(e, {Marked(e, "failed", n)}, FALSE)
             \/ Dispatched(e, {}, TRUE)
    BY DEF Dispatch
<1>3. e \in Event /\ e.effects = 0 /\ Runs \in Nat
    BY <1>1, <1>2, RunsCover DEF LogInv, CycleKnowsLog, Pending, Effects, EffectsOK
<1>4. ASSUME ~cycle.aborted, NEW n \in Nat, NEW status \in {"processed", "failed"},
             Dispatched(e, {Marked(e, status, n)}, FALSE)
      PROVE  Batch' /\ Handling' /\ Finite'
    <2> DEFINE d == Marked(e, status, n)
    <2>1. d \in Event /\ d.id = e.id /\ d.status = status
        BY <1>1, <1>3, MarkedEvent
    <2>2. Dispatched(e, {d}, FALSE)
        BY <1>4
    <2> HIDE DEF d
    <2> QED BY <1>2, <1>4, <2>1, <2>2, DispatchedHandles
<1>5. CASE Dispatched(e, {}, TRUE)
    <2>1. UNCHANGED <<log, raced, handled>>
        BY <1>5 DEF Dispatched
    <2>2. cycle'.aborted /\ cycle'.done = cycle.done
        BY <1>1, <1>5 DEF Dispatched, Cycle
    <2>3. Pending' = Pending
        BY <2>1 DEF Pending
    <2> QED BY <2>1, <2>2, <2>3 DEF OrderInv, Batch, Handling, Finite
<1>6. \A n \in 0 .. Runs - 1 : n \in Nat
    BY <1>3
<1> QED BY <1>2, <1>3, <1>4, <1>5, <1>6

(* What the cycle has finished joins the history, after all that was handled  *)
(* before it and was its elder or has raced with it.                         *)
LEMMA CycleCommitsHandles ==
    ASSUME LogInv, OrderInv, CycleCommits
    PROVE  Batch' /\ Handling' /\ Finite'
<1> DEFINE done == cycle.done
           new == cycle.finished
<1>1. /\ log' = {e \in log : \A d \in done : d.id # e.id} \cup done
      /\ handled' = handled \o new /\ cycle' = Asleep /\ raced' = raced
      /\ cycle.todo = {} /\ ~cycle.aborted
    BY DEF CycleCommits
<1>2. /\ \A i \in DOMAIN new : \E d \in done : d.status = "processed" /\ d.id = new[i]
      /\ \A i, j \in DOMAIN new : i < j => new[i] < new[j]
      /\ \A d \in done : d.status # "pending"
      /\ \A d \in done, f \in Pending :
            f.id < d.id => (\E c \in done : c.id = f.id) \/ {d.id, f.id} \in raced
    BY <1>1 DEF OrderInv, Batch, Taken
<1>3. /\ handled \in Seq(Nat)
      /\ \A i \in DOMAIN handled :
            /\ \E e \in log : e.id = handled[i] /\ e.status = "processed"
            /\ \A f \in Pending : f.id < handled[i] => {handled[i], f.id} \in raced
      /\ \A i, j \in DOMAIN handled : i < j =>
            \/ handled[i] < handled[j]
            \/ handled[i] # handled[j] /\ {handled[i], handled[j]} \in raced
    BY DEF OrderInv, Handling
<1>4. \A d \in done : d.id \in Nat /\ \E c \in Pending : c.id = d.id
    BY <1>1, EventShapes DEF OrderInv, Batch, Pending
<1>5. new \in Seq(Nat)
    BY DEF LogInv, Shape, Cycle
<1> DEFINE m == Len(handled)
           n == Len(new)
<1>6. /\ m \in Nat /\ DOMAIN handled = 1 .. m /\ n \in Nat /\ DOMAIN new = 1 .. n
      /\ handled' \in Seq(Nat) /\ DOMAIN handled' = 1 .. m + n
      /\ \A i \in 1 .. m : handled'[i] = handled[i] /\ handled[i] \in Nat
      /\ \A i \in m + 1 .. m + n : i - m \in 1 .. n /\ handled'[i] = new[i - m]
    BY <1>1, <1>3, <1>5
<1> HIDE DEF done, new, m, n
<1>7. \A i \in DOMAIN handled' : i \in 1 .. m \/ i \in m + 1 .. m + n
    BY <1>6
<1>8. \A f \in Pending' : f \in Pending /\ \A c \in done : c.id # f.id
    BY <1>1, <1>2 DEF Pending
<1>9. ASSUME NEW i \in DOMAIN handled'
      PROVE  /\ \E e \in log' : e.id = handled'[i] /\ e.status = "processed"
             /\ \A f \in Pending' : f.id < handled'[i] => {handled'[i], f.id} \in raced
    <2>1. CASE i \in 1 .. m
        <3>1. PICK e \in log : e.id = handled[i] /\ e.status = "processed"
            BY <1>3, <1>6, <2>1
        <3>2. \A d \in done : d.id # e.id
            BY <1>4, <3>1 DEF Pending, LogInv, IdsOnce
        <3> QED BY <1>1, <1>3, <1>6, <1>8, <2>1, <3>1, <3>2
    <2>2. CASE i \in m + 1 .. m + n
        <3>1. PICK d \in done : d.status = "processed" /\ d.id = new[i - m]
            BY <1>2, <1>6, <2>2
        <3> QED BY <1>1, <1>2, <1>6, <1>8, <2>2, <3>1
    <2> QED BY <1>7, <2>1, <2>2
<1>10. ASSUME NEW i \in DOMAIN handled', NEW j \in DOMAIN handled', i < j
       PROVE  \/ handled'[i] < handled'[j]
              \/ handled'[i] # handled'[j] /\ {handled'[i], handled'[j]} \in raced
    <2>1. CASE j \in 1 .. m
        <3>1. i \in 1 .. m
            BY <1>6, <1>10, <2>1
        <3> QED BY <1>3, <1>6, <1>10, <2>1, <3>1
    <2>2. CASE i \in m + 1 .. m + n
        <3>1. j \in m + 1 .. m + n /\ i - m \in 1 .. n /\ j - m \in 1 .. n /\ i - m < j - m
            <4>1. m \in Nat /\ n \in Nat /\ j \in 1 .. m + n
                BY <1>6
            <4>2. i < j
                BY <1>10
            <4> QED BY <2>2, <4>1, <4>2
        <3>2. new[i - m] < new[j - m]
            BY <1>2, <1>6, <3>1
        <3> QED BY <1>6, <2>2, <3>1, <3>2
    <2>3. CASE i \in 1 .. m /\ j \in m + 1 .. m + n
        <3>1. PICK d \in done : d.status = "processed" /\ d.id = new[j - m]
            BY <1>2, <1>6, <2>3
        <3>2. PICK c \in Pending : c.id = d.id
            BY <1>4
        <3>3. PICK e \in log : e.id = handled[i] /\ e.status = "processed"
            BY <1>3, <1>6, <2>3
        <3>4. e.id # c.id /\ c.id \in Nat /\ e.id \in Nat
            BY <3>2, <3>3, EventShapes DEF Pending, LogInv, IdsOnce
        <3>5. c.id < e.id => {e.id, c.id} \in raced
            BY <1>3, <1>6, <2>3, <3>3
        <3>6. handled'[i] = e.id /\ handled'[j] = c.id
            BY <1>6, <2>3, <3>1, <3>2, <3>3
        <3> QED BY <3>4, <3>5, <3>6
    <2> QED BY <1>7, <2>1, <2>2, <2>3
<1>11. Handling'
    BY <1>1, <1>6, <1>9, <1>10 DEF Handling
<1>12. /\ Asleep.todo = {} /\ Asleep.done = {} /\ DOMAIN Asleep.finished = {}
    BY DEF Asleep
<1>13. Batch'
    BY <1>1, <1>12 DEF Batch
<1>14. Finite'
    <2>1. IsFiniteSet({e \in log : \A d \in done : d.id # e.id}) /\ IsFiniteSet(done)
        BY FS_Subset DEF OrderInv, Finite, done
    <2>2. IsFiniteSet(log')
        BY <1>1, <2>1, FS_Union
    <2> QED BY <1>1, <1>12, <2>2, FS_EmptySet DEF Finite
<1> QED BY <1>11, <1>13, <1>14

LEMMA OrderInvInit ==
    ASSUME Init
    PROVE  OrderInv
<1>1. /\ log = {} /\ cycle = Asleep /\ handled = <<>>
      /\ tx = [p \in Publisher |-> Closed]
    BY DEF Init
<1>2. \A p \in Publisher : tx[p].event = 0 /\ tx[p].seq = 0 /\ Mine(p) = {}
    BY <1>1, NothingStored DEF Mine, Closed
<1>3. Asleep.todo = {} /\ Asleep.done = {} /\ DOMAIN Asleep.finished = {}
    BY DEF Asleep
<1>4. Numbered
    BY <1>1, <1>2 DEF Numbered, InOrder
<1>5. Batch
    BY <1>1, <1>3 DEF Batch
<1>6. Handling
    BY <1>1 DEF Handling, Pending
<1>7. Finite
    BY <1>1, <1>3, FS_EmptySet DEF Finite
<1> QED BY <1>4, <1>5, <1>6, <1>7 DEF OrderInv

LEMMA OrderInvNext ==
    ASSUME LogInv, OrderInv, [Next]_vars
    PROVE  OrderInv'
<1>1. Numbered /\ Batch /\ Handling /\ Finite
    BY DEF OrderInv
<1>2. ASSUME NEW p \in Publisher, Occur(p) \/ ReadSequence(p) \/ Publish(p) \/ Rollback(p)
      PROVE  OrderInv'
    <2>1. UNCHANGED <<log, cycle, handled>> /\ raced \subseteq raced'
        BY <1>2 DEF Occur, ReadSequence, Publish, Rollback
    <2>2. Numbered'
        BY <1>1, <1>2, OccurNumbers, ReadNumbers, PublishNumbers, RollbackNumbers
    <2> QED BY <1>1, <2>1, <2>2, HandlingQuiet DEF OrderInv
<1>3. ASSUME NEW p \in Publisher, Commit(p)
      PROVE  OrderInv'
    BY <1>1, <1>3, CommitNumbers, CommitHandles DEF OrderInv
<1>4. CASE Poll
    <2>1. UNCHANGED <<log, tx, raced>>
        BY <1>4 DEF Poll
    <2> QED BY <1>1, <1>4, <2>1, NumberedQuiet, PollHandles DEF OrderInv
<1>5. CASE Dispatch
    <2>1. UNCHANGED <<log, tx, raced>>
        BY <1>5 DEF Dispatch, Dispatched
    <2> QED BY <1>1, <1>5, <2>1, NumberedQuiet, DispatchHandles DEF OrderInv
<1>6. CASE CycleCommits
    BY <1>1, <1>6, CycleNumbers, CycleCommitsHandles DEF OrderInv
<1>7. CASE CycleFails
    <2>1. UNCHANGED <<log, tx, raced, handled>> /\ cycle' = Asleep
        BY <1>7 DEF CycleFails
    <2> QED BY <1>1, <2>1, NumberedQuiet, AsleepHandles DEF OrderInv
<1>8. CASE \/ (\E from \in 1 .. 2 : Validate(from)) \/ ReplayPending \/ ReplayEvents
           \/ UNCHANGED vars
    <2>1. UNCHANGED <<log, tx, cycle, raced, handled>>
        BY <1>8 DEF Validate, ReplayPending, ReplayEvents, vars
    <2> QED BY <1>1, <2>1, NumberedQuiet, HandlingQuiet DEF OrderInv
<1> QED BY <1>2, <1>3, <1>4, <1>5, <1>6, <1>7, <1>8 DEF Next

(* The worker reads what is pending by the time it occurred and the numbers   *)
(* are given as the events occur, so what is handled is handled in the order *)
(* of the numbers; only events of transactions that were open together can  *)
(* come out of turn, and none comes twice.                                   *)
THEOREM NumbersAreHandledInOrder == Spec => []HandledInOrder
<1>1. LogInv /\ OrderInv => HandledInOrder
    <2> SUFFICES ASSUME LogInv, OrderInv, NEW i \in DOMAIN handled, NEW j \in DOMAIN handled
                 PROVE  LET e == CHOOSE x \in log : x.id = handled[i]
                            f == CHOOSE x \in log : x.id = handled[j]
                        IN  i < j => e # f /\ (e.seq < f.seq \/ {e.id, f.id} \in raced)
        BY DEF HandledInOrder
    <2> DEFINE e == CHOOSE x \in log : x.id = handled[i]
               f == CHOOSE x \in log : x.id = handled[j]
    <2>1. e \in log /\ e.id = handled[i]
        BY DEF OrderInv, Handling
    <2>2. f \in log /\ f.id = handled[j]
        BY DEF OrderInv, Handling
    <2> HIDE DEF e, f
    <2>3. ASSUME i < j
          PROVE  e # f /\ (e.seq < f.seq \/ {e.id, f.id} \in raced)
        <3>1. \/ e.id < f.id
              \/ e.id # f.id /\ {e.id, f.id} \in raced
            BY <2>1, <2>2, <2>3 DEF OrderInv, Handling
        <3>2. e.id \in Nat /\ f.id \in Nat
            BY <2>1, <2>2, EventShapes
        <3> QED BY <2>1, <2>2, <3>1, <3>2 DEF OrderInv, Numbered
    <2> QED BY <2>3 DEF e, f
<1>2. Init => OrderInv
    BY OrderInvInit
<1>3. LogInv /\ OrderInv /\ [Next]_vars => OrderInv'
    BY OrderInvNext
<1> QED BY <1>1, <1>2, <1>3, LogInvariant, PTL DEF Spec

-----------------------------------------------------------------------------
Twins == \E e, f \in log : e # f /\ e.seq = f.seq /\ {e.id, f.id} \in raced

(* A replay that is about to read a log that has not grown since it was       *)
(* validated meets every number once.                                        *)
ReplayInv ==
    /\ replay = [phase |-> replay.phase, from |-> replay.from, applied |-> replay.applied,
                 grew |-> replay.grew]
    /\ replay.grew \in BOOLEAN /\ replay.from \in Nat
    /\ replay.phase = "validated" =>
          /\ replay.from # 0
          /\ ~replay.grew => \A e, f \in log : e.seq = f.seq => e = f
    /\ replay.phase = "replayed" =>
          (\A n \in DOMAIN replay.applied : replay.applied[n] = 1) \/ (replay.grew /\ Twins)

(* Two events that share a number still do when the log has changed. *)
LEMMA ReplayKept ==
    ASSUME ReplayInv, UNCHANGED replay,
           replay.phase = "validated" /\ ~replay.grew /\ (\A e, f \in log : e.seq = f.seq => e = f)
               => \A e, f \in log' : e.seq = f.seq => e = f,
           Twins => Twins'
    PROVE  ReplayInv'
BY DEF ReplayInv

LEMMA CommitReplays ==
    ASSUME LogInv, ReplayInv, NEW p \in Publisher, Commit(p)
    PROVE  ReplayInv'
<1> DEFINE grown == replay.grew \/ replay.phase = "validated"
<1>1. /\ log \subseteq log' /\ raced' = raced
      /\ replay' = [phase |-> replay.phase, from |-> replay.from, applied |-> replay.applied,
                    grew |-> grown]
    BY DEF Commit, ReplayInv
<1>2. Twins => Twins'
    BY <1>1 DEF Twins
<1> HIDE DEF grown
<1>3. /\ replay'.phase = replay.phase /\ replay'.from = replay.from
      /\ replay'.applied = replay.applied /\ replay'.grew = grown
    BY <1>1
<1>4. grown \in BOOLEAN /\ (replay.phase = "validated" => grown) /\ (replay.grew => grown)
    BY DEF grown, ReplayInv
<1> QED BY <1>1, <1>2, <1>3, <1>4 DEF ReplayInv

LEMMA CycleReplays ==
    ASSUME LogInv, ReplayInv, CycleCommits
    PROVE  ReplayInv'
<1>1. UNCHANGED <<replay, raced>>
    BY DEF CycleCommits
<1>2. ASSUME \A e, f \in log : e.seq = f.seq => e = f,
             NEW e \in log', NEW f \in log', e.seq = f.seq
      PROVE  e = f
    <2>1. PICK b \in log : b.id = e.id /\ b.seq = e.seq
        BY CommittedLog
    <2>2. PICK c \in log : c.id = f.id /\ c.seq = f.seq
        BY CommittedLog
    <2>3. b = c
        BY <1>2, <2>1, <2>2
    <2> QED BY <2>1, <2>2, <2>3, CommittedLog
<1>3. ASSUME Twins
      PROVE  Twins'
    <2>1. PICK b \in log, c \in log : b # c /\ b.seq = c.seq /\ {b.id, c.id} \in raced
        BY <1>3 DEF Twins
    <2>2. PICK e \in log' : b.id = e.id /\ b.seq = e.seq
        BY CommittedLog
    <2>3. PICK f \in log' : c.id = f.id /\ c.seq = f.seq
        BY CommittedLog
    <2>4. b.id # c.id
        BY <2>1 DEF LogInv, IdsOnce
    <2>5. e # f /\ e.seq = f.seq /\ {e.id, f.id} \in raced'
        BY <1>1, <2>1, <2>2, <2>3, <2>4
    <2> QED BY <2>5 DEF Twins
<1> QED BY <1>1, <1>2, <1>3, ReplayKept

LEMMA ValidateReplays ==
    ASSUME LogInv, ReplayInv, NEW from \in 1 .. 2, Validate(from)
    PROVE  ReplayInv'
<1>1. log' = log
    BY DEF Validate
<1>2. CASE Violations(log) # {}
    <2>1. replay' = Resting
        BY <1>2 DEF Validate
    <2> QED BY <2>1 DEF ReplayInv, Resting
<1>3. CASE Violations(log) = {}
    <2>1. replay' = [phase |-> "validated", from |-> from, applied |-> <<>>, grew |-> FALSE]
        BY <1>3 DEF Validate, Resting
    <2>2. \A e, f \in log : e.seq = f.seq => e = f
        BY <1>3 DEF Violations
    <2>3. from \in Nat /\ from # 0
        OBVIOUS
    <2> QED BY <1>1, <2>1, <2>2, <2>3 DEF ReplayInv
<1> QED BY <1>2, <1>3

(* The numbers of the log are 1 .. n, so each is applied at least once.       *)
LEMMA ReadReplays ==
    ASSUME LogInv, ReplayInv, ReplayEvents
    PROVE  ReplayInv'
<1> DEFINE last == Max({0} \cup Seqs(log))
           Under(n) == {e \in log : e.seq = n}
           count == [n \in replay.from .. last |-> Cardinality(Under(n))]
<1>1. /\ replay' = [phase |-> "replayed", from |-> replay.from, applied |-> count,
                    grew |-> replay.grew]
      /\ replay.phase = "validated" /\ log' = log /\ raced' = raced
    BY DEF ReplayEvents, ReplayInv
<1>2. Twins' <=> Twins
    BY <1>1 DEF Twins
<1>3. CASE \A e, f \in log : e.seq = f.seq => e = f
    <2>1. Segment(Seqs(log))
        BY DEF LogInv, NoGap
    <2>2. last \in Nat /\ Seqs(log) = 1 .. last
        BY <2>1, SegmentEnds
    <2> HIDE DEF last
    <2>3. ASSUME NEW n \in replay.from .. last
          PROVE  Cardinality(Under(n)) = 1
        <3>1. n \in Seqs(log)
            BY <1>1, <2>2 DEF ReplayInv
        <3>2. PICK e \in log : e.seq = n
            BY <3>1 DEF Seqs
        <3>3. Under(n) = {e}
            BY <1>3, <3>2
        <3> QED BY <3>3, FS_Singleton
    <2>4. \A n \in DOMAIN count : count[n] = 1
        BY <2>3
    <2> HIDE DEF count
    <2> QED BY <1>1, <2>4 DEF ReplayInv
<1>4. CASE ~(\A e, f \in log : e.seq = f.seq => e = f)
    <2>1. Twins
        BY <1>4 DEF LogInv, Sharing, Twins
    <2>2. replay.grew
        BY <1>1, <1>4 DEF ReplayInv
    <2> HIDE DEF count
    <2> QED BY <1>1, <1>2, <2>1, <2>2 DEF ReplayInv
<1> QED BY <1>3, <1>4

LEMMA ReplayInvNext ==
    ASSUME LogInv, ReplayInv, [Next]_vars
    PROVE  ReplayInv'
<1>1. CASE UNCHANGED <<log, replay>> /\ raced \subseteq raced'
    <2>1. Twins => Twins'
        BY <1>1 DEF Twins
    <2> QED BY <1>1, <2>1, ReplayKept
<1>2. ASSUME NEW p \in Publisher, Occur(p) \/ ReadSequence(p) \/ Publish(p) \/ Rollback(p)
      PROVE  ReplayInv'
    BY <1>1, <1>2 DEF Occur, ReadSequence, Publish, Rollback
<1>3. CASE Poll \/ Dispatch \/ CycleFails \/ UNCHANGED vars
    BY <1>1, <1>3 DEF Poll, Dispatch, Dispatched, CycleFails, vars
<1>4. CASE (\E from \in 1 .. 2 : Validate(from)) \/ ReplayPending
    BY <1>4, ValidateReplays DEF ReplayPending
<1> QED BY <1>2, <1>3, <1>4, CommitReplays, CycleReplays, ReadReplays DEF Next

(* EventReplayer.replay_aggregate validates the log, then reads it again: a   *)
(* projection is given every number exactly once, unless the log has grown  *)
(* in between by one of two events that raced for their number.              *)
THEOREM NoReplaySkips == Spec => []ReplaysAreGapless
<1>1. ReplayInv => ReplaysAreGapless
    BY DEF ReplayInv, ReplaysAreGapless, Twins
<1>2. Init => ReplayInv
    BY DEF Init, Resting, ReplayInv
<1>3. LogInv /\ ReplayInv /\ [Next]_vars => ReplayInv'
    BY ReplayInvNext
<1> QED BY <1>1, <1>2, <1>3, LogInvariant, PTL DEF Spec
=============================================================================
