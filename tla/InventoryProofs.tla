---------------------------- MODULE InventoryProofs ----------------------------
(***************************************************************************)
(* Proofs about the inventory calls that others can interleave with: what  *)
(* overlapping transactions can lose (LedgerSessions), what they can leave *)
(* in the cache (VisibilityCache), and what the planners advise meanwhile  *)
(* (NetworkInventory).  They hold for any warehouses, orders, reservations, *)
(* sessions, readers, writers, policies and order of the rows.             *)
(***************************************************************************)
EXTENDS LedgerSessions, NetworkInventory, TotalTheorems

-----------------------------------------------------------------------------
(* LedgerSessions.                                                          *)
Promise == [id : Reservation, warehouse : Warehouse, quantity : Nat \ {0}]
Booking == [status : {"none", "active", "released"}, order : Order \cup {None},
            warehouse : Warehouse \cup {None}, quantity : Nat]
Op == {"idle", "allocate", "release", "adjust", "receive", "reloaded"}
Job == [op : Op, order : Order \cup {None}, need : Nat, pref : Warehouse \cup {None},
        split : BOOLEAN, seen : [Warehouse -> Int], todo : SUBSET Warehouse,
        pending : SUBSET Reservation, settled : SUBSET Reservation, made : SUBSET Promise,
        at : Warehouse \cup {None}, delta : Int,
        base : [Warehouse -> Row \cup {None}], copy : [Warehouse -> Row \cup {None}]]

(* The rows Q of a warehouse: only the oldest is ever updated, the others    *)
(* were inserted with nothing reserved.                                     *)
RowsOK(Q) ==
    /\ Q \in Seq(Row)
    /\ \A i \in 2 .. Len(Q) : Q[i].reserved = 0 /\ Q[i].on_hand >= 0

Shape ==
    /\ rows = [w \in Warehouse |-> rows[w]] /\ \A w \in Warehouse : RowsOK(rows[w])
    /\ res \in [Reservation -> Booking] /\ due \subseteq Reservation
    /\ \A r \in Reservation : res[r].status # "none" =>
          res[r].warehouse \in Warehouse /\ rows[res[r].warehouse] # <<>>
    /\ expected \in [Warehouse -> Int]
    /\ job \in [Session -> Job]

(* What a call has in memory hangs together: it changes the column it is     *)
(* about, and no other.                                                     *)
JobOK(j) ==
    /\ j.op # "allocate" => j.made = {}
    /\ j.op # "release" => j.settled = {} /\ j.pending = {}
    /\ j.pending \cap j.settled = {}
    /\ \A w \in Warehouse : j.base[w] # None => j.copy[w] # None
    /\ \A w \in Warehouse : j.copy[w] # None /\ j.base[w] = None =>
          j.copy[w].reserved = 0 /\ j.copy[w].on_hand >= 0 /\ j.at = None
    /\ j.op \in {"allocate", "release"} => \A w \in Warehouse : j.copy[w] # None =>
          j.base[w] # None /\ j.copy[w].on_hand = j.base[w].on_hand
    /\ j.op \notin {"allocate", "release"} => \A w \in Warehouse : j.base[w] # None =>
          j.copy[w].reserved = j.base[w].reserved

(* An allocation takes from a warehouse once, and not more than it has.      *)
MadeOK(j) ==
    /\ \A m, n \in j.made : m.id = n.id \/ m.warehouse = n.warehouse => m = n
    /\ \A m \in j.made :
          /\ m.warehouse \notin j.todo /\ j.base[m.warehouse] # None
          /\ j.copy[m.warehouse].reserved = j.base[m.warehouse].reserved + m.quantity
          /\ j.copy[m.warehouse].reserved <= j.base[m.warehouse].on_hand
    /\ j.op = "allocate" => \A w \in Warehouse : j.copy[w] # None =>
          \E m \in j.made : m.warehouse = w

(* What the call j has read, against the rows Q, the reservations R and the  *)
(* clashes K that are committed.                                            *)
Amount(R) == [r \in Reservation |-> R[r].quantity]
At(R, T, w) == {r \in T : R[r].warehouse = w}
Active(R, T, w) == {r \in T : R[r].status = "active" /\ R[r].warehouse = w}

Readable(j, Q, R) ==
    /\ \A w \in Warehouse : j.base[w] # None => Q[w] # <<>>
    /\ \A m \in j.made : R[m.id].status = "none"
    /\ \A r \in j.pending \cup j.settled : R[r].status # "none"
    /\ \A r \in j.settled : j.base[R[r].warehouse] # None

(* A release takes from a counter what it has settled there, and the counter *)
(* it has read covers all that it may still settle.                         *)
BackedAt(j, R, w) ==
    /\ j.copy[w].reserved = j.base[w].reserved - Total(At(R, j.settled, w), Amount(R))
    /\ j.base[w].reserved >= Total(Active(R, j.pending \cup j.settled, w), Amount(R))
Backed(j, R, K) ==
    j.op = "release" => \A w \in Warehouse :
        /\ j.base[w] # None /\ <<w, "reserved">> \notin K
        /\ \A r \in At(R, j.settled, w) : R[r].status = "active"
        => BackedAt(j, R, w)

(* The stock it has read is there unless somebody has taken some away.       *)
Covered(j, Q, K) ==
    \A w \in Warehouse : j.base[w] # None /\ {<<w, "on_hand">>, <<w, "lowered">>} \cap K = {} =>
        Q[w][1].on_hand >= j.base[w].on_hand

JobsOK == \A s \in Session : JobOK(job[s]) /\ MadeOK(job[s])
JobsFit == \A s \in Session :
    Readable(job[s], rows, res) /\ Backed(job[s], res, clash) /\ Covered(job[s], rows, clash)
Exclusive == \A s, t \in Session : s # t => \A m \in job[s].made, n \in job[t].made : m.id # n.id

SessionInv ==
    /\ Shape /\ JobsOK /\ JobsFit /\ Exclusive
    /\ DriftNeedsOverlap /\ StockSurvives /\ OversellNeedsOverlap

-----------------------------------------------------------------------------
(* Totals over the rows of one warehouse. *)
HandIn(Q) == NetTotal(DOMAIN Q, [i \in DOMAIN Q |-> Q[i].on_hand])
KeptIn(Q) == Total(DOMAIN Q, [i \in DOMAIN Q |-> Q[i].reserved])

LEMMA RowsListed ==
    ASSUME NEW Q \in Seq(Row)
    PROVE  /\ DOMAIN Q = 1 .. Len(Q) /\ Len(Q) \in Nat /\ IsFiniteSet(DOMAIN Q)
           /\ \A i \in DOMAIN Q : Q[i].on_hand \in Int /\ Q[i].reserved \in Nat
           /\ Q # <<>> => 1 \in DOMAIN Q
<1>1. DOMAIN Q = 1 .. Len(Q) /\ Len(Q) \in Nat
    OBVIOUS
<1>2. IsFiniteSet(1 .. Len(Q))
    BY <1>1, FS_Interval
<1>3. \A i \in DOMAIN Q : Q[i] \in Row
    BY <1>1
<1>4. Q # <<>> => 1 \in DOMAIN Q
    OBVIOUS
<1> QED BY <1>1, <1>2, <1>3, <1>4 DEF Row

LEMMA RowTotals ==
    ASSUME NEW Q \in Seq(Row)
    PROVE  HandIn(Q) \in Int /\ KeptIn(Q) \in Nat
<1> DEFINE p == [i \in DOMAIN Q |-> Q[i].on_hand]
           q == [i \in DOMAIN Q |-> Q[i].reserved]
<1>1. IsFiniteSet(DOMAIN Q) /\ \A i \in DOMAIN Q : p[i] \in Int /\ q[i] \in Nat
    BY RowsListed
<1> HIDE DEF p, q
<1>2. NetTotal(DOMAIN Q, p) \in Int
    BY <1>1, NetTotalType
<1>3. Total(DOMAIN Q, q) \in Nat
    BY <1>1, TotalType
<1> QED BY <1>2, <1>3 DEF HandIn, KeptIn, p, q

LEMMA NoRowTotals == HandIn(<<>>) = 0 /\ KeptIn(<<>>) = 0
<1>1. DOMAIN <<>> = {}
    OBVIOUS
<1>2. KeptIn(<<>>) = 0
    BY <1>1, TotalEmpty DEF KeptIn
<1>3. HandIn(<<>>) = 0 - 0
    BY <1>1, TotalEmpty DEF HandIn, NetTotal
<1> QED BY <1>2, <1>3

(* An update of the oldest row. *)
LEMMA RowUpdated ==
    ASSUME NEW Q \in Seq(Row), Q # <<>>, NEW x \in Row
    PROVE  /\ [Q EXCEPT ![1] = x] \in Seq(Row)
           /\ HandIn([Q EXCEPT ![1] = x]) = HandIn(Q) + x.on_hand - Q[1].on_hand
           /\ KeptIn([Q EXCEPT ![1] = x]) = KeptIn(Q) + x.reserved - Q[1].reserved
<1> DEFINE P == [Q EXCEPT ![1] = x]
           p == [i \in DOMAIN Q |-> Q[i].on_hand]
           q == [i \in DOMAIN Q |-> Q[i].reserved]
           pn == [i \in DOMAIN P |-> P[i].on_hand]
           qn == [i \in DOMAIN P |-> P[i].reserved]
<1>1. P \in Seq(Row)
    OBVIOUS
<1>2. DOMAIN P = DOMAIN Q /\ 1 \in DOMAIN Q /\ P[1] = x
      /\ \A i \in DOMAIN Q \ {1} : P[i] = Q[i]
    BY RowsListed
<1>3. IsFiniteSet(DOMAIN Q)
    BY RowsListed
<1>4. \A i \in DOMAIN Q : Q[i].on_hand \in Int /\ Q[i].reserved \in Nat
    BY RowsListed
<1>5. \A i \in DOMAIN Q : P[i].on_hand \in Int /\ P[i].reserved \in Nat
    BY <1>1, <1>2, RowsListed
<1> HIDE DEF P
<1>6. \A i \in DOMAIN Q : p[i] \in Int /\ pn[i] \in Int
    BY <1>2, <1>4, <1>5
<1>7. \A i \in DOMAIN Q : q[i] \in Nat /\ qn[i] \in Nat
    BY <1>2, <1>4, <1>5
<1>8. \A i \in DOMAIN Q \ {1} : p[i] = pn[i] /\ q[i] = qn[i]
    BY <1>2
<1>9. p[1] = Q[1].on_hand /\ pn[1] = x.on_hand /\ q[1] = Q[1].reserved /\ qn[1] = x.reserved
    BY <1>2
<1> HIDE DEF p, q, pn, qn
<1>10. NetTotal(DOMAIN Q, pn) = NetTotal(DOMAIN Q, p) + pn[1] - p[1]
    BY <1>2, <1>3, <1>6, <1>8, NetTotalChange
<1>11. Total(DOMAIN Q, qn) = Total(DOMAIN Q, q) + qn[1] - q[1]
    <2>1. NetTotal(DOMAIN Q, qn) = NetTotal(DOMAIN Q, q) + qn[1] - q[1]
        <3>1. \A i \in DOMAIN Q : q[i] \in Int /\ qn[i] \in Int
            BY <1>7
        <3> QED BY <1>2, <1>3, <3>1, <1>8, NetTotalChange
    <2>2. NetTotal(DOMAIN Q, qn) = Total(DOMAIN Q, qn) /\ NetTotal(DOMAIN Q, q) = Total(DOMAIN Q, q)
        BY <1>3, <1>7, NetTotalNat
    <2> QED BY <2>1, <2>2
<1>12. HandIn(P) = HandIn(Q) + x.on_hand - Q[1].on_hand
    BY <1>2, <1>9, <1>10 DEF HandIn, p, pn
<1>13. KeptIn(P) = KeptIn(Q) + x.reserved - Q[1].reserved
    BY <1>2, <1>9, <1>11 DEF KeptIn, q, qn
<1> QED BY <1>1, <1>12, <1>13 DEF P

(* A row inserted after those that are there. *)
LEMMA RowInserted ==
    ASSUME NEW Q \in Seq(Row), NEW x \in Row
    PROVE  /\ Append(Q, x) \in Seq(Row)
           /\ HandIn(Append(Q, x)) = HandIn(Q) + x.on_hand
           /\ KeptIn(Append(Q, x)) = KeptIn(Q) + x.reserved
<1> DEFINE P == Append(Q, x)
           n == Len(Q) + 1
           p == [i \in DOMAIN Q |-> Q[i].on_hand]
           q == [i \in DOMAIN Q |-> Q[i].reserved]
           pn == [i \in DOMAIN P |-> P[i].on_hand]
           qn == [i \in DOMAIN P |-> P[i].reserved]
<1>1. P \in Seq(Row)
    OBVIOUS
<1>2. DOMAIN P = DOMAIN Q \cup {n} /\ n \notin DOMAIN Q /\ P[n] = x
      /\ \A i \in DOMAIN Q : P[i] = Q[i]
    BY RowsListed
<1>3. IsFiniteSet(DOMAIN Q) /\ IsFiniteSet({n}) /\ DOMAIN Q \cap {n} = {}
    BY <1>2, RowsListed, FS_Singleton
<1>4. \A i \in DOMAIN P : P[i].on_hand \in Int /\ P[i].reserved \in Nat
    BY <1>1, RowsListed
<1> HIDE DEF P, n
<1>5. \A i \in DOMAIN Q \cup {n} : pn[i] \in Int /\ qn[i] \in Nat
    BY <1>2, <1>4
<1>6. \A i \in DOMAIN Q : pn[i] = p[i] /\ qn[i] = q[i]
    BY <1>2
<1>7. pn[n] = x.on_hand /\ qn[n] = x.reserved
    BY <1>2
<1> HIDE DEF p, q, pn, qn
<1>8. NetTotal(DOMAIN Q \cup {n}, pn) = NetTotal(DOMAIN Q, pn) + NetTotal({n}, pn)
    BY <1>3, <1>5, NetTotalUnion
<1>9. NetTotal(DOMAIN Q, pn) = NetTotal(DOMAIN Q, p) /\ NetTotal({n}, pn) = pn[n]
    BY <1>5, <1>6, NetTotalSame, NetTotalSingleton
<1>10. Total(DOMAIN Q \cup {n}, qn) = Total(DOMAIN Q, qn) + Total({n}, qn)
    BY <1>3, <1>5, TotalUnion
<1>11. Total(DOMAIN Q, qn) = Total(DOMAIN Q, q) /\ Total({n}, qn) = qn[n]
    BY <1>5, <1>6, TotalSame, TotalSingleton
<1>12. HandIn(P) = HandIn(Q) + x.on_hand
    BY <1>2, <1>7, <1>8, <1>9 DEF HandIn, p, pn
<1>13. KeptIn(P) = KeptIn(Q) + x.reserved
    BY <1>2, <1>7, <1>10, <1>11 DEF KeptIn, q, qn
<1> QED BY <1>1, <1>12, <1>13 DEF P

(* The oldest row carries all that is reserved, and the others no debt.      *)
LEMMA OldestRow ==
    ASSUME NEW Q, RowsOK(Q), Q # <<>>
    PROVE  KeptIn(Q) = Q[1].reserved /\ HandIn(Q) >= Q[1].on_hand
<1> DEFINE D == 2 .. Len(Q)
           p == [i \in DOMAIN Q |-> Q[i].on_hand]
           q == [i \in DOMAIN Q |-> Q[i].reserved]
<1>1. Q \in Seq(Row) /\ \A i \in D : Q[i].reserved = 0 /\ Q[i].on_hand >= 0
    BY DEF RowsOK
<1>2. /\ DOMAIN Q = {1} \cup D /\ {1} \cap D = {} /\ 1 \in DOMAIN Q
      /\ IsFiniteSet(DOMAIN Q) /\ D \subseteq DOMAIN Q
    <2>1. DOMAIN Q = 1 .. Len(Q) /\ Len(Q) \in Nat /\ IsFiniteSet(DOMAIN Q) /\ 1 \in DOMAIN Q
        BY <1>1, RowsListed
    <2>2. Len(Q) >= 1
        BY <2>1
    <2>3. 1 .. Len(Q) = {1} \cup (2 .. Len(Q))
        BY <2>1, <2>2
    <2> QED BY <2>1, <2>3
<1>3. IsFiniteSet({1}) /\ IsFiniteSet(D)
    BY <1>2, FS_Singleton, FS_Subset
<1>4. \A i \in DOMAIN Q : p[i] \in Int /\ q[i] \in Nat /\ p[i] = Q[i].on_hand /\ q[i] = Q[i].reserved
    BY <1>1, RowsListed
<1>5. \A i \in D : q[i] = 0 /\ p[i] \in Nat
    <2> SUFFICES ASSUME NEW i \in D PROVE q[i] = 0 /\ p[i] \in Nat
        OBVIOUS
    <2>1. i \in DOMAIN Q
        BY <1>2
    <2>2. p[i] \in Int /\ p[i] = Q[i].on_hand /\ q[i] = Q[i].reserved
        BY <1>4, <2>1
    <2>3. Q[i].reserved = 0 /\ Q[i].on_hand >= 0
        BY <1>1
    <2> QED BY <2>2, <2>3
<1> HIDE DEF D, p, q
<1>6. Total({1} \cup D, q) = Total({1}, q) + Total(D, q)
    BY <1>2, <1>3, <1>4, TotalUnion
<1>7. Total({1}, q) = q[1] /\ Total(D, q) = 0
    BY <1>2, <1>4, <1>5, TotalSingleton, TotalZero
<1>8. NetTotal({1} \cup D, p) = NetTotal({1}, p) + NetTotal(D, p)
    BY <1>2, <1>3, <1>4, NetTotalUnion
<1>9. NetTotal({1}, p) = p[1]
    BY <1>2, <1>4, NetTotalSingleton
<1>10. NetTotal(D, p) = Total(D, p) /\ Total(D, p) \in Nat
    BY <1>3, <1>5, NetTotalNat, TotalType
<1>11. Total(DOMAIN Q, q) = q[1] /\ q[1] = Q[1].reserved
    BY <1>2, <1>4, <1>6, <1>7
<1>12. NetTotal(DOMAIN Q, p) = p[1] + Total(D, p) /\ p[1] = Q[1].on_hand /\ p[1] \in Int
    BY <1>2, <1>4, <1>8, <1>9, <1>10
<1>13. KeptIn(Q) = Q[1].reserved
    BY <1>11 DEF KeptIn, q
<1>14. HandIn(Q) = Q[1].on_hand + Total(D, p)
    BY <1>12 DEF HandIn, p
<1> QED BY <1>10, <1>12, <1>13, <1>14

-----------------------------------------------------------------------------
(* What the reservations R hold at one warehouse. *)
HeldIn(R, w) == Total(Active(R, Reservation, w), Amount(R))

LEMMA AmountsCount ==
    ASSUME NEW R \in [Reservation -> Booking], NEW T \in SUBSET Reservation
    PROVE  /\ IsFiniteSet(T) /\ \A r \in T : Amount(R)[r] = R[r].quantity /\ Amount(R)[r] \in Nat
           /\ Total(T, Amount(R)) \in Nat
<1>1. IsFiniteSet(T)
    BY ReservationFinite, FS_Subset
<1>2. \A r \in T : Amount(R)[r] = R[r].quantity /\ Amount(R)[r] \in Nat
    BY DEF Amount, Booking
<1> QED BY <1>1, <1>2, TotalType

LEMMA PartOfTotal ==
    ASSUME NEW R \in [Reservation -> Booking], NEW T \in SUBSET Reservation, NEW S \in SUBSET T
    PROVE  /\ Total(T \ S, Amount(R)) = Total(T, Amount(R)) - Total(S, Amount(R))
           /\ Total(S, Amount(R)) <= Total(T, Amount(R))
<1>1. T \ S \in SUBSET Reservation /\ S \in SUBSET Reservation
    OBVIOUS
<1>2. IsFiniteSet(T) /\ \A r \in T : Amount(R)[r] \in Nat
    BY AmountsCount
<1>3. Total(T \ S, Amount(R)) = Total(T, Amount(R)) - Total(S, Amount(R))
    BY <1>2, TotalDifference
<1>4. Total(T \ S, Amount(R)) \in Nat /\ Total(T, Amount(R)) \in Nat /\ Total(S, Amount(R)) \in Nat
    BY <1>1, AmountsCount
<1> QED BY <1>3, <1>4

(* The reservations P, after those of R in T have been released. *)
LEMMA HeldReleased ==
    ASSUME NEW R \in [Reservation -> Booking], NEW P \in [Reservation -> Booking],
           NEW T \in SUBSET Reservation,
           \A r \in T : P[r].status = "released",
           \A r \in Reservation \ T : P[r] = R[r],
           NEW w \in Warehouse
    PROVE  /\ HeldIn(P, w) <= HeldIn(R, w)
           /\ (\A r \in At(R, T, w) : R[r].status = "active") =>
                 HeldIn(P, w) = HeldIn(R, w) - Total(At(R, T, w), Amount(R))
<1> DEFINE A == Active(R, Reservation, w)
           B == At(R, T, w) \cap A
<1>1. Active(P, Reservation, w) = A \ B
    BY DEF Active, At
<1>2. \A r \in A \ B : r \in Reservation /\ r \notin T
    BY DEF Active, At
<1>3. A \in SUBSET Reservation /\ B \in SUBSET A /\ A \ B \in SUBSET Reservation
    BY DEF Active
<1>4. \A r \in A \ B : Amount(P)[r] = Amount(R)[r]
    BY <1>2 DEF Amount
<1>5. HeldIn(P, w) = Total(A \ B, Amount(R))
    BY <1>1, <1>4, TotalSame DEF HeldIn
<1>6. HeldIn(R, w) = Total(A, Amount(R))
    BY DEF HeldIn
<1> HIDE DEF A, B
<1>7. Total(A \ B, Amount(R)) = Total(A, Amount(R)) - Total(B, Amount(R))
    BY <1>3, PartOfTotal
<1>8. Total(A, Amount(R)) \in Nat /\ Total(B, Amount(R)) \in Nat
    BY <1>3, AmountsCount
<1>9. HeldIn(P, w) <= HeldIn(R, w)
    BY <1>5, <1>6, <1>7, <1>8
<1>10. ASSUME \A r \in At(R, T, w) : R[r].status = "active" PROVE B = At(R, T, w)
    BY <1>10 DEF A, B, At, Active
<1> QED BY <1>5, <1>6, <1>7, <1>9, <1>10

(* What is not active keeps its units out of the total. *)
LEMMA HeldSame ==
    ASSUME NEW R \in [Reservation -> Booking], NEW P \in [Reservation -> Booking],
           NEW w \in Warehouse,
           \A r \in Reservation : P[r] = R[r] \/ (/\ R[r].status = "none"
                                                  /\ P[r].warehouse # w)
    PROVE  HeldIn(P, w) = HeldIn(R, w)
<1>1. Active(P, Reservation, w) = Active(R, Reservation, w)
    BY DEF Active
<1>2. \A r \in Active(R, Reservation, w) : P[r] = R[r] /\ r \in Reservation
    BY DEF Active
<1>3. \A r \in Active(R, Reservation, w) : Amount(P)[r] = Amount(R)[r]
    BY <1>2 DEF Amount
<1> QED BY <1>1, <1>3, TotalSame DEF HeldIn

(* One reservation n more at w. *)
LEMMA HeldMore ==
    ASSUME NEW R \in [Reservation -> Booking], NEW P \in [Reservation -> Booking],
           NEW w \in Warehouse, NEW n \in Reservation,
           R[n].status = "none", P[n].status = "active", P[n].warehouse = w,
           \A r \in Reservation \ {n} : P[r] = R[r] \/ (/\ R[r].status = "none"
                                                        /\ P[r].warehouse # w)
    PROVE  HeldIn(P, w) = HeldIn(R, w) + P[n].quantity
<1> DEFINE A == Active(R, Reservation, w)
<1>1. Active(P, Reservation, w) = A \cup {n} /\ n \notin A
    BY DEF Active
<1>2. \A r \in A : P[r] = R[r] /\ r \in Reservation
    BY <1>1 DEF Active
<1>3. \A r \in A : Amount(R)[r] \in Nat /\ Amount(P)[r] = Amount(R)[r]
    BY <1>2 DEF Amount, Booking
<1>4. Amount(P)[n] = P[n].quantity /\ Amount(P)[n] \in Nat
    BY DEF Amount, Booking
<1>5. IsFiniteSet(A)
    BY ReservationFinite, FS_Subset DEF Active
<1> HIDE DEF A
<1>6. Total(A \cup {n}, Amount(P)) = Total(A, Amount(R)) + Amount(P)[n]
    <2>1. n \notin A /\ Amount(P)[n] \in Nat
        BY <1>1, <1>4
    <2>2. \A r \in A : Amount(R)[r] \in Nat /\ Amount(P)[r] = Amount(R)[r]
        BY <1>3
    <2> QED BY <2>1, <2>2, <1>5, TotalAdd
<1> QED BY <1>1, <1>4, <1>6 DEF HeldIn, A

-----------------------------------------------------------------------------
(* Steps in memory: nothing committed changes. *)
LEMMA StockUnchanged ==
    ASSUME UNCHANGED <<rows, res, expected, clash>>,
           DriftNeedsOverlap, StockSurvives, OversellNeedsOverlap
    PROVE  DriftNeedsOverlap' /\ StockSurvives' /\ OversellNeedsOverlap'
<1>1. \A w : OnHand(w)' = OnHand(w) /\ ReservedAt(w)' = ReservedAt(w) /\ Held(w)' = Held(w)
    BY DEF OnHand, ReservedAt, Held, ActiveAt
<1> QED BY <1>1 DEF DriftNeedsOverlap, StockSurvives, OversellNeedsOverlap

LEMMA MemoryStep ==
    ASSUME SessionInv, NEW s \in Session, NEW j \in Job, job' = [job EXCEPT ![s] = j],
           UNCHANGED <<rows, res, due, expected, clash>>,
           JobOK(j), MadeOK(j),
           Readable(j, rows, res), Backed(j, res, clash), Covered(j, rows, clash),
           \A t \in Session \ {s} : \A m \in job[t].made, n \in j.made : m.id # n.id
    PROVE  SessionInv'
<1>1. job \in [Session -> Job]
    BY DEF SessionInv, Shape
<1>2. job' \in [Session -> Job] /\ \A t \in Session : job'[t] = IF t = s THEN j ELSE job[t]
    BY <1>1
<1>3. Shape'
    BY <1>2 DEF SessionInv, Shape
<1>4. JobsOK'
    BY <1>2 DEF SessionInv, JobsOK
<1>5. JobsFit'
    BY <1>2 DEF SessionInv, JobsFit
<1>6. Exclusive'
    <2> SUFFICES ASSUME NEW t \in Session, NEW u \in Session, t # u,
                        NEW m \in job'[t].made, NEW n \in job'[u].made
                 PROVE  m.id # n.id
        BY DEF Exclusive
    <2>1. CASE t # s /\ u # s
        BY <1>2, <2>1 DEF SessionInv, Exclusive
    <2>2. CASE t = s
        BY <1>2, <2>2
    <2>3. CASE u = s
        BY <1>2, <2>3
    <2> QED BY <2>1, <2>2, <2>3
<1> QED BY <1>3, <1>4, <1>5, <1>6, StockUnchanged DEF SessionInv

(* A call that has read nothing yet. *)
LEMMA FreshStep ==
    ASSUME SessionInv, NEW s \in Session, NEW j \in Job, job' = [job EXCEPT ![s] = j],
           UNCHANGED <<rows, res, due, expected, clash>>,
           j.made = {}, j.settled = {}, j.op # "release" => j.pending = {},
           \A r \in j.pending : res[r].status # "none",
           \A w \in Warehouse : j.base[w] = None /\ j.copy[w] = None
    PROVE  SessionInv'
<1>1. JobOK(j) /\ MadeOK(j)
    BY DEF JobOK, MadeOK
<1>2. Readable(j, rows, res) /\ Backed(j, res, clash) /\ Covered(j, rows, clash)
    BY DEF Readable, Backed, Covered
<1> QED BY <1>1, <1>2, MemoryStep

LEMMA IdleType ==
    /\ Idle \in Job /\ Idle.made = {} /\ Idle.settled = {} /\ Idle.pending = {}
    /\ \A w \in Warehouse : Idle.base[w] = None /\ Idle.copy[w] = None
BY DEF Idle, Job, Op

LEMMA FailInv ==
    ASSUME SessionInv, NEW s \in Session, Fail(s)
    PROVE  SessionInv'
<1>1. job' = [job EXCEPT ![s] = Idle] /\ UNCHANGED <<rows, res, due, expected, clash>>
    BY DEF Fail, db
<1> QED BY <1>1, IdleType, FreshStep

LEMMA BeginAllocateInv ==
    ASSUME SessionInv, NEW s \in Request, NEW o \in Order, NEW need \in 1 .. MaxQty,
           NEW pref \in Warehouse \cup {None}, NEW split \in BOOLEAN,
           BeginAllocate(s, o, need, pref, split)
    PROVE  SessionInv'
<1> DEFINE j == [Idle EXCEPT !.op = "allocate", !.order = o, !.need = need, !.pref = pref,
                             !.split = split, !.todo = Warehouse]
<1>1. job' = [job EXCEPT ![s] = j] /\ UNCHANGED <<rows, res, due, expected, clash>>
    BY DEF BeginAllocate, Begin, db
<1>2. /\ j \in Job /\ j.made = {} /\ j.settled = {} /\ j.pending = {}
      /\ \A w \in Warehouse : j.base[w] = None /\ j.copy[w] = None
    <2>1. need \in Nat
        BY BoundsOK
    <2>2. j \in Job
        BY <2>1, IdleType DEF Job, Op
    <2>3. /\ j.made = Idle.made /\ j.settled = Idle.settled /\ j.pending = Idle.pending
          /\ j.base = Idle.base /\ j.copy = Idle.copy
        BY DEF Idle
    <2> QED BY <2>2, <2>3, IdleType
<1> HIDE DEF j
<1>3. s \in Session
    BY DEF Session
<1> QED BY <1>1, <1>2, <1>3, FreshStep

LEMMA BeginReleaseInv ==
    ASSUME SessionInv, NEW s \in Session, NEW T \in SUBSET Reservation,
           \A r \in T : res[r].status = "active", BeginRelease(s, T)
    PROVE  SessionInv'
<1> DEFINE j == [Idle EXCEPT !.op = "release", !.pending = T]
<1>1. job' = [job EXCEPT ![s] = j] /\ UNCHANGED <<rows, res, due, expected, clash>>
    BY DEF BeginRelease, Begin, db
<1>2. /\ j \in Job /\ j.op = "release" /\ j.made = {} /\ j.settled = {} /\ j.pending = T
      /\ \A w \in Warehouse : j.base[w] = None /\ j.copy[w] = None
    <2>1. j \in Job
        BY IdleType DEF Job, Op
    <2>2. /\ j.made = Idle.made /\ j.settled = Idle.settled /\ j.pending = T /\ j.op = "release"
          /\ j.base = Idle.base /\ j.copy = Idle.copy
        BY DEF Idle
    <2> QED BY <2>1, <2>2, IdleType
<1> HIDE DEF j
<1> QED BY <1>1, <1>2, FreshStep

LEMMA BeginReceiveInv ==
    ASSUME SessionInv, NEW s \in Session, NEW w \in Warehouse, NEW good \in 1 .. MaxQty,
           BeginReceive(s, w, good)
    PROVE  SessionInv'
<1> DEFINE j == [Idle EXCEPT !.op = "receive", !.at = w, !.delta = good]
<1>1. job' = [job EXCEPT ![s] = j] /\ UNCHANGED <<rows, res, due, expected, clash>>
    BY DEF BeginReceive, Begin, db
<1>2. /\ j \in Job /\ j.made = {} /\ j.settled = {} /\ j.pending = {}
      /\ \A v \in Warehouse : j.base[v] = None /\ j.copy[v] = None
    <2>1. good \in Int
        BY BoundsOK
    <2>2. j \in Job
        BY <2>1, IdleType DEF Job, Op
    <2>3. /\ j.made = Idle.made /\ j.settled = Idle.settled /\ j.pending = Idle.pending
          /\ j.base = Idle.base /\ j.copy = Idle.copy
        BY DEF Idle
    <2> QED BY <2>2, <2>3, IdleType
<1> HIDE DEF j
<1> QED BY <1>1, <1>2, FreshStep
(* What get_balance returns. *)
LEMMA LoadedRow ==
    ASSUME SessionInv, NEW s \in Session, NEW w \in Warehouse, ~Missing(s, w)
    PROVE  /\ Loaded(s, w) \in Row /\ LoadedBase(s, w) \in Row \cup {None}
           /\ job[s].copy[w] # None => /\ Loaded(s, w) = job[s].copy[w]
                                       /\ LoadedBase(s, w) = job[s].base[w]
           /\ job[s].copy[w] = None => /\ Loaded(s, w) = rows[w][1] /\ LoadedBase(s, w) = rows[w][1]
                                       /\ rows[w] # <<>>
<1>1. job[s] \in Job /\ RowsOK(rows[w])
    BY DEF SessionInv, Shape
<1>2. /\ job[s].copy \in [Warehouse -> Row \cup {None}]
      /\ job[s].base \in [Warehouse -> Row \cup {None}]
    BY <1>1 DEF Job
<1>3. CASE job[s].copy[w] # None
    BY <1>2, <1>3 DEF Loaded, LoadedBase
<1>4. CASE job[s].copy[w] = None
    <2>1. rows[w] # <<>> /\ rows[w] \in Seq(Row)
        BY <1>1, <1>4 DEF Missing, RowsOK
    <2>2. rows[w][1] \in Row
        BY <2>1
    <2> QED BY <1>4, <2>1, <2>2 DEF Loaded, LoadedBase
<1> QED BY <1>3, <1>4

LEMMA BeginAdjustInv ==
    ASSUME SessionInv, NEW s \in Session, NEW w \in Warehouse, NEW target \in 0 .. MaxStock,
           BeginAdjust(s, w, target)
    PROVE  SessionInv'
<1>1. CASE rows[w] = <<>>
    <2> DEFINE j == [Idle EXCEPT !.op = "adjust", !.at = w, !.delta = target]
    <2>1. job' = [job EXCEPT ![s] = j] /\ UNCHANGED <<rows, res, due, expected, clash>>
        BY <1>1 DEF BeginAdjust, Begin, db
    <2>2. j \in Job
        <3>1. target \in Int
            BY BoundsOK
        <3> QED BY <3>1, IdleType DEF Job, Op
    <2>3. /\ j.made = Idle.made /\ j.settled = Idle.settled /\ j.pending = Idle.pending
          /\ j.base = Idle.base /\ j.copy = Idle.copy
        BY DEF Idle
    <2> HIDE DEF j
    <2> QED BY <2>1, <2>2, <2>3, IdleType, FreshStep
<1>2. CASE rows[w] # <<>>
    <2> DEFINE x == rows[w][1]
               j == [Idle EXCEPT !.op = "adjust", !.at = w, !.delta = target - x.on_hand,
                                 !.base[w] = x, !.copy[w] = x]
    <2>1. job' = [job EXCEPT ![s] = j] /\ UNCHANGED <<rows, res, due, expected, clash>>
        BY <1>2 DEF BeginAdjust, Begin, db
    <2>2. RowsOK(rows[w])
        BY DEF SessionInv, Shape
    <2>3. x \in Row
        BY <1>2, <2>2 DEF RowsOK
    <2> HIDE DEF x
    <2>4. target - x.on_hand \in Int
        BY <2>3, BoundsOK DEF Row
    <2>5. j \in Job
        BY <2>3, <2>4, IdleType DEF Job, Op
    <2>6. /\ j.made = {} /\ j.settled = {} /\ j.pending = {} /\ j.op = "adjust" /\ j.at = w
          /\ j.base = [Idle.base EXCEPT ![w] = x] /\ j.copy = [Idle.copy EXCEPT ![w] = x]
        BY DEF Idle
    <2>7. \A v \in Warehouse : /\ j.base[v] = IF v = w THEN x ELSE None
                               /\ j.copy[v] = IF v = w THEN x ELSE None
        BY <2>6, IdleType DEF Idle
    <2> HIDE DEF j
    <2>8. x # None
        BY <2>3, NoneIsNoRow
    <2>9. JobOK(j) /\ MadeOK(j)
        BY <2>6, <2>7, <2>8 DEF JobOK, MadeOK
    <2>10. x.on_hand >= x.on_hand
        BY <2>3 DEF Row
    <2>11. Readable(j, rows, res) /\ Backed(j, res, clash) /\ Covered(j, rows, clash)
        BY <1>2, <2>6, <2>7, <2>8, <2>10 DEF Readable, Backed, Covered, x
    <2> QED BY <2>1, <2>5, <2>6, <2>9, <2>11, MemoryStep
<1> QED BY <1>1, <1>2

LEMMA ReadAvailableInv ==
    ASSUME SessionInv, NEW s \in Session, NEW w \in Warehouse, ReadAvailable(s, w)
    PROVE  SessionInv'
<1> DEFINE j == [job[s] EXCEPT !.seen[w] = Floor(OnHand(w) - ReservedAt(w))]
<1>1. job' = [job EXCEPT ![s] = j] /\ UNCHANGED <<rows, res, due, expected, clash>>
    BY DEF ReadAvailable, Continue, db
<1>2. rows[w] \in Seq(Row)
    BY DEF SessionInv, Shape, RowsOK
<1>3. HandIn(rows[w]) \in Int /\ KeptIn(rows[w]) \in Nat
    BY <1>2, RowTotals
<1>4. OnHand(w) \in Int /\ ReservedAt(w) \in Nat
    BY <1>3 DEF HandIn, KeptIn, OnHand, ReservedAt
<1>5. Floor(OnHand(w) - ReservedAt(w)) \in Int
    BY <1>4 DEF Floor
<1>6. job[s] \in Job
    BY DEF SessionInv, Shape
<1>7. j \in Job
    BY <1>5, <1>6 DEF Job
<1>8. /\ j.op = job[s].op /\ j.made = job[s].made /\ j.settled = job[s].settled
      /\ j.pending = job[s].pending /\ j.base = job[s].base /\ j.copy = job[s].copy
      /\ j.todo = job[s].todo /\ j.at = job[s].at
    BY <1>6 DEF Job
<1> HIDE DEF j
<1>9. JobOK(j) /\ MadeOK(j)
    BY <1>8 DEF SessionInv, JobsOK, JobOK, MadeOK
<1>10. Readable(j, rows, res) /\ Backed(j, res, clash) /\ Covered(j, rows, clash)
    <2>1. Readable(job[s], rows, res) /\ Backed(job[s], res, clash) /\ Covered(job[s], rows, clash)
        BY DEF SessionInv, JobsFit
    <2>2. Readable(j, rows, res)
        BY <1>8, <2>1 DEF Readable
    <2>3. Backed(j, res, clash)
        BY <1>8, <2>1 DEF Backed, BackedAt
    <2>4. Covered(j, rows, clash)
        BY <1>8, <2>1 DEF Covered
    <2> QED BY <2>2, <2>3, <2>4
<1>11. \A t \in Session \ {s} : \A m \in job[t].made, n \in j.made : m.id # n.id
    BY <1>8 DEF SessionInv, Exclusive
<1> QED BY <1>1, <1>7, <1>9, <1>10, <1>11, MemoryStep

LEMMA ReloadInv ==
    ASSUME SessionInv, NEW s \in Session, Reload(s)
    PROVE  SessionInv'
<1> DEFINE j == [job[s] EXCEPT !.op = "reloaded"]
<1>1. CASE Fail(s)
    BY <1>1, FailInv
<1>2. CASE Continue(s, j) /\ job[s].op = "adjust"
    <2>1. job' = [job EXCEPT ![s] = j] /\ UNCHANGED <<rows, res, due, expected, clash>>
        BY <1>2 DEF Continue, db
    <2>2. job[s] \in Job
        BY DEF SessionInv, Shape
    <2>3. j \in Job
        BY <2>2 DEF Job, Op
    <2>4. /\ j.op = "reloaded" /\ j.made = job[s].made /\ j.settled = job[s].settled
          /\ j.pending = job[s].pending /\ j.base = job[s].base /\ j.copy = job[s].copy
          /\ j.todo = job[s].todo /\ j.at = job[s].at
        BY <2>2 DEF Job
    <2> HIDE DEF j
    <2>5. JobOK(j) /\ MadeOK(j)
        BY <1>2, <2>4 DEF SessionInv, JobsOK, JobOK, MadeOK
    <2>6. Readable(j, rows, res) /\ Backed(j, res, clash) /\ Covered(j, rows, clash)
        BY <2>4 DEF SessionInv, JobsFit, Readable, Backed, Covered
    <2>7. \A t \in Session \ {s} : \A m \in job[t].made, n \in j.made : m.id # n.id
        BY <2>4 DEF SessionInv, Exclusive
    <2> QED BY <2>1, <2>3, <2>5, <2>6, <2>7, MemoryStep
<1> QED BY <1>1, <1>2 DEF Reload
(* The call i with a row x in memory, and the row b it was read as. *)
With(i, w, b, x) == [i EXCEPT !.at = None, !.base[w] = b, !.copy[w] = x]

LEMMA RowChanged ==
    ASSUME NEW i \in Job, NEW w \in Warehouse, NEW x \in Row, NEW b \in Row \cup {None}
    PROVE  LET j == With(i, w, b, x) IN
           /\ j \in Job /\ j.op = i.op /\ j.made = i.made /\ j.settled = i.settled
           /\ j.pending = i.pending /\ j.at = None
           /\ \A v \in Warehouse : /\ j.copy[v] = IF v = w THEN x ELSE i.copy[v]
                                   /\ j.base[v] = IF v = w THEN b ELSE i.base[v]
<1> DEFINE j == With(i, w, b, x)
<1>1. /\ i.base \in [Warehouse -> Row \cup {None}]
      /\ i.copy \in [Warehouse -> Row \cup {None}]
    BY DEF Job
<1>2. /\ [i.base EXCEPT ![w] = b] \in [Warehouse -> Row \cup {None}]
      /\ [i.copy EXCEPT ![w] = x] \in [Warehouse -> Row \cup {None}]
    BY <1>1
<1>3. /\ j.copy = [i.copy EXCEPT ![w] = x]
      /\ j.base = [i.base EXCEPT ![w] = b]
      /\ j.op = i.op /\ j.made = i.made /\ j.settled = i.settled
      /\ j.pending = i.pending /\ j.at = None
    BY DEF Job, With
<1>4. j \in Job
    BY <1>2 DEF Job, With
<1> QED BY <1>1, <1>3, <1>4

LEMMA ChangeStockInv ==
    ASSUME SessionInv, NEW s \in Session, ChangeStock(s)
    PROVE  SessionInv'
<1> DEFINE i == job[s]
           w == i.at
           new == [i EXCEPT !.at = None, !.copy[w] = [on_hand |-> Floor(i.delta), reserved |-> 0]]
           old == [i EXCEPT !.at = None, !.base[w] = LoadedBase(s, w),
                            !.copy[w] = [Loaded(s, w) EXCEPT !.on_hand = @ + i.delta]]
<1>1. /\ i.op \in {"adjust", "receive"} /\ w # None
      /\ \/ Fail(s)
         \/ Missing(s, w) /\ Continue(s, new)
         \/ ~Missing(s, w) /\ Continue(s, old)
    BY DEF ChangeStock
<1>2. /\ i \in Job /\ w \in Warehouse /\ JobOK(i) /\ MadeOK(i)
      /\ Readable(i, rows, res) /\ Covered(i, rows, clash)
    BY <1>1 DEF SessionInv, Shape, JobsOK, JobsFit, Job
<1>3. /\ i.made = {} /\ i.settled = {} /\ i.pending = {}
      /\ \A v \in Warehouse : i.copy[v] # None => i.base[v] # None
    BY <1>1, <1>2 DEF JobOK
<1>4. ASSUME NEW j \in Job, Continue(s, j), j.op = i.op,
             j.made = {}, j.settled = {}, j.pending = {}, JobOK(j),
             Readable(j, rows, res), Covered(j, rows, clash)
      PROVE  SessionInv'
    <2>1. job' = [job EXCEPT ![s] = j] /\ UNCHANGED <<rows, res, due, expected, clash>>
        BY <1>4 DEF Continue, db
    <2>2. MadeOK(j) /\ Backed(j, res, clash)
        BY <1>1, <1>4 DEF MadeOK, Backed
    <2> QED BY <1>4, <2>1, <2>2, MemoryStep
<1>5. CASE Missing(s, w) /\ Continue(s, new)
    <2> DEFINE x == [on_hand |-> Floor(i.delta), reserved |-> 0]
    <2>1. x \in Row /\ x.reserved = 0 /\ x.on_hand >= 0
        BY <1>2 DEF Job, Row, Floor
    <2> HIDE DEF x
    <2>2. new = With(i, w, i.base[w], x)
        BY <1>2 DEF x, Job, With
    <2> HIDE DEF new
    <2>3. i.base[w] \in Row \cup {None}
        BY <1>2 DEF Job
    <2>4. /\ new \in Job /\ new.op = i.op /\ new.made = i.made /\ new.settled = i.settled
          /\ new.pending = i.pending /\ new.at = None
          /\ \A v \in Warehouse : new.copy[v] = IF v = w THEN x ELSE i.copy[v]
          /\ \A v \in Warehouse : new.base[v] = i.base[v]
        <3>1. i \in Job /\ w \in Warehouse /\ x \in Row
            BY <1>2, <2>1
        <3> HIDE DEF i, w, old
        <3>2. /\ new \in Job /\ new.op = i.op /\ new.made = i.made /\ new.settled = i.settled
              /\ new.pending = i.pending /\ new.at = None
              /\ \A v \in Warehouse : /\ new.copy[v] = IF v = w THEN x ELSE i.copy[v]
                                      /\ new.base[v] = IF v = w THEN i.base[w] ELSE i.base[v]
            BY <3>1, <2>2, <2>3, RowChanged
        <3> QED BY <3>2
    <2>5. x # None /\ i.base[w] = None
        BY <1>2, <1>5, <2>1, NoneIsNoRow DEF Missing, JobOK
    <2>6. JobOK(new)
        BY <1>1, <1>2, <1>3, <2>1, <2>4, <2>5 DEF JobOK
    <2>7. Readable(new, rows, res) /\ Covered(new, rows, clash)
        BY <1>2, <1>3, <2>4 DEF Readable, Covered
    <2> QED BY <1>3, <1>4, <1>5, <2>4, <2>6, <2>7
<1>6. CASE ~Missing(s, w) /\ Continue(s, old)
    <2> DEFINE b == LoadedBase(s, w)
               x == [Loaded(s, w) EXCEPT !.on_hand = @ + i.delta]
    <2>1. /\ Loaded(s, w) \in Row /\ b \in Row \cup {None}
          /\ i.copy[w] # None => Loaded(s, w) = i.copy[w] /\ b = i.base[w]
          /\ i.copy[w] = None => Loaded(s, w) = rows[w][1] /\ b = rows[w][1] /\ rows[w] # <<>>
        BY <1>2, <1>6, LoadedRow
    <2>2. x \in Row /\ x.reserved = Loaded(s, w).reserved
        BY <1>2, <2>1 DEF Job, Row
    <2>3. old = With(i, w, b, x)
        BY DEF With
    <2> HIDE DEF x, b, old
    <2>5. /\ old \in Job /\ old.op = i.op /\ old.made = i.made /\ old.settled = i.settled
          /\ old.pending = i.pending /\ old.at = None
          /\ \A v \in Warehouse : /\ old.copy[v] = IF v = w THEN x ELSE i.copy[v]
                                  /\ old.base[v] = IF v = w THEN b ELSE i.base[v]
        <3>1. i \in Job /\ w \in Warehouse /\ x \in Row /\ b \in Row \cup {None}
            BY <1>2, <2>1, <2>2
        <3> HIDE DEF i, w, new
        <3> QED BY <3>1, <2>3, RowChanged
    <2>6. x # None /\ b # None /\ x.reserved = b.reserved
        <3>1. CASE i.copy[w] # None
            BY <1>1, <1>2, <1>3, <2>1, <2>2, <3>1, NoneIsNoRow DEF JobOK
        <3>2. CASE i.copy[w] = None
            BY <2>1, <2>2, <3>2, NoneIsNoRow
        <3> QED BY <3>1, <3>2
    <2>7. JobOK(old)
        BY <1>1, <1>2, <1>3, <2>5, <2>6 DEF JobOK
    <2>8. \/ b = i.base[w] /\ i.base[w] # None
          \/ b = rows[w][1] /\ rows[w] # <<>> /\ b \in Row
        <3>1. CASE i.copy[w] # None
            <4>1. w \in Warehouse /\ \A v \in Warehouse : i.copy[v] # None => i.base[v] # None
                BY <1>2, <1>3
            <4>2. i.base[w] # None
                BY <3>1, <4>1
            <4> QED BY <2>1, <3>1, <4>2
        <3>2. CASE i.copy[w] = None
            BY <2>1, <2>6, <3>2
        <3> QED BY <3>1, <3>2
    <2>9. Readable(old, rows, res)
        BY <1>2, <1>3, <2>5, <2>8 DEF Readable
    <2>10. Covered(old, rows, clash)
        BY <1>2, <2>5, <2>8 DEF Covered, Row
    <2> QED BY <1>3, <1>4, <1>6, <2>5, <2>7, <2>9, <2>10
<1> QED BY <1>1, <1>5, <1>6, FailInv

(* A take finds the warehouse untouched by its own call, and leaves the row   *)
(* in memory no more reserved than there is.                                *)
LEMMA TakeInv ==
    ASSUME SessionInv, NEW s \in Session, NEW w \in Warehouse, NEW r \in Reservation, Take(s, w, r)
    PROVE  SessionInv'
<1> DEFINE i == job[s]
           qty == Least(i.need, i.seen[w])
           m == [id |-> r, warehouse |-> w, quantity |-> qty]
           b == LoadedBase(s, w)
           x == [Loaded(s, w) EXCEPT !.reserved = @ + qty]
           j == [i EXCEPT !.todo = @ \ {w}, !.need = @ - qty, !.made = @ \cup {m},
                          !.base[w] = b, !.copy[w] = x]
<1>1. /\ i.op = "allocate" /\ w \in Candidates(s) /\ res[r].status = "none"
      /\ \A t \in Session : \A n \in job[t].made : n.id # r
      /\ \/ Fail(s)
         \/ ~Missing(s, w) /\ ~Short(Loaded(s, w), qty) /\ Continue(s, j)
    BY DEF Take
<1>2. /\ i \in Job /\ JobOK(i) /\ MadeOK(i)
      /\ Readable(i, rows, res) /\ Covered(i, rows, clash)
    BY DEF SessionInv, Shape, JobsOK, JobsFit
<1>3. w \in i.todo /\ i.need > 0 /\ i.seen[w] > 0
    BY <1>1 DEF Candidates
<1>4. qty \in Nat \ {0} /\ i.need - qty \in Nat
    BY <1>2, <1>3 DEF Job, Least
<1> HIDE DEF qty
<1>5. i.copy[w] = None /\ i.base[w] = None
    BY <1>1, <1>2, <1>3 DEF JobOK, MadeOK
<1>6. CASE ~Missing(s, w) /\ ~Short(Loaded(s, w), qty) /\ Continue(s, j)
    <2>1. b \in Row /\ Loaded(s, w) = b /\ b = rows[w][1] /\ rows[w] # <<>>
        BY <1>5, <1>6, LoadedRow
    <2>2. /\ x \in Row /\ x.on_hand = b.on_hand /\ x.reserved = b.reserved + qty
        BY <1>4, <2>1 DEF Row
    <2>3. x.reserved <= b.on_hand
        BY <1>4, <1>6, <2>1, <2>2 DEF Short, Floor, Row
    <2>4. m \in Promise /\ m.id = r /\ m.warehouse = w /\ m.quantity = qty
        BY <1>4 DEF Promise
    <2> HIDE DEF b, x, m
    <2>5. j \in Job
        <3> DEFINE base == [i.base EXCEPT ![w] = b]
                   copy == [i.copy EXCEPT ![w] = x]
        <3>1. /\ base \in [Warehouse -> Row \cup {None}] /\ copy \in [Warehouse -> Row \cup {None}]
              /\ i.todo \ {w} \in SUBSET Warehouse /\ i.made \cup {m} \in SUBSET Promise
            BY <1>2, <2>1, <2>2, <2>4 DEF Job
        <3>2. j = [i EXCEPT !.todo = i.todo \ {w}, !.need = i.need - qty, !.made = i.made \cup {m},
                            !.base = base, !.copy = copy]
            OBVIOUS
        <3> HIDE DEF base, copy, j
        <3> QED BY <1>2, <1>4, <3>1, <3>2 DEF Job
    <2>6. /\ j.op = "allocate" /\ j.made = i.made \cup {m} /\ j.settled = i.settled
          /\ j.pending = i.pending /\ j.todo = i.todo \ {w}
          /\ \A v \in Warehouse : /\ j.copy[v] = IF v = w THEN x ELSE i.copy[v]
                                  /\ j.base[v] = IF v = w THEN b ELSE i.base[v]
        BY <1>1, <1>2 DEF Job
    <2>7. job' = [job EXCEPT ![s] = j] /\ UNCHANGED <<rows, res, due, expected, clash>>
        BY <1>6 DEF Continue, db
    <2> HIDE DEF j
    <2>8. x # None /\ b # None
        BY <2>1, <2>2, NoneIsNoRow
    <2>9. JobOK(j)
        BY <1>1, <1>2, <2>2, <2>6, <2>8 DEF JobOK
    <2>10. \A n \in i.made : n.id # r /\ n.warehouse \in Warehouse /\ n.warehouse # w
        BY <1>1, <1>2, <1>3 DEF MadeOK, Job, Promise
    <2>11. MadeOK(j)
        <3>1. \A n, o \in j.made : n.id = o.id \/ n.warehouse = o.warehouse => n = o
            BY <1>2, <2>4, <2>6, <2>10 DEF MadeOK
        <3>2. ASSUME NEW n \in j.made
              PROVE  /\ n.warehouse \notin j.todo /\ j.base[n.warehouse] # None
                     /\ j.copy[n.warehouse].reserved = j.base[n.warehouse].reserved + n.quantity
                     /\ j.copy[n.warehouse].reserved <= j.base[n.warehouse].on_hand
            <4>1. CASE n = m
                BY <2>2, <2>3, <2>4, <2>6, <2>8, <4>1
            <4>2. CASE n \in i.made
                BY <1>2, <2>6, <2>10, <4>2 DEF MadeOK
            <4> QED BY <2>6, <4>1, <4>2
        <3>3. \A v \in Warehouse : j.copy[v] # None => \E n \in j.made : n.warehouse = v
            BY <1>1, <1>2, <2>4, <2>6 DEF MadeOK
        <3> QED BY <3>1, <3>2, <3>3 DEF MadeOK
    <2>12. Readable(j, rows, res)
        BY <1>1, <1>2, <2>1, <2>4, <2>6, <2>8 DEF Readable, JobOK
    <2>13. Backed(j, res, clash)
        BY <2>6 DEF Backed
    <2>14. Covered(j, rows, clash)
        BY <1>2, <2>1, <2>6 DEF Covered, Row
    <2>15. \A t \in Session \ {s} : \A n \in job[t].made, o \in j.made : n.id # o.id
        BY <1>1, <2>4, <2>6 DEF SessionInv, Exclusive
    <2> QED BY <2>5, <2>7, <2>9, <2>11, <2>12, <2>13, <2>14, <2>15, MemoryStep
<1> QED BY <1>1, <1>6, FailInv
(* The counter of a warehouse without a clash covers any of its active        *)
(* reservations.                                                            *)
LEMMA CounterCovers ==
    ASSUME SessionInv, NEW w \in Warehouse, <<w, "reserved">> \notin clash, rows[w] # <<>>,
           NEW T \in SUBSET Reservation
    PROVE  rows[w][1].reserved >= Total(Active(res, T, w), Amount(res))
<1>1. RowsOK(rows[w]) /\ res \in [Reservation -> Booking]
    BY DEF SessionInv, Shape
<1>2. rows[w][1].reserved = KeptIn(rows[w])
    BY <1>1, OldestRow
<1>3. ReservedAt(w) = KeptIn(rows[w]) /\ Held(w) = HeldIn(res, w)
    BY DEF ReservedAt, KeptIn, Held, HeldIn, ActiveAt, Active, Amount
<1>4. ReservedAt(w) = Held(w)
    BY DEF SessionInv, DriftNeedsOverlap
<1>5. Active(res, Reservation, w) \in SUBSET Reservation
    BY DEF Active
<1>6. Active(res, T, w) \in SUBSET Active(res, Reservation, w)
    BY DEF Active
<1>7. Total(Active(res, T, w), Amount(res)) <= HeldIn(res, w)
    BY <1>1, <1>5, <1>6, PartOfTotal DEF HeldIn
<1>8. Total(Active(res, T, w), Amount(res)) \in Nat /\ HeldIn(res, w) \in Nat
    BY <1>1, <1>5, <1>6, AmountsCount DEF HeldIn
<1> QED BY <1>2, <1>3, <1>4, <1>7, <1>8

(* Where nobody else has interfered, the floor of a release never bites.     *)
LEMMA ReleaseInv ==
    ASSUME SessionInv, NEW s \in Session, NEW r \in Reservation, Release(s, r)
    PROVE  SessionInv'
<1> DEFINE i == job[s]
           w == res[r].warehouse
           q == res[r].quantity
           c == Loaded(s, w)
           b == LoadedBase(s, w)
           x == GivenBack(c, q)
           j == [i EXCEPT !.pending = @ \ {r}, !.settled = @ \cup {r},
                          !.base[w] = b, !.copy[w] = x]
<1>1. /\ i.op = "release" /\ r \in i.pending
      /\ Fail(s) \/ Continue(s, j)
    BY DEF Release
<1>2. /\ i \in Job /\ JobOK(i) /\ MadeOK(i) /\ res \in [Reservation -> Booking]
      /\ Readable(i, rows, res) /\ Backed(i, res, clash) /\ Covered(i, rows, clash)
    BY DEF SessionInv, Shape, JobsOK, JobsFit
<1>3. res[r].status # "none"
    BY <1>1, <1>2 DEF Readable
<1>4. w \in Warehouse /\ rows[w] # <<>>
    BY <1>3 DEF SessionInv, Shape
<1>5. q \in Nat
    BY <1>2 DEF Booking
<1>6. /\ c \in Row /\ b \in Row
      /\ i.copy[w] # None => c = i.copy[w] /\ b = i.base[w] /\ i.base[w] # None
      /\ i.copy[w] = None => c = b /\ b = rows[w][1] /\ i.base[w] = None
      /\ c.on_hand = b.on_hand
    <2>1. ~Missing(s, w)
        BY <1>4 DEF Missing
    <2>2. /\ c \in Row /\ b \in Row \cup {None}
          /\ i.copy[w] # None => c = i.copy[w] /\ b = i.base[w]
          /\ i.copy[w] = None => c = rows[w][1] /\ b = rows[w][1]
        BY <1>4, <2>1, LoadedRow
    <2>3. /\ i.copy[w] # None => i.base[w] # None /\ i.copy[w].on_hand = i.base[w].on_hand
          /\ i.copy[w] = None => i.base[w] = None
        BY <1>1, <1>2, <1>4 DEF JobOK
    <2> QED BY <2>2, <2>3
<1> HIDE DEF c, b
<1>7. x \in Row /\ x.on_hand = c.on_hand /\ x.reserved = Floor(c.reserved - q)
    BY <1>5, <1>6 DEF GivenBack, Row, Floor
<1> HIDE DEF x
<1>8. CASE Continue(s, j)
    <2>1. job' = [job EXCEPT ![s] = j] /\ UNCHANGED <<rows, res, due, expected, clash>>
        BY <1>8 DEF Continue, db
    <2>2. j \in Job
        BY <1>2, <1>4, <1>6, <1>7 DEF Job
    <2>3. /\ j.op = "release" /\ j.made = i.made /\ j.settled = i.settled \cup {r}
          /\ j.pending = i.pending \ {r} /\ j.todo = i.todo
          /\ \A v \in Warehouse : /\ j.copy[v] = IF v = w THEN x ELSE i.copy[v]
                                  /\ j.base[v] = IF v = w THEN b ELSE i.base[v]
        BY <1>1, <1>2 DEF Job
    <2>4. i.made = {} /\ i.settled \in SUBSET Reservation /\ i.pending \in SUBSET Reservation
        BY <1>1, <1>2 DEF JobOK, Job
    <2> HIDE DEF j
    <2>5. x # None /\ b # None
        BY <1>6, <1>7, NoneIsNoRow
    <2>6. JobOK(j)
        BY <1>1, <1>2, <1>6, <1>7, <2>3, <2>4, <2>5 DEF JobOK
    <2>7. MadeOK(j)
        BY <2>3, <2>4 DEF MadeOK
    <2>8. Readable(j, rows, res)
        <3>1. \A v \in Warehouse : j.base[v] # None => rows[v] # <<>>
            BY <1>2, <1>4, <2>3 DEF Readable
        <3>2. \A t \in j.pending \cup j.settled : res[t].status # "none"
            BY <1>2, <1>3, <2>3 DEF Readable
        <3>3. ASSUME NEW t \in j.settled PROVE j.base[res[t].warehouse] # None
            <4>1. t \in Reservation /\ res[t].status # "none"
                BY <2>3, <2>4, <3>2
            <4>2. res[t].warehouse \in Warehouse
                BY <4>1 DEF SessionInv, Shape
            <4> QED BY <1>2, <2>3, <2>5, <4>2 DEF Readable
        <3> QED BY <2>3, <2>4, <3>1, <3>2, <3>3 DEF Readable
    <2>9. Covered(j, rows, clash)
        <3>1. b.on_hand \in Int
            BY <1>6 DEF Row
        <3>2. b = i.base[w] \/ b = rows[w][1]
            BY <1>6
        <3> QED BY <1>2, <1>4, <1>6, <2>3, <3>1, <3>2 DEF Covered
    <2>10. Backed(j, res, clash)
        <3>1. j.pending \cup j.settled = i.pending \cup i.settled
            BY <1>1, <2>3
        <3> SUFFICES ASSUME NEW v \in Warehouse, j.base[v] # None, <<v, "reserved">> \notin clash,
                            \A t \in At(res, j.settled, v) : res[t].status = "active"
                     PROVE  BackedAt(j, res, v)
            BY DEF Backed
        <3>2. CASE v # w
            <4>1. At(res, j.settled, v) = At(res, i.settled, v)
                BY <2>3, <3>2 DEF At
            <4>2. j.base[v] = i.base[v] /\ j.copy[v] = i.copy[v]
                BY <2>3, <3>2
            <4>3. BackedAt(i, res, v)
                BY <1>1, <1>2, <4>1, <4>2 DEF Backed
            <4> QED BY <3>1, <4>1, <4>2, <4>3 DEF BackedAt
        <3>3. CASE v = w
            <4> DEFINE S == At(res, i.settled, w)
                       N == At(res, j.settled, w)
                       A == Active(res, i.pending \cup i.settled, w)
            <4>1. N = S \cup {r} /\ S \subseteq N /\ r \in Reservation
                BY <2>3 DEF At
            <4>2. N \in SUBSET A /\ A \in SUBSET Reservation /\ S \in SUBSET Reservation
                BY <1>1, <2>3, <2>4, <3>3 DEF At, Active
            <4>3. r \notin i.settled => r \notin S
                BY DEF At
            <4>4. /\ b.reserved >= Total(A, Amount(res))
                  /\ c.reserved = b.reserved - Total(S, Amount(res))
                <5>1. CASE i.copy[w] = None
                    <6>1. b.reserved >= Total(A, Amount(res))
                        <7>1. i.pending \cup i.settled \in SUBSET Reservation
                            BY <2>4
                        <7> QED BY <1>4, <1>6, <3>3, <5>1, <7>1, CounterCovers
                    <6>2. S = {}
                        BY <1>2, <1>6, <5>1 DEF At, Readable
                    <6>3. Total(S, Amount(res)) = 0
                        BY <6>2, TotalEmpty
                    <6> QED BY <1>6, <5>1, <6>1, <6>3 DEF Row
                <5>2. CASE i.copy[w] # None
                    <6>1. \A t \in S : res[t].status = "active"
                        BY <3>3, <4>1
                    <6>2. BackedAt(i, res, w)
                        BY <1>1, <1>2, <1>4, <1>6, <3>3, <5>2, <6>1 DEF Backed
                    <6> QED BY <1>6, <5>2, <6>2 DEF BackedAt
                <5> QED BY <5>1, <5>2
            <4> HIDE DEF S, N, A
            <4>5. Total(N, Amount(res)) <= Total(A, Amount(res))
                BY <1>2, <4>2, PartOfTotal
            <4>6. /\ Total(N, Amount(res)) \in Nat /\ Total(A, Amount(res)) \in Nat
                  /\ Total(S, Amount(res)) \in Nat
                BY <1>2, <4>2, AmountsCount
            <4>7. Total(N, Amount(res)) = Total(S, Amount(res)) + q
                <5>1. Amount(res)[r] = q
                    BY DEF Amount
                <5>2. N \ S = {r}
                    BY <1>1, <1>2, <4>1, <4>3 DEF JobOK
                <5>3. Total(N \ S, Amount(res)) = Total(N, Amount(res)) - Total(S, Amount(res))
                    <6>1. N \in SUBSET Reservation /\ S \in SUBSET N
                        BY <4>1, <4>2
                    <6> QED BY <1>2, <6>1, PartOfTotal
                <5>4. Total({r}, Amount(res)) = q
                    BY <1>5, <5>1, TotalSingleton
                <5>5. q = Total(N, Amount(res)) - Total(S, Amount(res))
                    BY <5>2, <5>3, <5>4
                <5> HIDE DEF q
                <5> QED BY <4>6, <1>5, <5>5
            <4>8. x.reserved = b.reserved - Total(N, Amount(res))
                <5>1. b.reserved \in Nat /\ c.reserved \in Nat
                    BY <1>6 DEF Row
                <5>2. c.reserved - q = b.reserved - Total(N, Amount(res)) /\ c.reserved - q >= 0
                    BY <1>5, <4>4, <4>5, <4>6, <4>7, <5>1
                <5> QED BY <1>5, <1>7, <5>1, <5>2 DEF Floor
            <4> QED BY <2>3, <3>1, <3>3, <4>4, <4>8 DEF BackedAt, A, N
        <3> QED BY <3>2, <3>3
    <2>11. \A t \in Session \ {s} : \A m \in job[t].made, n \in j.made : m.id # n.id
        BY <2>3, <2>4
    <2> QED BY <2>1, <2>2, <2>6, <2>7, <2>8, <2>9, <2>10, <2>11, MemoryStep
<1> QED BY <1>1, <1>8, FailInv

LEMMA InitInv == Init => SessionInv
<1> SUFFICES ASSUME Init PROVE SessionInv
    OBVIOUS
<1>1. expected \in [Warehouse -> Nat]
    BY StocksAreNat DEF Init
<1>2. ASSUME NEW w \in Warehouse
      PROVE  RowsOK(rows[w]) /\ HandIn(rows[w]) = expected[w] /\ KeptIn(rows[w]) = 0
    <2>1. CASE expected[w] = 0
        <3>1. rows[w] = <<>>
            BY <2>1 DEF Init
        <3> QED BY <2>1, <3>1, NoRowTotals DEF RowsOK
    <2>2. CASE expected[w] # 0
        <3> DEFINE x == [on_hand |-> expected[w], reserved |-> 0]
        <3>1. rows[w] = Append(<<>>, x)
            BY <2>2 DEF Init
        <3>2. x \in Row /\ x.on_hand = expected[w] /\ x.reserved = 0
            BY <1>1 DEF Row
        <3> HIDE DEF x
        <3>3. <<>> \in Seq(Row)
            OBVIOUS
        <3>4. /\ Append(<<>>, x) \in Seq(Row) /\ HandIn(Append(<<>>, x)) = 0 + expected[w]
              /\ KeptIn(Append(<<>>, x)) = 0 + 0
            BY <3>2, <3>3, RowInserted, NoRowTotals
        <3>5. Len(Append(<<>>, x)) = 1
            OBVIOUS
        <3> QED BY <1>1, <3>1, <3>4, <3>5 DEF RowsOK
    <2> QED BY <2>1, <2>2
<1>3. res \in [Reservation -> Booking] /\ \A r \in Reservation : res[r].status = "none"
    BY DEF Init, Blank, Booking
<1>4. Shape
    BY <1>1, <1>2, <1>3, IdleType DEF Init, Shape
<1>5. \A s \in Session : job[s] = Idle
    BY DEF Init
<1>6. JobOK(Idle) /\ MadeOK(Idle)
    BY IdleType DEF JobOK, MadeOK
<1>7. Readable(Idle, rows, res) /\ Backed(Idle, res, clash) /\ Covered(Idle, rows, clash)
    BY IdleType DEF Readable, Backed, BackedAt, Covered, Idle
<1>8. JobsOK /\ JobsFit /\ Exclusive
    BY <1>5, <1>6, <1>7, IdleType DEF JobsOK, JobsFit, Exclusive
<1>9. \A w \in Warehouse : Held(w) = 0
    <2>1. \A w \in Warehouse : ActiveAt(w) = {}
        BY <1>3 DEF ActiveAt
    <2> QED BY <2>1, TotalEmpty DEF Held
<1>10. \A w \in Warehouse : OnHand(w) = expected[w] /\ ReservedAt(w) = 0
    BY <1>2 DEF OnHand, ReservedAt, HandIn, KeptIn
<1>11. DriftNeedsOverlap /\ StockSurvives /\ OversellNeedsOverlap
    BY <1>1, <1>9, <1>10 DEF DriftNeedsOverlap, StockSurvives, OversellNeedsOverlap
<1> QED BY <1>4, <1>8, <1>11 DEF SessionInv

-----------------------------------------------------------------------------
(* What a commit leaves of the rows Q, where the call has read the row b and *)
(* has c in memory.                                                         *)
Committed(Q, b, c) ==
    IF b # None THEN [Q EXCEPT ![1] = Written(Q[1], b, c)]
    ELSE IF c # None THEN Append(Q, c) ELSE Q

LEMMA CommittedRows ==
    ASSUME NEW Q, RowsOK(Q), NEW b \in Row \cup {None}, NEW c \in Row \cup {None},
           b # None => c # None /\ Q # <<>>,
           b = None /\ c # None => c.reserved = 0 /\ c.on_hand >= 0
    PROVE  LET P == Committed(Q, b, c) IN
           /\ RowsOK(P)
           /\ Q # <<>> \/ c # None => P # <<>>
           /\ b = None /\ Q # <<>> => P[1] = Q[1]
           /\ b # None => /\ P[1] = Written(Q[1], b, c)
                          /\ HandIn(P) = HandIn(Q) + P[1].on_hand - Q[1].on_hand
           /\ b = None /\ c # None => HandIn(P) = HandIn(Q) + c.on_hand /\ KeptIn(P) = KeptIn(Q)
           /\ b = None /\ c = None => P = Q
<1> DEFINE P == Committed(Q, b, c)
<1>1. Q \in Seq(Row) /\ \A i \in 2 .. Len(Q) : Q[i].reserved = 0 /\ Q[i].on_hand >= 0
    BY DEF RowsOK
<1>2. CASE b # None
    <2> DEFINE x == Written(Q[1], b, c)
    <2>1. Q # <<>> /\ b \in Row /\ c \in Row /\ Q[1] \in Row
        BY <1>1, <1>2
    <2>2. x \in Row
        BY <2>1 DEF Written, Row
    <2>3. P = [Q EXCEPT ![1] = x]
        BY <1>2 DEF Committed
    <2> HIDE DEF x, P
    <2>4. /\ [Q EXCEPT ![1] = x] \in Seq(Row)
          /\ HandIn([Q EXCEPT ![1] = x]) = HandIn(Q) + x.on_hand - Q[1].on_hand
        BY <1>1, <2>1, <2>2, RowUpdated
    <2>5. Len(P) = Len(Q) /\ P[1] = x /\ P # <<>> /\ \A i \in 2 .. Len(P) : P[i] = Q[i]
        BY <1>1, <2>1, <2>2, <2>3
    <2>6. RowsOK(P)
        BY <1>1, <2>3, <2>4, <2>5 DEF RowsOK
    <2> QED BY <1>2, <2>3, <2>4, <2>5, <2>6 DEF x, P
<1>3. CASE b = None /\ c # None
    <2>1. c \in Row /\ c.reserved = 0 /\ c.on_hand >= 0
        BY <1>3
    <2>2. P = Append(Q, c)
        BY <1>3 DEF Committed
    <2> HIDE DEF P
    <2>3. /\ Append(Q, c) \in Seq(Row)
          /\ HandIn(Append(Q, c)) = HandIn(Q) + c.on_hand
          /\ KeptIn(Append(Q, c)) = KeptIn(Q) + c.reserved
        BY <1>1, <2>1, RowInserted
    <2>4. KeptIn(Q) \in Nat
        BY <1>1, RowTotals
    <2>5. /\ Len(P) = Len(Q) + 1 /\ Len(Q) \in Nat /\ P[Len(Q) + 1] = c /\ P # <<>>
          /\ \A i \in 1 .. Len(Q) : P[i] = Q[i]
        BY <1>1, <2>1, <2>2
    <2>6. ASSUME NEW i \in 2 .. Len(P) PROVE P[i].reserved = 0 /\ P[i].on_hand >= 0
        <3>1. CASE i = Len(Q) + 1
            BY <2>1, <2>5, <3>1
        <3>2. CASE i # Len(Q) + 1
            <4>1. i \in 2 .. Len(Q) /\ i \in 1 .. Len(Q)
                BY <2>5, <3>2
            <4> QED BY <1>1, <2>5, <4>1
        <3> QED BY <3>1, <3>2
    <2>7. RowsOK(P)
        BY <2>2, <2>3, <2>6 DEF RowsOK
    <2>8. Q # <<>> => P[1] = Q[1]
        <3>1. Q # <<>> => 1 \in 1 .. Len(Q)
            BY <1>1
        <3> QED BY <2>5, <3>1
    <2> QED BY <1>3, <2>1, <2>2, <2>3, <2>4, <2>5, <2>7, <2>8 DEF P
<1>4. CASE b = None /\ c = None
    BY <1>4 DEF Committed
<1> QED BY <1>2, <1>3, <1>4

(* What a commit leaves of the reservations R. *)
Made(j) == {m.id : m \in j.made}
Booked(j, R) ==
    [r \in Reservation |->
        IF r \in j.settled THEN [R[r] EXCEPT !.status = "released"]
        ELSE IF \E m \in j.made : m.id = r
        THEN LET m == CHOOSE m \in j.made : m.id = r
             IN  [status |-> "active", order |-> j.order,
                  warehouse |-> m.warehouse, quantity |-> m.quantity]
        ELSE R[r]]

LEMMA BookedReservations ==
    ASSUME NEW j \in Job, JobOK(j), MadeOK(j), NEW R \in [Reservation -> Booking]
    PROVE  LET P == Booked(j, R) IN
           /\ P \in [Reservation -> Booking]
           /\ \A r \in j.settled : P[r] = [R[r] EXCEPT !.status = "released"]
           /\ \A m \in j.made : P[m.id] = [status |-> "active", order |-> j.order,
                                           warehouse |-> m.warehouse, quantity |-> m.quantity]
           /\ \A r \in Reservation : r \notin j.settled /\ r \notin Made(j) => P[r] = R[r]
<1> DEFINE P == Booked(j, R)
           new(m) == [status |-> "active", order |-> j.order,
                      warehouse |-> m.warehouse, quantity |-> m.quantity]
<1>1. /\ j.made \in SUBSET Promise /\ j.order \in Order \cup {None}
      /\ j.settled \in SUBSET Reservation /\ (j.made = {} \/ j.settled = {})
    BY DEF Job, JobOK
<1>2. \A m \in j.made : m.id \in Reservation /\ new(m) \in Booking
    BY <1>1 DEF Promise, Booking
<1>3. \A m, n \in j.made : m.id = n.id => m = n
    BY DEF MadeOK
<1>4. ASSUME NEW r \in j.settled PROVE P[r] = [R[r] EXCEPT !.status = "released"] /\ P[r] \in Booking
    <2>1. r \in Reservation /\ R[r] \in Booking
        BY <1>1
    <2>2. P[r] = [R[r] EXCEPT !.status = "released"]
        BY <2>1 DEF Booked
    <2>3. [R[r] EXCEPT !.status = "released"] \in Booking
        BY <2>1 DEF Booking
    <2> QED BY <2>2, <2>3
<1>5. ASSUME NEW m \in j.made PROVE P[m.id] = new(m)
    <2>1. m.id \in Reservation /\ m.id \notin j.settled
        BY <1>1, <1>2
    <2>2. (CHOOSE n \in j.made : n.id = m.id) = m
        BY <1>3
    <2> QED BY <2>1, <2>2 DEF Booked
<1>6. ASSUME NEW r \in Reservation, r \notin j.settled, r \notin Made(j) PROVE P[r] = R[r]
    BY <1>6 DEF Booked, Made
<1>7. ASSUME NEW r \in Reservation PROVE P[r] \in Booking
    <2>1. CASE r \in j.settled
        BY <1>4, <2>1
    <2>2. CASE r \in Made(j)
        BY <1>2, <1>5, <2>2 DEF Made
    <2>3. CASE r \notin j.settled /\ r \notin Made(j)
        BY <1>6, <2>3
    <2> QED BY <2>1, <2>2, <2>3
<1>8. P \in [Reservation -> Booking]
    BY <1>7 DEF Booked
<1> HIDE DEF P
<1> QED BY <1>4, <1>5, <1>6, <1>8 DEF P

(* What the commit of another call may change under a call: rows gain stock  *)
(* where no clash L says otherwise, and a reservation is released or, unless *)
(* it is new, left alone.                                                   *)
RowsFollow(Q, P, L) ==
    \A w \in Warehouse :
        /\ RowsOK(Q[w]) /\ RowsOK(P[w])
        /\ Q[w] # <<>> => P[w] # <<>>
        /\ Q[w] # <<>> /\ {<<w, "on_hand">>, <<w, "lowered">>} \cap L = {} =>
              P[w][1].on_hand >= Q[w][1].on_hand
BookingsFollow(R, X, M) ==
    /\ R \in [Reservation -> Booking] /\ X \in [Reservation -> Booking]
    /\ \A r \in Reservation :
          \/ X[r] = R[r]
          \/ R[r].status = "none" /\ r \in M
          \/ R[r].status # "none" /\ X[r].status = "released" /\ X[r].warehouse = R[r].warehouse

LEMMA StillFits ==
    ASSUME NEW i \in Job, NEW Q, NEW R, NEW K, NEW P, NEW X, NEW L, NEW M,
           Readable(i, Q, R), Backed(i, R, K), Covered(i, Q, K), K \subseteq L,
           RowsFollow(Q, P, L), BookingsFollow(R, X, M), \A m \in i.made : m.id \notin M
    PROVE  Readable(i, P, X) /\ Backed(i, X, L) /\ Covered(i, P, L)
<1>1. /\ i.pending \cup i.settled \in SUBSET Reservation /\ i.made \in SUBSET Promise
      /\ i.base \in [Warehouse -> Row \cup {None}] /\ i.settled \in SUBSET Reservation
    BY DEF Job
<1>2. \A r \in i.pending \cup i.settled :
          /\ R[r].status # "none" /\ X[r].status # "none" /\ X[r].warehouse = R[r].warehouse
          /\ X[r].status = "active" => X[r] = R[r]
    BY <1>1 DEF Readable, BookingsFollow, Booking
<1>3. Readable(i, P, X)
    <2>1. \A w \in Warehouse : i.base[w] # None => P[w] # <<>>
        BY DEF Readable, RowsFollow
    <2>2. \A m \in i.made : X[m.id].status = "none"
        <3>1. \A m \in i.made : m.id \in Reservation
            BY <1>1 DEF Promise
        <3> QED BY <3>1 DEF Readable, BookingsFollow
    <2>3. \A r \in i.settled : i.base[X[r].warehouse] # None
        BY <1>2 DEF Readable
    <2> QED BY <1>2, <2>1, <2>2, <2>3 DEF Readable
<1>4. Covered(i, P, L)
    <2> SUFFICES ASSUME NEW w \in Warehouse, i.base[w] # None,
                        {<<w, "on_hand">>, <<w, "lowered">>} \cap L = {}
                 PROVE  P[w][1].on_hand >= i.base[w].on_hand
        BY DEF Covered
    <2>1. {<<w, "on_hand">>, <<w, "lowered">>} \cap K = {}
        OBVIOUS
    <2>2. Q[w] # <<>> /\ P[w] # <<>> /\ Q[w] \in Seq(Row) /\ P[w] \in Seq(Row)
        BY DEF Readable, RowsFollow, RowsOK
    <2>3. Q[w][1].on_hand >= i.base[w].on_hand
        BY <2>1 DEF Covered
    <2>4. P[w][1].on_hand >= Q[w][1].on_hand
        BY <2>2 DEF RowsFollow
    <2>5. Q[w][1].on_hand \in Int /\ P[w][1].on_hand \in Int
        BY <2>2, RowsListed
    <2>6. i.base[w].on_hand \in Int
        BY <1>1 DEF Row
    <2> QED BY <2>3, <2>4, <2>5, <2>6
<1>5. Backed(i, X, L)
    <2> SUFFICES ASSUME i.op = "release", NEW w \in Warehouse,
                        i.base[w] # None, <<w, "reserved">> \notin L,
                        \A r \in At(X, i.settled, w) : X[r].status = "active"
                 PROVE  BackedAt(i, X, w)
        BY DEF Backed
    <2> DEFINE T == i.pending \cup i.settled
    <2>1. At(X, i.settled, w) = At(R, i.settled, w)
        BY <1>2 DEF At
    <2>2. \A r \in At(R, i.settled, w) : X[r] = R[r] /\ R[r].status = "active"
        BY <1>2, <2>1 DEF At
    <2>3. BackedAt(i, R, w)
        BY <2>2 DEF Backed
    <2>4. Active(X, T, w) \subseteq Active(R, T, w) /\ \A r \in Active(X, T, w) : X[r] = R[r]
        BY <1>2 DEF Active
    <2>5. Active(R, T, w) \in SUBSET Reservation /\ At(R, i.settled, w) \in SUBSET Reservation
        BY <1>1 DEF Active, At
    <2>6. Total(At(X, i.settled, w), Amount(X)) = Total(At(R, i.settled, w), Amount(R))
        <3>1. \A r \in At(R, i.settled, w) : Amount(X)[r] = Amount(R)[r]
            BY <2>2, <2>5 DEF Amount
        <3> QED BY <2>1, <3>1, TotalSame
    <2> HIDE DEF T
    <2>7. Total(Active(X, T, w), Amount(X)) = Total(Active(X, T, w), Amount(R))
        <3>1. \A r \in Active(X, T, w) : Amount(X)[r] = Amount(R)[r]
            BY <2>4, <2>5 DEF Amount
        <3> QED BY <3>1, TotalSame
    <2>8. R \in [Reservation -> Booking]
        BY DEF BookingsFollow
    <2>9. Total(Active(X, T, w), Amount(R)) <= Total(Active(R, T, w), Amount(R))
        BY <2>4, <2>5, <2>8, PartOfTotal
    <2>10. Total(Active(X, T, w), Amount(R)) \in Nat /\ Total(Active(R, T, w), Amount(R)) \in Nat
        BY <2>4, <2>5, <2>8, AmountsCount
    <2>11. i.base[w].reserved \in Nat
        BY <1>1 DEF Row
    <2>12. i.base[w].reserved >= Total(Active(R, T, w), Amount(R))
        BY <2>3 DEF BackedAt, T
    <2>13. i.base[w].reserved >= Total(Active(X, T, w), Amount(X))
        BY <2>7, <2>9, <2>10, <2>11, <2>12
    <2> QED BY <2>3, <2>6, <2>13 DEF BackedAt, T
<1> QED BY <1>3, <1>4, <1>5

(* A column that a commit writes is as the call has read it, unless the      *)
(* commit adds a clash.                                                     *)
LEMMA Undisturbed ==
    ASSUME SessionInv, NEW s \in Session, NEW w \in Warehouse
    PROVE  LET j == job[s] IN
           /\ <<w, "reserved">> \notin Disturbed(s) =>
                 /\ j.base[w] # None /\ j.copy[w].reserved # j.base[w].reserved =>
                       rows[w][1].reserved = j.base[w].reserved
                 /\ \A r \in At(res, j.settled, w) : res[r].status = "active"
           /\ <<w, "on_hand">> \notin Disturbed(s) =>
                 (j.base[w] # None /\ j.copy[w].on_hand # j.base[w].on_hand =>
                       rows[w][1].on_hand = j.base[w].on_hand)
           /\ <<w, "lowered">> \notin Disturbed(s) =>
                 (j.base[w] # None => j.copy[w].on_hand >= j.base[w].on_hand)
<1> DEFINE j == job[s]
<1>1. j \in Job /\ JobOK(j)
    BY DEF SessionInv, Shape, JobsOK
<1>2. j.base[w] # None => w \in Updated(s)
    BY <1>1 DEF JobOK, Updated, Touched
<1>3. ASSUME NEW col \in {"on_hand", "reserved"}, j.base[w] # None,
             j.copy[w][col] # j.base[w][col], rows[w][1][col] # j.base[w][col]
      PROVE  <<w, col>> \in Disturbed(s)
    <2> DEFINE p == <<w, col>>
    <2>1. p \in Updated(s) \X {"on_hand", "reserved"} /\ p[1] = w /\ p[2] = col
        BY <1>2, <1>3
    <2> QED BY <1>3, <2>1 DEF Disturbed
<1>4. ASSUME NEW r \in At(res, j.settled, w), res[r].status # "active"
      PROVE  <<w, "reserved">> \in Disturbed(s)
    <2>1. r \in {q \in j.settled : res[q].status # "active"} /\ res[r].warehouse = w
        BY <1>4 DEF At
    <2> QED BY <2>1 DEF Disturbed
<1>5. ASSUME j.base[w] # None, j.copy[w].on_hand < j.base[w].on_hand
      PROVE  <<w, "lowered">> \in Disturbed(s)
    BY <1>2, <1>5 DEF Disturbed
<1>6. j.base[w] # None => j.copy[w].on_hand \in Int /\ j.base[w].on_hand \in Int
    BY <1>1 DEF Job, JobOK, Row
<1>7. <<w, "reserved">> \notin Disturbed(s) =>
          /\ j.base[w] # None /\ j.copy[w].reserved # j.base[w].reserved =>
                rows[w][1].reserved = j.base[w].reserved
          /\ \A r \in At(res, j.settled, w) : res[r].status = "active"
    BY <1>3, <1>4
<1>8. <<w, "on_hand">> \notin Disturbed(s) =>
          (j.base[w] # None /\ j.copy[w].on_hand # j.base[w].on_hand =>
                rows[w][1].on_hand = j.base[w].on_hand)
    BY <1>3
<1>9. <<w, "lowered">> \notin Disturbed(s) =>
          (j.base[w] # None => j.copy[w].on_hand >= j.base[w].on_hand)
    BY <1>5, <1>6
<1> QED BY <1>7, <1>8, <1>9

(* One warehouse after the commit of s: its rows P, the reservations X.      *)
LEMMA CommitRows ==
    ASSUME SessionInv, NEW s \in Session, NEW w \in Warehouse
    PROVE  LET j == job[s]
               Q == rows[w]
               P == Committed(rows[w], job[s].base[w], job[s].copy[w])
           IN  /\ RowsOK(Q) /\ RowsOK(P)
               /\ Q # <<>> \/ j.base[w] # None => P # <<>>
               /\ j.base[w] # None =>
                     /\ Q # <<>> /\ Q[1] \in Row /\ P[1] = Written(Q[1], j.base[w], j.copy[w])
                     /\ HandIn(P) = HandIn(Q) + P[1].on_hand - Q[1].on_hand
                     /\ j.base[w] \in Row /\ j.copy[w] \in Row
               /\ j.base[w] = None /\ Q # <<>> => P[1] = Q[1]
               /\ j.base[w] = None /\ j.copy[w] # None =>
                     /\ HandIn(P) = HandIn(Q) + j.copy[w].on_hand /\ KeptIn(P) = KeptIn(Q)
                     /\ j.copy[w] \in Row /\ j.copy[w].on_hand >= 0
                     /\ j.op \notin {"allocate", "release"}
               /\ j.base[w] = None /\ j.copy[w] = None => P = Q
               /\ HandIn(Q) \in Int /\ HandIn(P) \in Int
<1> DEFINE j == job[s]
           b == j.base[w]
           c == j.copy[w]
           P == Committed(rows[w], b, c)
<1>1. j \in Job /\ JobOK(j) /\ Readable(j, rows, res) /\ RowsOK(rows[w])
    BY DEF SessionInv, Shape, JobsOK, JobsFit
<1>2. b \in Row \cup {None} /\ c \in Row \cup {None}
    BY <1>1 DEF Job
<1>3. b # None => c # None /\ rows[w] # <<>>
    BY <1>1 DEF JobOK, Readable
<1>4. b = None /\ c # None => /\ c.reserved = 0 /\ c.on_hand >= 0
                             /\ j.op \notin {"allocate", "release"}
    BY <1>1 DEF JobOK
<1> HIDE DEF b, c
<1>5. /\ RowsOK(P)
      /\ rows[w] # <<>> \/ c # None => P # <<>>
      /\ b = None /\ rows[w] # <<>> => P[1] = rows[w][1]
      /\ b # None => /\ P[1] = Written(rows[w][1], b, c)
                     /\ HandIn(P) = HandIn(rows[w]) + P[1].on_hand - rows[w][1].on_hand
      /\ b = None /\ c # None => HandIn(P) = HandIn(rows[w]) + c.on_hand
                                 /\ KeptIn(P) = KeptIn(rows[w])
      /\ b = None /\ c = None => P = rows[w]
    BY <1>1, <1>2, <1>3, <1>4, CommittedRows
<1> HIDE DEF P
<1>6. rows[w] # <<>> => rows[w][1] \in Row
    BY <1>1 DEF RowsOK
<1>7. HandIn(rows[w]) \in Int /\ HandIn(P) \in Int
    BY <1>1, <1>5, RowTotals DEF RowsOK
<1> QED BY <1>1, <1>2, <1>3, <1>4, <1>5, <1>6, <1>7 DEF b, c, P

LEMMA CommitStock ==
    ASSUME SessionInv, NEW s \in Session, NEW w \in Warehouse,
           <<w, "on_hand">> \notin clash \cup Disturbed(s)
    PROVE  HandIn(Committed(rows[w], job[s].base[w], job[s].copy[w])) =
              IF job[s].copy[w] = None THEN expected[w]
              ELSE expected[w] + (job[s].copy[w].on_hand
                      - (IF job[s].base[w] # None THEN job[s].base[w].on_hand ELSE 0))
<1> DEFINE j == job[s]
           b == j.base[w]
           c == j.copy[w]
           Q == rows[w]
           P == Committed(rows[w], b, c)
<1>1. HandIn(Q) = expected[w] /\ expected[w] \in Int
    <2>1. OnHand(w) = expected[w]
        BY DEF SessionInv, StockSurvives
    <2> QED BY <2>1 DEF OnHand, HandIn, SessionInv, Shape
<1>2. b # None /\ c.on_hand # b.on_hand => Q[1].on_hand = b.on_hand
    BY Undisturbed
<1>3. /\ b # None => /\ Q[1] \in Row /\ P[1] = Written(Q[1], b, c)
                     /\ HandIn(P) = HandIn(Q) + P[1].on_hand - Q[1].on_hand
                     /\ b \in Row /\ c \in Row
      /\ b = None /\ c # None => HandIn(P) = HandIn(Q) + c.on_hand /\ c \in Row
      /\ b = None /\ c = None => P = Q
    BY CommitRows
<1> HIDE DEF b, c, P, Q
<1>4. CASE b # None
    <2>1. Q[1].on_hand \in Int /\ b.on_hand \in Int /\ c.on_hand \in Int /\ c # None
        BY <1>3, <1>4, NoneIsNoRow DEF Row
    <2>2. P[1].on_hand = IF c.on_hand = b.on_hand THEN Q[1].on_hand ELSE c.on_hand
        BY <1>3, <1>4 DEF Written
    <2>3. HandIn(P) = expected[w] + (c.on_hand - b.on_hand)
        BY <1>1, <1>2, <1>3, <1>4, <2>1, <2>2
    <2> QED BY <1>4, <2>1, <2>3 DEF P, b, c
<1>5. CASE b = None /\ c # None
    <2>1. c.on_hand \in Int
        BY <1>3, <1>5 DEF Row
    <2>2. HandIn(P) = expected[w] + (c.on_hand - 0)
        BY <1>1, <1>3, <1>5, <2>1
    <2> QED BY <1>5, <2>2 DEF P, b, c
<1>6. CASE b = None /\ c = None
    BY <1>1, <1>3, <1>6 DEF P, b, c
<1> QED BY <1>4, <1>5, <1>6

(* What the commit of s makes of the reservations at w: an allocation adds   *)
(* the one it has made there, a release takes off what it has settled.       *)
LEMMA CommitHeld ==
    ASSUME SessionInv, NEW s \in Session, NEW w \in Warehouse
    PROVE  LET j == job[s]
               X == Booked(job[s], res)
           IN  /\ HeldIn(res, w) \in Nat /\ HeldIn(X, w) \in Nat
               /\ j.op = "allocate" => HeldIn(X, w) = HeldIn(res, w)
                     + (IF j.base[w] = None THEN 0 ELSE j.copy[w].reserved - j.base[w].reserved)
               /\ j.op = "release" =>
                     /\ HeldIn(X, w) <= HeldIn(res, w)
                     /\ (\A r \in At(res, j.settled, w) : res[r].status = "active") =>
                           HeldIn(X, w) = HeldIn(res, w) - Total(At(res, j.settled, w), Amount(res))
               /\ j.op \notin {"allocate", "release"} => HeldIn(X, w) = HeldIn(res, w)
<1> DEFINE j == job[s]
           X == Booked(j, res)
<1>1. /\ j \in Job /\ JobOK(j) /\ MadeOK(j) /\ Readable(j, rows, res)
      /\ res \in [Reservation -> Booking]
    BY DEF SessionInv, Shape, JobsOK, JobsFit
<1>2. /\ X \in [Reservation -> Booking]
      /\ \A r \in j.settled : X[r] = [res[r] EXCEPT !.status = "released"]
      /\ \A m \in j.made : X[m.id] = [status |-> "active", order |-> j.order,
                                      warehouse |-> m.warehouse, quantity |-> m.quantity]
      /\ \A r \in Reservation : r \notin j.settled /\ r \notin Made(j) => X[r] = res[r]
    BY <1>1, BookedReservations
<1> HIDE DEF X
<1>3. HeldIn(res, w) \in Nat /\ HeldIn(X, w) \in Nat
    <2>1. /\ Active(res, Reservation, w) \in SUBSET Reservation
          /\ Active(X, Reservation, w) \in SUBSET Reservation
        BY DEF Active
    <2> QED BY <1>1, <1>2, <2>1, AmountsCount DEF HeldIn
<1>4. CASE j.op = "allocate"
    <2>1. j.settled = {} /\ j.made \in SUBSET Promise
        BY <1>1, <1>4 DEF JobOK, Job
    <2>2. ASSUME NEW m \in j.made
          PROVE  /\ m.id \in Reservation /\ res[m.id].status = "none"
                 /\ X[m.id].status = "active" /\ X[m.id].warehouse = m.warehouse
                 /\ X[m.id].quantity = m.quantity
        <3>1. m.id \in Reservation
            BY <2>1 DEF Promise
        <3>2. res[m.id].status = "none"
            BY <1>1 DEF Readable
        <3>3. X[m.id] = [status |-> "active", order |-> j.order,
                         warehouse |-> m.warehouse, quantity |-> m.quantity]
            BY <1>2
        <3> QED BY <3>1, <3>2, <3>3
    <2>3. \A r \in Reservation : X[r] = res[r] \/ \E m \in j.made : m.id = r
        BY <1>2, <2>1 DEF Made
    <2>4. CASE j.base[w] = None
        <3>1. \A m \in j.made : m.warehouse # w
            BY <1>1, <2>4 DEF MadeOK
        <3>2. \A r \in Reservation : X[r] = res[r] \/ (/\ res[r].status = "none"
                                                       /\ X[r].warehouse # w)
            BY <2>2, <2>3, <3>1
        <3>3. HeldIn(X, w) = HeldIn(res, w)
            BY <1>1, <1>2, <3>2, HeldSame
        <3> QED BY <1>3, <1>4, <2>4, <3>3 DEF X
    <2>5. CASE j.base[w] # None
        <3>1. j.copy[w] # None
            BY <1>1, <2>5 DEF JobOK
        <3>2. PICK m \in j.made : m.warehouse = w
            BY <1>1, <1>4, <3>1 DEF MadeOK
        <3>3. \A n \in j.made : n.warehouse = w => n = m
            BY <1>1, <3>2 DEF MadeOK
        <3>4. \A r \in Reservation \ {m.id} : X[r] = res[r] \/ (/\ res[r].status = "none"
                                                                /\ X[r].warehouse # w)
            BY <2>2, <2>3, <3>3
        <3>5. HeldIn(X, w) = HeldIn(res, w) + X[m.id].quantity
            <4>1. /\ m.id \in Reservation /\ res[m.id].status = "none"
                  /\ X[m.id].status = "active" /\ X[m.id].warehouse = w
                BY <2>2, <3>2
            <4> QED BY <1>1, <1>2, <3>4, <4>1, HeldMore
        <3>6. X[m.id].quantity = m.quantity /\ m.quantity \in Nat
            BY <2>1, <2>2, <3>2 DEF Promise
        <3>7. j.copy[w].reserved = j.base[w].reserved + m.quantity
            BY <1>1, <3>2 DEF MadeOK
        <3>8. j.base[w].reserved \in Nat
            BY <1>1, <2>5 DEF Job, Row
        <3>9. j.copy[w].reserved - j.base[w].reserved = m.quantity
            BY <3>6, <3>7, <3>8
        <3>10. HeldIn(X, w) = HeldIn(res, w) + (j.copy[w].reserved - j.base[w].reserved)
            BY <3>5, <3>6, <3>9
        <3> QED BY <1>3, <1>4, <2>5, <3>10 DEF X
    <2> QED BY <2>4, <2>5
<1>5. CASE j.op = "release"
    <2>1. Made(j) = {} /\ j.settled \in SUBSET Reservation
        BY <1>1, <1>5 DEF JobOK, Made, Job
    <2>2. \A r \in Reservation \ j.settled : X[r] = res[r]
        BY <1>2, <2>1
    <2>3. /\ HeldIn(X, w) <= HeldIn(res, w)
          /\ (\A r \in At(res, j.settled, w) : res[r].status = "active") =>
                HeldIn(X, w) = HeldIn(res, w) - Total(At(res, j.settled, w), Amount(res))
        <3>1. X \in [Reservation -> Booking]
            BY <1>2
        <3>2. ASSUME NEW r \in j.settled PROVE X[r].status = "released"
            <4>1. res[r] \in Booking
                BY <1>1, <2>1
            <4>2. X[r] = [res[r] EXCEPT !.status = "released"]
                BY <1>2
            <4> QED BY <4>1, <4>2 DEF Booking
        <3> QED BY <1>1, <2>1, <2>2, <3>1, <3>2, HeldReleased
    <2> QED BY <1>3, <1>5, <2>3 DEF X
<1>6. CASE j.op \notin {"allocate", "release"}
    <2>1. Made(j) = {} /\ j.settled = {}
        BY <1>1, <1>6 DEF JobOK, Made
    <2>2. \A r \in Reservation : X[r] = res[r]
        BY <1>2, <2>1
    <2>3. HeldIn(X, w) = HeldIn(res, w)
        BY <1>1, <1>2, <2>2, HeldSame
    <2> QED BY <1>3, <1>6, <2>3 DEF X
<1> QED BY <1>4, <1>5, <1>6

(* Where a commit has no clash, the counter and the reservations move        *)
(* together.                                                                *)
LEMMA CommitDrift ==
    ASSUME SessionInv, NEW s \in Session, NEW w \in Warehouse,
           <<w, "reserved">> \notin clash \cup Disturbed(s)
    PROVE  KeptIn(Committed(rows[w], job[s].base[w], job[s].copy[w])) = HeldIn(Booked(job[s], res), w)
<1> DEFINE j == job[s]
           b == j.base[w]
           c == j.copy[w]
           Q == rows[w]
           P == Committed(rows[w], b, c)
           X == Booked(j, res)
           S == Total(At(res, j.settled, w), Amount(res))
<1>1. KeptIn(Q) = HeldIn(res, w)
    <2>1. ReservedAt(w) = Held(w)
        BY DEF SessionInv, DriftNeedsOverlap
    <2> QED BY <2>1 DEF ReservedAt, KeptIn, Held, HeldIn, ActiveAt, Active, Amount
<1>2. /\ b # None /\ c.reserved # b.reserved => Q[1].reserved = b.reserved
      /\ \A r \in At(res, j.settled, w) : res[r].status = "active"
    BY Undisturbed
<1>3. /\ RowsOK(Q) /\ RowsOK(P)
      /\ b # None => /\ Q # <<>> /\ P # <<>> /\ Q[1] \in Row /\ P[1] = Written(Q[1], b, c)
                     /\ b \in Row /\ c \in Row
      /\ b = None /\ c # None => KeptIn(P) = KeptIn(Q) /\ j.op \notin {"allocate", "release"}
      /\ b = None /\ c = None => P = Q
    BY CommitRows
<1>4. /\ HeldIn(res, w) \in Nat /\ HeldIn(X, w) \in Nat
      /\ j.op = "allocate" => HeldIn(X, w) = HeldIn(res, w)
            + (IF b = None THEN 0 ELSE c.reserved - b.reserved)
      /\ j.op = "release" => HeldIn(X, w) = HeldIn(res, w) - S
      /\ j.op \notin {"allocate", "release"} => HeldIn(X, w) = HeldIn(res, w)
    BY <1>2, CommitHeld
<1>5. /\ JobOK(j) /\ Readable(j, rows, res) /\ Backed(j, res, clash)
      /\ j.settled \in SUBSET Reservation /\ res \in [Reservation -> Booking]
    BY DEF SessionInv, Shape, JobsOK, JobsFit, Job
<1>6. S \in Nat
    <2>1. At(res, j.settled, w) \in SUBSET Reservation
        BY <1>5 DEF At
    <2> QED BY <1>5, <2>1, AmountsCount
<1>7. ASSUME b = None PROVE KeptIn(P) = HeldIn(X, w)
    <2>1. KeptIn(P) = KeptIn(Q)
        BY <1>3, <1>7
    <2>2. HeldIn(X, w) = HeldIn(res, w)
        <3>1. CASE j.op = "release"
            <4>1. At(res, j.settled, w) = {}
                BY <1>5, <1>7 DEF Readable, At
            <4>2. S = 0
                BY <4>1, TotalEmpty
            <4> QED BY <1>4, <3>1, <4>2
        <3>2. CASE j.op = "allocate"
            BY <1>4, <1>7, <3>2
        <3> QED BY <1>4, <3>1, <3>2
    <2> QED BY <1>1, <2>1, <2>2
<1>8. ASSUME b # None PROVE KeptIn(P) = HeldIn(X, w)
    <2>1. KeptIn(P) = P[1].reserved /\ KeptIn(Q) = Q[1].reserved
        BY <1>3, <1>8, OldestRow
    <2>2. P[1].reserved = IF c.reserved = b.reserved THEN Q[1].reserved ELSE c.reserved
        BY <1>3, <1>8 DEF Written
    <2>3. HeldIn(X, w) = HeldIn(res, w) + (c.reserved - b.reserved)
        <3>1. b.reserved \in Nat /\ c.reserved \in Nat
            BY <1>3, <1>8 DEF Row
        <3>2. CASE j.op = "release"
            <4>1. c.reserved = b.reserved - S
                BY <1>2, <1>5, <1>8, <3>2 DEF Backed, BackedAt
            <4> HIDE DEF S, X, b, c
            <4> QED BY <1>4, <1>6, <3>1, <3>2, <4>1
        <3>3. CASE j.op = "allocate"
            BY <1>4, <1>8, <3>3
        <3>4. CASE j.op \notin {"allocate", "release"}
            <4>1. c.reserved = b.reserved
                BY <1>5, <1>8, <3>4 DEF JobOK
            <4> HIDE DEF S, X, b, c
            <4> QED BY <1>4, <3>1, <3>4, <4>1
        <3> QED BY <3>2, <3>3, <3>4
    <2>4. b.reserved \in Nat /\ c.reserved \in Nat /\ Q[1].reserved \in Nat
        BY <1>3, <1>8 DEF Row
    <2> HIDE DEF S, X, b, c, P, Q
    <2>5. CASE c.reserved = b.reserved
        <3>1. c.reserved - b.reserved = 0
            BY <2>4, <2>5
        <3>2. HeldIn(X, w) = HeldIn(res, w)
            BY <1>4, <2>3, <3>1
        <3> QED BY <1>1, <2>1, <2>2, <2>5, <3>2
    <2>6. CASE c.reserved # b.reserved
        <3>1. KeptIn(P) = c.reserved /\ KeptIn(Q) = b.reserved
            BY <1>2, <1>8, <2>1, <2>2, <2>6
        <3> QED BY <1>1, <1>4, <2>3, <2>4, <3>1
    <2> QED BY <2>5, <2>6
<1> QED BY <1>7, <1>8

(* Where a commit has no clash and takes no stock away, what is held is      *)
(* there: an allocation has checked the stock it has read, which nobody has  *)
(* reduced since.                                                           *)
LEMMA CommitCovered ==
    ASSUME SessionInv, NEW s \in Session, NEW w \in Warehouse,
           {<<w, "reserved">>, <<w, "on_hand">>, <<w, "lowered">>}
               \cap (clash \cup Disturbed(s)) = {}
    PROVE  HeldIn(Booked(job[s], res), w) <= HandIn(Committed(rows[w], job[s].base[w], job[s].copy[w]))
<1> DEFINE j == job[s]
           b == j.base[w]
           c == j.copy[w]
           Q == rows[w]
           P == Committed(rows[w], b, c)
           X == Booked(j, res)
<1>1. HeldIn(res, w) <= HandIn(Q)
    <2>1. Held(w) <= OnHand(w)
        BY DEF SessionInv, OversellNeedsOverlap
    <2> QED BY <2>1 DEF OnHand, HandIn, Held, HeldIn, ActiveAt, Active, Amount
<1>2. /\ b # None /\ c.reserved # b.reserved => Q[1].reserved = b.reserved
      /\ b # None /\ c.on_hand # b.on_hand => Q[1].on_hand = b.on_hand
      /\ b # None => c.on_hand >= b.on_hand
    BY Undisturbed
<1>3. /\ RowsOK(P)
      /\ b # None => /\ P # <<>> /\ Q[1] \in Row /\ P[1] = Written(Q[1], b, c)
                     /\ HandIn(P) = HandIn(Q) + P[1].on_hand - Q[1].on_hand
                     /\ b \in Row /\ c \in Row
      /\ b = None /\ c # None =>
            /\ HandIn(P) = HandIn(Q) + c.on_hand /\ c \in Row /\ c.on_hand >= 0
            /\ j.op \notin {"allocate", "release"}
      /\ b = None /\ c = None => P = Q
      /\ HandIn(Q) \in Int /\ HandIn(P) \in Int
    BY CommitRows
<1>4. /\ HeldIn(res, w) \in Nat /\ HeldIn(X, w) \in Nat
      /\ j.op = "allocate" => HeldIn(X, w) = HeldIn(res, w)
            + (IF b = None THEN 0 ELSE c.reserved - b.reserved)
      /\ j.op = "release" => HeldIn(X, w) <= HeldIn(res, w)
      /\ j.op \notin {"allocate", "release"} => HeldIn(X, w) = HeldIn(res, w)
    BY CommitHeld
<1>5. KeptIn(P) = HeldIn(X, w)
    BY CommitDrift
<1>6. JobOK(j) /\ MadeOK(j) /\ Covered(j, rows, clash)
    BY DEF SessionInv, JobsOK, JobsFit
<1>7. ASSUME b # None PROVE P[1].on_hand >= Q[1].on_hand /\ P[1].on_hand \in Int /\ Q[1].on_hand \in Int
    <2>1. Q[1].on_hand \in Int /\ b.on_hand \in Int /\ c.on_hand \in Int
        BY <1>3, <1>7 DEF Row
    <2>2. P[1].on_hand = IF c.on_hand = b.on_hand THEN Q[1].on_hand ELSE c.on_hand
        BY <1>3, <1>7 DEF Written
    <2> HIDE DEF b, c, P, Q
    <2> QED BY <1>2, <1>7, <2>1, <2>2
<1>8. HandIn(P) >= HandIn(Q)
    <2>1. CASE b # None
        <3> HIDE DEF b, c, P, Q
        <3> QED BY <1>3, <1>7, <2>1
    <2>2. CASE b = None
        <3>1. c # None => c.on_hand \in Int
            BY <1>3, <2>2 DEF Row
        <3> HIDE DEF b, c, P, Q
        <3> QED BY <1>3, <2>2, <3>1
    <2> QED BY <2>1, <2>2
<1>9. CASE j.op = "allocate" /\ b # None
    <2>1. c.on_hand = b.on_hand
        BY <1>6, <1>9 DEF JobOK
    <2>2. /\ c.reserved # b.reserved /\ c.reserved <= b.on_hand
          /\ c.reserved \in Nat /\ b.on_hand \in Int /\ Q[1].on_hand \in Int
        <3>1. c # None
            BY <1>6, <1>9 DEF JobOK
        <3>2. PICK m \in j.made : m.warehouse = w
            BY <1>6, <1>9, <3>1 DEF MadeOK
        <3>3. m.quantity \in Nat \ {0}
            BY <3>2 DEF SessionInv, Shape, Job, Promise
        <3>4. c.reserved = b.reserved + m.quantity /\ c.reserved <= b.on_hand
            BY <1>6, <3>2 DEF MadeOK
        <3>5. /\ b.reserved \in Nat /\ c.reserved \in Nat
              /\ b.on_hand \in Int /\ Q[1].on_hand \in Int
            BY <1>3, <1>9 DEF Row
        <3> QED BY <3>3, <3>4, <3>5
    <2>3. P[1].reserved = c.reserved /\ P[1].on_hand = Q[1].on_hand
        BY <1>3, <1>9, <2>1, <2>2 DEF Written
    <2>4. Q[1].on_hand >= b.on_hand
        BY <1>6, <1>9 DEF Covered
    <2>5. KeptIn(P) = P[1].reserved /\ HandIn(P) >= P[1].on_hand
        BY <1>3, <1>9, OldestRow
    <2> HIDE DEF b, c, P, Q, X
    <2>6. HeldIn(X, w) = c.reserved
        BY <1>5, <2>3, <2>5
    <2>7. HandIn(P) >= Q[1].on_hand
        BY <2>3, <2>5
    <2>8. HeldIn(X, w) <= HandIn(P)
        BY <1>3, <2>2, <2>4, <2>6, <2>7
    <2> QED BY <2>8 DEF P, X, b, c, Q
<1>10. CASE ~(j.op = "allocate" /\ b # None)
    <2>1. HeldIn(X, w) <= HeldIn(res, w)
        <3>1. CASE j.op = "allocate"
            <4>1. HeldIn(X, w) = HeldIn(res, w) + 0
                BY <1>4, <1>10, <3>1
            <4> QED BY <1>4, <4>1
        <3>2. CASE j.op = "release"
            BY <1>4, <3>2
        <3>3. CASE j.op \notin {"allocate", "release"}
            BY <1>4, <3>3
        <3> QED BY <3>1, <3>2, <3>3
    <2> HIDE DEF P, X, Q
    <2>2. HeldIn(X, w) <= HandIn(P)
        BY <1>1, <1>3, <1>4, <1>8, <2>1
    <2> QED BY <2>2 DEF P, X, Q
<1> QED BY <1>9, <1>10

LEMMA CommitInv ==
    ASSUME SessionInv, NEW s \in Session, Commit(s)
    PROVE  SessionInv'
<1> DEFINE j == job[s]
           L == clash \cup Disturbed(s)
           P(w) == Committed(rows[w], j.base[w], j.copy[w])
           X == Booked(j, res)
<1>1. /\ j \in Job /\ JobOK(j) /\ MadeOK(j) /\ Readable(j, rows, res)
      /\ res \in [Reservation -> Booking] /\ job \in [Session -> Job]
      /\ expected \in [Warehouse -> Int] /\ due \subseteq Reservation
    BY DEF SessionInv, Shape, JobsOK, JobsFit
<1>2. /\ clash' = L /\ due' = due /\ job' = [job EXCEPT ![s] = Idle]
      /\ \A t \in Session : job'[t] = IF t = s THEN Idle ELSE job[t]
    BY <1>1 DEF Commit
<1>3. \A w \in Warehouse : (w \in Updated(s) <=> j.base[w] # None)
                           /\ (w \in Touched(s) <=> j.copy[w] # None)
    BY <1>1 DEF Updated, Touched, JobOK
<1>4. /\ rows' = [w \in Warehouse |-> rows'[w]]
      /\ \A w \in Warehouse : rows'[w] = P(w)
    <2>1. rows' = [w \in Warehouse |->
              IF w \in Updated(s)
              THEN [rows[w] EXCEPT ![1] = Written(@, j.base[w], j.copy[w])]
              ELSE IF w \in Touched(s) THEN Append(rows[w], j.copy[w]) ELSE rows[w]]
        BY DEF Commit
    <2>2. \A w \in Warehouse : rows'[w] =
              IF w \in Updated(s)
              THEN [rows[w] EXCEPT ![1] = Written(rows[w][1], j.base[w], j.copy[w])]
              ELSE IF w \in Touched(s) THEN Append(rows[w], j.copy[w]) ELSE rows[w]
        BY <2>1
    <2> QED BY <1>3, <2>1, <2>2 DEF Committed
<1>5. res' = X
    BY DEF Commit, Booked
<1>6. \A w \in Warehouse : expected'[w] =
          IF j.copy[w] = None THEN expected[w]
          ELSE expected[w] + (j.copy[w].on_hand
                  - (IF j.base[w] # None THEN j.base[w].on_hand ELSE 0))
    BY <1>3 DEF Commit
<1>7. /\ X \in [Reservation -> Booking]
      /\ \A r \in j.settled : X[r] = [res[r] EXCEPT !.status = "released"]
      /\ \A m \in j.made : X[m.id] = [status |-> "active", order |-> j.order,
                                      warehouse |-> m.warehouse, quantity |-> m.quantity]
      /\ \A r \in Reservation : r \notin j.settled /\ r \notin Made(j) => X[r] = res[r]
    BY <1>1, BookedReservations
<1> HIDE DEF X
<1>8. \A w \in Warehouse : /\ RowsOK(rows[w]) /\ RowsOK(P(w))
                           /\ rows[w] # <<>> \/ j.base[w] # None => P(w) # <<>>
    BY CommitRows
<1>9. RowsFollow(rows, rows', L)
    <2> SUFFICES ASSUME NEW w \in Warehouse, rows[w] # <<>>,
                        {<<w, "on_hand">>, <<w, "lowered">>} \cap L = {}
                 PROVE  P(w)[1].on_hand >= rows[w][1].on_hand
        BY <1>4, <1>8 DEF RowsFollow
    <2> DEFINE b == j.base[w]
               c == j.copy[w]
               Q == rows[w]
               x == P(w)[1]
    <2>1. /\ b # None /\ c.on_hand # b.on_hand => Q[1].on_hand = b.on_hand
          /\ b # None => c.on_hand >= b.on_hand
        BY Undisturbed
    <2>2. /\ b # None => Q[1] \in Row /\ x = Written(Q[1], b, c) /\ b \in Row /\ c \in Row
          /\ b = None => x = Q[1]
        BY CommitRows
    <2>3. Q[1].on_hand \in Int
        BY <1>8, RowsListed DEF RowsOK
    <2>4. CASE b = None
        BY <2>2, <2>3, <2>4
    <2>5. CASE b # None
        <3>1. b.on_hand \in Int /\ c.on_hand \in Int
            BY <2>2, <2>5 DEF Row
        <3>2. x.on_hand = IF c.on_hand = b.on_hand THEN Q[1].on_hand ELSE c.on_hand
            BY <2>2, <2>5 DEF Written
        <3> HIDE DEF b, c, Q, x
        <3>3. x.on_hand >= Q[1].on_hand
            BY <2>1, <2>3, <2>5, <3>1, <3>2
        <3> QED BY <3>3 DEF x, Q
    <2> QED BY <2>4, <2>5
<1>10. \A r \in Made(j) : r \in Reservation /\ res[r].status = "none"
    BY <1>1 DEF Made, Job, Promise, Readable
<1>11. BookingsFollow(res, X, Made(j))
    <2> SUFFICES ASSUME NEW r \in j.settled
                 PROVE  /\ res[r].status # "none" /\ X[r].status = "released"
                        /\ X[r].warehouse = res[r].warehouse
        BY <1>1, <1>7, <1>10 DEF BookingsFollow
    <2>1. r \in Reservation /\ res[r].status # "none"
        BY <1>1 DEF Job, Readable
    <2>2. res[r] \in Booking /\ X[r] = [res[r] EXCEPT !.status = "released"]
        BY <1>1, <1>7, <2>1
    <2> QED BY <2>1, <2>2 DEF Booking
<1>12. Shape'
    <2>1. \A w \in Warehouse : RowsOK(rows'[w])
        BY <1>4, <1>8
    <2>2. ASSUME NEW r \in Reservation, X[r].status # "none"
          PROVE  X[r].warehouse \in Warehouse /\ rows'[X[r].warehouse] # <<>>
        <3>1. CASE r \in Made(j)
            <4>1. PICK m \in j.made : m.id = r
                BY <3>1 DEF Made
            <4>2. X[r].warehouse = m.warehouse /\ m.warehouse \in Warehouse
                <5>1. X[m.id] = [status |-> "active", order |-> j.order,
                                 warehouse |-> m.warehouse, quantity |-> m.quantity]
                    BY <1>7
                <5>2. m.warehouse \in Warehouse
                    BY <1>1 DEF Job, Promise
                <5> QED BY <4>1, <5>1, <5>2
            <4>3. j.base[m.warehouse] # None
                BY <1>1, <4>1 DEF MadeOK
            <4> QED BY <1>4, <1>8, <4>2, <4>3
        <3>2. CASE r \notin Made(j)
            <4>1. res[r].status # "none" /\ X[r].warehouse = res[r].warehouse
                BY <1>11, <2>2, <3>2 DEF BookingsFollow
            <4>2. res[r].warehouse \in Warehouse /\ rows[res[r].warehouse] # <<>>
                BY <4>1 DEF SessionInv, Shape
            <4> QED BY <1>4, <1>8, <4>1, <4>2
        <3> QED BY <3>1, <3>2
    <2>3. expected' \in [Warehouse -> Int]
        <3>1. ASSUME NEW w \in Warehouse PROVE expected'[w] \in Int
            <4>1. /\ j.base[w] # None => j.base[w].on_hand \in Int
                  /\ j.copy[w] # None => j.copy[w].on_hand \in Int
                BY <1>1 DEF Job, Row
            <4> QED BY <1>1, <1>6, <4>1
        <3>2. expected' = [w \in Warehouse |-> expected'[w]]
            BY DEF Commit
        <3> QED BY <3>1, <3>2
    <2>4. job' \in [Session -> Job]
        BY <1>1, <1>2, IdleType
    <2> QED BY <1>1, <1>2, <1>4, <1>5, <1>7, <2>1, <2>2, <2>3, <2>4 DEF Shape
<1>13. JobsOK'
    <2>1. JobOK(Idle) /\ MadeOK(Idle)
        BY IdleType DEF JobOK, MadeOK
    <2> QED BY <1>2, <2>1 DEF SessionInv, JobsOK
<1>14. JobsFit'
    <2>1. Readable(Idle, rows', X) /\ Backed(Idle, X, L) /\ Covered(Idle, rows', L)
        BY IdleType DEF Readable, Backed, BackedAt, Covered, Idle
    <2>2. ASSUME NEW t \in Session, t # s
          PROVE  Readable(job[t], rows', X) /\ Backed(job[t], X, L) /\ Covered(job[t], rows', L)
        <3>1. /\ job[t] \in Job /\ Readable(job[t], rows, res) /\ Backed(job[t], res, clash)
              /\ Covered(job[t], rows, clash)
            BY <1>1 DEF SessionInv, JobsFit
        <3>2. \A m \in job[t].made : m.id \notin Made(j)
            BY <2>2 DEF SessionInv, Exclusive, Made
        <3>3. clash \subseteq L
            OBVIOUS
        <3> HIDE DEF L, j
        <3> QED BY <1>9, <1>11, <3>1, <3>2, <3>3, StillFits
    <2> QED BY <1>2, <1>5, <2>1, <2>2 DEF JobsFit
<1>15. Exclusive'
    BY <1>2, IdleType DEF SessionInv, Exclusive
<1>16. \A w \in Warehouse : /\ OnHand(w)' = HandIn(P(w)) /\ ReservedAt(w)' = KeptIn(P(w))
                            /\ Held(w)' = HeldIn(X, w)
    BY <1>4, <1>5 DEF OnHand, HandIn, ReservedAt, KeptIn, Held, HeldIn, ActiveAt, Active, Amount
<1>17. DriftNeedsOverlap'
    BY <1>2, <1>16, CommitDrift DEF DriftNeedsOverlap, X
<1>18. StockSurvives'
    BY <1>2, <1>6, <1>16, CommitStock DEF StockSurvives
<1>19. OversellNeedsOverlap'
    BY <1>2, <1>16, CommitCovered DEF OversellNeedsOverlap, X
<1> QED BY <1>12, <1>13, <1>14, <1>15, <1>17, <1>18, <1>19 DEF SessionInv

(* A row lock that is taken, and a reservation that falls due. *)
LEMMA AsideInv ==
    ASSUME SessionInv, UNCHANGED <<rows, res, expected, clash, job>>, due' \subseteq Reservation
    PROVE  SessionInv'
<1>1. Shape'
    BY DEF SessionInv, Shape
<1>2. JobsOK' /\ JobsFit' /\ Exclusive'
    BY DEF SessionInv, JobsOK, JobsFit, Exclusive
<1> QED BY <1>1, <1>2, StockUnchanged DEF SessionInv

LEMMA StepInv ==
    ASSUME SessionInv, NEW s \in Session, Step(s)
    PROVE  SessionInv'
<1>1. ASSUME NEW w \in Warehouse, Write(s, w) PROVE SessionInv'
    <2>1. UNCHANGED <<rows, res, expected, clash, job>> /\ due' \subseteq Reservation
        BY <1>1 DEF Write, db, SessionInv, Shape
    <2> QED BY <2>1, AsideInv
<1>2. CASE Refuse(s) \/ DeadlockVictim(s)
    BY <1>2, FailInv DEF Refuse, DeadlockVictim
<1>3. CASE \/ \E w \in Warehouse : ReadAvailable(s, w)
           \/ \E w \in Warehouse, r \in Reservation : Take(s, w, r)
           \/ \E r \in Reservation : Release(s, r)
    BY <1>3, ReadAvailableInv, TakeInv, ReleaseInv
<1>4. CASE ChangeStock(s) \/ Reload(s) \/ Commit(s)
    BY <1>4, ChangeStockInv, ReloadInv, CommitInv
<1> QED BY <1>1, <1>2, <1>3, <1>4 DEF Step

LEMMA CallInv ==
    ASSUME SessionInv, Call
    PROVE  SessionInv'
<1>1. Request \subseteq Session /\ Worker \in Session
    BY DEF Session
<1>2. ASSUME NEW s \in Request, NEW o \in Order, NEW need \in 1 .. MaxQty,
             NEW pref \in Warehouse \cup {None}, NEW split \in BOOLEAN,
             BeginAllocate(s, o, need, pref, split)
      PROVE  SessionInv'
    BY <1>2, BeginAllocateInv
<1>3. ASSUME NEW s \in Request, NEW o \in Order, BeginCancel(s, o) PROVE SessionInv'
    <2> DEFINE T == {r \in Reservation : res[r].status = "active" /\ res[r].order = o}
    <2>1. BeginRelease(s, T) /\ T \in SUBSET Reservation /\ \A r \in T : res[r].status = "active"
        BY <1>3 DEF BeginCancel
    <2> HIDE DEF T
    <2> QED BY <1>1, <2>1, BeginReleaseInv
<1>4. CASE BeginExpire
    <2> DEFINE T == {r \in due : res[r].status = "active"}
    <2>1. BeginRelease(Worker, T) /\ T \in SUBSET Reservation /\ \A r \in T : res[r].status = "active"
        BY <1>4 DEF BeginExpire, SessionInv, Shape
    <2> HIDE DEF T
    <2> QED BY <1>1, <2>1, BeginReleaseInv
<1>5. ASSUME NEW s \in Request, NEW w \in Warehouse, NEW target \in 0 .. MaxStock,
             BeginAdjust(s, w, target)
      PROVE  SessionInv'
    BY <1>1, <1>5, BeginAdjustInv
<1>6. ASSUME NEW s \in Request, NEW w \in Warehouse, NEW good \in 1 .. MaxQty,
             BeginReceive(s, w, good)
      PROVE  SessionInv'
    BY <1>1, <1>6, BeginReceiveInv
<1> QED BY <1>2, <1>3, <1>4, <1>5, <1>6 DEF Call

(* Rows, reservations and what every call has in memory hang together, and   *)
(* nothing is lost or oversold without a clash, however the transactions     *)
(* interleave.                                                              *)
THEOREM SessionInvariant == Spec => []SessionInv
<1>1. SessionInv /\ [Next]_vars => SessionInv'
    <2> SUFFICES ASSUME SessionInv, [Next]_vars PROVE SessionInv'
        OBVIOUS
    <2>1. CASE UNCHANGED vars
        <3>1. UNCHANGED <<rows, res, expected, clash, job>> /\ due' \subseteq Reservation
            BY <2>1 DEF vars, SessionInv, Shape
        <3> QED BY <3>1, AsideInv
    <2>2. CASE Call
        BY <2>2, CallInv
    <2>3. ASSUME NEW s \in Session, Step(s) PROVE SessionInv'
        BY <2>3, StepInv
    <2>4. ASSUME NEW r \in Reservation, Due(r) PROVE SessionInv'
        <3>1. UNCHANGED <<rows, res, expected, clash, job>> /\ due' \subseteq Reservation
            BY <2>4 DEF Due, db, SessionInv, Shape
        <3> QED BY <3>1, AsideInv
    <2> QED BY <2>1, <2>2, <2>3, <2>4 DEF Next
<1> QED BY InitInv, <1>1, PTL DEF Spec

(* A reserved counter leaves the reservations only where two calls have      *)
(* overlapped on it.                                                        *)
THEOREM DriftIsOverlapped == Spec => []DriftNeedsOverlap
<1>1. SessionInv => DriftNeedsOverlap
    BY DEF SessionInv
<1> QED BY SessionInvariant, <1>1, PTL

(* Stock is lost only where two changes of stock have overlapped: a          *)
(* reservation, a cancel or an expiry never writes an old on_hand back.      *)
THEOREM StockIsKept == Spec => []StockSurvives
<1>1. SessionInv => StockSurvives
    BY DEF SessionInv
<1> QED BY SessionInvariant, <1>1, PTL

(* What is held is there, unless calls have overlapped or stock was taken    *)
(* away.                                                                    *)
THEOREM OversellIsOverlapped == Spec => []OversellNeedsOverlap
<1>1. SessionInv => OversellNeedsOverlap
    BY DEF SessionInv
<1> QED BY SessionInvariant, <1>1, PTL

-----------------------------------------------------------------------------
(* VisibilityCache.                                                         *)
View == [view : [Warehouse -> Nat], marks : SUBSET {"lapped", "silent"}]
Writing == [warehouse : Warehouse, units : Int, deleted : BOOLEAN]

(* CacheTypeOK with the shapes that a step relies on. *)
CacheTypes ==
    /\ level \in [Warehouse -> Int]
    /\ \A w \in Warehouse : level[w] \in Levels[w]
    /\ entry \in View \cup {Nothing}
    /\ reader \in [Reader -> View \cup {Nothing}]
    /\ writer \in [Writer -> Writing \cup {Nothing}]
    /\ \A s \in Open : writer[s].units \in Levels[writer[s].warehouse]

(* A view without a mark, in a reader's hands or under the key, shows the   *)
(* levels as they are.                                                      *)
UnmarkedIsFresh(view) == view # Nothing /\ view.marks = {} => view.view = Visible(level)
FreshViews == UnmarkedIsFresh(entry) /\ \A r \in Reader : UnmarkedIsFresh(reader[r])

(* What makes that last: a writer is marked on every view that is read or    *)
(* under way while it is open, and one that has already deleted the key      *)
(* finds no unmarked view there that its commit could outdate.               *)
ReadersAreLapped ==
    \A r \in Reader : reader[r] # Nothing /\ reader[r].marks = {} => Open = {}
NothingFreshToLose ==
    entry # Nothing /\ entry.marks = {} => \A s \in Open : ~writer[s].deleted

CacheInv == CacheTypes /\ FreshViews /\ ReadersAreLapped /\ NothingFreshToLose

LEMMA VisibleType ==
    ASSUME NEW units \in [Warehouse -> Int]
    PROVE  Visible(units) \in [Warehouse -> Nat]
BY DEF Visible, Floor

(* Marking keeps a view a view, and no marked view is unmarked. *)
LEMMA MarkIsMarked ==
    ASSUME NEW view \in View \cup {Nothing}, NEW mark \in {"lapped", "silent"}
    PROVE  /\ Mark(view, mark) \in View \cup {Nothing}
           /\ Mark(view, mark) # Nothing => mark \in Mark(view, mark).marks
           /\ Mark(view, mark) # Nothing => Mark(view, mark).marks # {}
BY DEF Mark, View

LEMMA LevelsAreInt ==
    ASSUME NEW w \in Warehouse, NEW units \in Levels[w]
    PROVE  units \in Int
BY LevelsOK

LEMMA InitCache == CacheInit => CacheInv
<1> SUFFICES ASSUME CacheInit PROVE CacheInv
    OBVIOUS
<1>1. Open = {}
    BY DEF CacheInit, Open
<1>2. level \in [Warehouse -> Int] /\ \A w \in Warehouse : level[w] \in Levels[w]
    BY LevelsOK, LevelsAreInt DEF CacheInit
<1>3. CacheTypes
    BY <1>1, <1>2 DEF CacheInit, CacheTypes
<1>4. FreshViews /\ ReadersAreLapped /\ NothingFreshToLose
    BY <1>1 DEF CacheInit, FreshViews, UnmarkedIsFresh, ReadersAreLapped, NothingFreshToLose
<1> QED BY <1>3, <1>4 DEF CacheInv

LEMMA ReadVisibilityInv ==
    ASSUME CacheInv, NEW r \in Reader, NEW use_cache \in BOOLEAN, ReadVisibility(r, use_cache)
    PROVE  CacheInv'
<1> DEFINE new == [view |-> Visible(level), marks |-> IF Open = {} THEN {} ELSE {"lapped"}]
<1>1. new \in View
    BY VisibleType DEF View, CacheInv, CacheTypes
<1>2. reader' = [reader EXCEPT ![r] = new] /\ UNCHANGED <<level, entry, writer>>
    BY DEF ReadVisibility
<1>3. Open' = Open /\ Visible(level)' = Visible(level)
    BY <1>2 DEF Open, Visible
<1>4. new.view = Visible(level) /\ (new.marks = {} => Open = {})
    OBVIOUS
<1> HIDE DEF new
<1>5. CacheTypes'
    BY <1>1, <1>2, <1>3 DEF CacheInv, CacheTypes
<1>6. \A q \in Reader : reader'[q] = IF q = r THEN new ELSE reader[q]
    BY <1>2 DEF CacheInv, CacheTypes
<1>7. FreshViews' /\ ReadersAreLapped' /\ NothingFreshToLose'
    BY <1>2, <1>3, <1>4, <1>6
       DEF CacheInv, FreshViews, UnmarkedIsFresh, ReadersAreLapped, NothingFreshToLose
<1> QED BY <1>5, <1>7 DEF CacheInv

LEMMA StoreVisibilityInv ==
    ASSUME CacheInv, NEW r \in Reader, StoreVisibility(r)
    PROVE  CacheInv'
<1>1. /\ entry' = reader[r] /\ reader' = [reader EXCEPT ![r] = Nothing]
      /\ UNCHANGED <<level, writer>>
    BY DEF StoreVisibility
<1>2. Open' = Open /\ Visible(level)' = Visible(level)
    BY <1>1 DEF Open, Visible
<1>3. CacheTypes'
    BY <1>1, <1>2 DEF CacheInv, CacheTypes
<1>4. \A q \in Reader : reader'[q] = IF q = r THEN Nothing ELSE reader[q]
    BY <1>1 DEF CacheInv, CacheTypes
<1>5. FreshViews' /\ ReadersAreLapped' /\ NothingFreshToLose'
    BY <1>1, <1>2, <1>4
       DEF CacheInv, FreshViews, UnmarkedIsFresh, ReadersAreLapped, NothingFreshToLose
<1> QED BY <1>3, <1>5 DEF CacheInv

(* A step that marks every view in a reader's hands keeps the readers' part. *)
LEMMA MarkingReaders ==
    ASSUME CacheInv, NEW mark \in {"lapped", "silent"}, reader' = Marked(mark)
    PROVE  /\ reader' \in [Reader -> View \cup {Nothing}]
           /\ \A r \in Reader : reader'[r] # Nothing => reader'[r].marks # {}
<1>1. \A r \in Reader : reader[r] \in View \cup {Nothing}
    BY DEF CacheInv, CacheTypes
<1> QED BY <1>1, MarkIsMarked DEF Marked

LEMMA ChangeInv ==
    ASSUME CacheInv, NEW s \in Writer, NEW w \in Warehouse, NEW units \in Levels[w],
           Change(s, w, units)
    PROVE  CacheInv'
<1> DEFINE new == [warehouse |-> w, units |-> units, deleted |-> FALSE]
<1>1. new \in Writing /\ new.units \in Levels[new.warehouse] /\ ~new.deleted
    BY LevelsAreInt DEF Writing
<1>2. /\ writer' = [writer EXCEPT ![s] = new]
      /\ reader' = Marked("lapped") /\ UNCHANGED <<level, entry>>
    BY DEF Change
<1> HIDE DEF new
<1>3. \A t \in Writer : writer'[t] = IF t = s THEN new ELSE writer[t]
    BY <1>2 DEF CacheInv, CacheTypes
<1>4. \A t \in Writer : t # s => (t \in Open' <=> t \in Open)
    BY <1>3 DEF Open
<1>5. /\ reader' \in [Reader -> View \cup {Nothing}]
      /\ \A r \in Reader : reader'[r] # Nothing => reader'[r].marks # {}
    BY <1>2, MarkingReaders
<1>6. \A t \in Open' : writer'[t].units \in Levels[writer'[t].warehouse]
    BY <1>1, <1>3, <1>4 DEF CacheInv, CacheTypes, Open
<1>7. CacheTypes'
    BY <1>1, <1>2, <1>5, <1>6 DEF CacheInv, CacheTypes
<1>8. Visible(level)' = Visible(level)
    BY <1>2 DEF Visible
<1>9. FreshViews' /\ ReadersAreLapped'
    BY <1>2, <1>5, <1>8 DEF CacheInv, FreshViews, UnmarkedIsFresh, ReadersAreLapped
<1>10. NothingFreshToLose'
    BY <1>1, <1>2, <1>3, <1>4 DEF CacheInv, NothingFreshToLose, Open
<1> QED BY <1>7, <1>9, <1>10 DEF CacheInv

(* A transaction that has deleted the key writes the same balance. *)
LEMMA WritingMarked ==
    ASSUME NEW x \in Writing, NEW d
    PROVE  /\ [x EXCEPT !.deleted = d].units = x.units
           /\ [x EXCEPT !.deleted = d].warehouse = x.warehouse
BY DEF Writing

LEMMA WritingDeleted ==
    ASSUME NEW x \in Writing
    PROVE  /\ [x EXCEPT !.deleted = TRUE] \in Writing
           /\ [x EXCEPT !.deleted = TRUE].units = x.units
           /\ [x EXCEPT !.deleted = TRUE].warehouse = x.warehouse
<1>1. [x EXCEPT !.deleted = TRUE] \in Writing
    BY Zenon DEF Writing
<1> QED BY <1>1, WritingMarked

LEMMA InvalidateInv ==
    ASSUME CacheInv, NEW s \in Writer, Invalidate(s)
    PROVE  CacheInv'
<1>1. /\ writer[s] \in Writing /\ entry' = Nothing
      /\ writer' = [writer EXCEPT ![s] = [writer[s] EXCEPT !.deleted = TRUE]]
      /\ UNCHANGED <<level, reader>>
    BY DEF Invalidate, CacheInv, CacheTypes
<1>2. /\ s \in Open
      /\ \A t \in Writer : t # s => writer'[t] = writer[t]
      /\ writer'[s] = [writer[s] EXCEPT !.deleted = TRUE]
    BY <1>1 DEF CacheInv, CacheTypes, Open, Invalidate
<1>3. /\ writer'[s] \in Writing
      /\ writer'[s].units = writer[s].units /\ writer'[s].warehouse = writer[s].warehouse
    BY <1>1, <1>2, WritingDeleted
<1>4. Open' \subseteq Open
    BY <1>2 DEF Open
<1>5. \A t \in Open' : writer'[t].units \in Levels[writer'[t].warehouse]
    BY <1>2, <1>3, <1>4 DEF CacheInv, CacheTypes, Open
<1>6. CacheTypes'
    BY <1>1, <1>2, <1>3, <1>5 DEF CacheInv, CacheTypes
<1>7. Visible(level)' = Visible(level)
    BY <1>1 DEF Visible
<1>8. FreshViews' /\ ReadersAreLapped' /\ NothingFreshToLose'
    BY <1>1, <1>4, <1>7
       DEF CacheInv, FreshViews, UnmarkedIsFresh, ReadersAreLapped, NothingFreshToLose
<1> QED BY <1>6, <1>8 DEF CacheInv

(* The row a commit makes visible is no longer the one unmarked views show, *)
(* so there must be none: the writer is open and has deleted the key.       *)
LEMMA CommitBalanceInv ==
    ASSUME CacheInv, NEW s \in Writer, CommitBalance(s)
    PROVE  CacheInv'
<1>1. /\ s \in Open /\ writer[s].deleted /\ writer[s] \in Writing
      /\ level' = [level EXCEPT ![writer[s].warehouse] = writer[s].units]
      /\ writer' = [writer EXCEPT ![s] = Nothing]
      /\ UNCHANGED <<entry, reader>>
    BY DEF CommitBalance, CacheInv, CacheTypes, Open
<1>2. \A t \in Writer : writer'[t] = IF t = s THEN Nothing ELSE writer[t]
    BY <1>1 DEF CacheInv, CacheTypes
<1>3. \A t \in Open' : t \in Open /\ writer'[t] = writer[t]
    BY <1>2 DEF Open
<1>4. /\ writer[s].warehouse \in Warehouse /\ writer[s].units \in Int
      /\ writer[s].units \in Levels[writer[s].warehouse]
    BY <1>1 DEF Writing, CacheInv, CacheTypes
<1>5. level' \in [Warehouse -> Int] /\ \A w \in Warehouse : level'[w] \in Levels[w]
    BY <1>1, <1>4 DEF CacheInv, CacheTypes
<1>6. CacheTypes'
    BY <1>1, <1>3, <1>5 DEF CacheInv, CacheTypes
<1>7. /\ ~(entry # Nothing /\ entry.marks = {})
      /\ \A r \in Reader : ~(reader[r] # Nothing /\ reader[r].marks = {})
    BY <1>1 DEF CacheInv, ReadersAreLapped, NothingFreshToLose
<1>8. FreshViews' /\ ReadersAreLapped' /\ NothingFreshToLose'
    BY <1>1, <1>7 DEF FreshViews, UnmarkedIsFresh, ReadersAreLapped, NothingFreshToLose
<1> QED BY <1>6, <1>8 DEF CacheInv

LEMMA RollbackInv ==
    ASSUME CacheInv, NEW s \in Writer, Rollback(s)
    PROVE  CacheInv'
<1>1. writer' = [writer EXCEPT ![s] = Nothing] /\ UNCHANGED <<level, entry, reader>>
    BY DEF Rollback
<1>2. \A t \in Writer : writer'[t] = IF t = s THEN Nothing ELSE writer[t]
    BY <1>1 DEF CacheInv, CacheTypes
<1>3. \A t \in Open' : t \in Open /\ writer'[t] = writer[t]
    BY <1>2 DEF Open
<1>4. CacheTypes'
    BY <1>1, <1>3 DEF CacheInv, CacheTypes
<1>5. Visible(level)' = Visible(level)
    BY <1>1 DEF Visible
<1>6. FreshViews' /\ ReadersAreLapped' /\ NothingFreshToLose'
    BY <1>1, <1>3, <1>5
       DEF CacheInv, FreshViews, UnmarkedIsFresh, ReadersAreLapped, NothingFreshToLose
<1> QED BY <1>4, <1>6 DEF CacheInv

LEMMA CommitSilentlyInv ==
    ASSUME CacheInv, NEW w \in Warehouse, NEW units \in Levels[w], CommitSilently(w, units)
    PROVE  CacheInv'
<1>1. /\ level' = [level EXCEPT ![w] = units] /\ reader' = Marked("silent")
      /\ entry' = Mark(entry, "silent") /\ UNCHANGED writer
    BY DEF CommitSilently
<1>2. level' \in [Warehouse -> Int] /\ \A v \in Warehouse : level'[v] \in Levels[v]
    BY <1>1, LevelsAreInt DEF CacheInv, CacheTypes
<1>3. entry' \in View \cup {Nothing} /\ (entry' # Nothing => entry'.marks # {})
    BY <1>1, MarkIsMarked DEF CacheInv, CacheTypes
<1>4. /\ reader' \in [Reader -> View \cup {Nothing}]
      /\ \A r \in Reader : reader'[r] # Nothing => reader'[r].marks # {}
    BY <1>1, MarkingReaders
<1>5. CacheTypes'
    BY <1>1, <1>2, <1>3, <1>4 DEF CacheInv, CacheTypes, Open
<1>6. FreshViews' /\ ReadersAreLapped' /\ NothingFreshToLose'
    BY <1>3, <1>4 DEF FreshViews, UnmarkedIsFresh, ReadersAreLapped, NothingFreshToLose
<1> QED BY <1>5, <1>6 DEF CacheInv

LEMMA ExpireInv ==
    ASSUME CacheInv, Expire
    PROVE  CacheInv'
<1>1. entry' = Nothing /\ UNCHANGED <<level, reader, writer>>
    BY DEF Expire
<1>2. Open' = Open /\ Visible(level)' = Visible(level)
    BY <1>1 DEF Open, Visible
<1> QED BY <1>1, <1>2 DEF CacheInv, CacheTypes, FreshViews, UnmarkedIsFresh,
                           ReadersAreLapped, NothingFreshToLose

LEMMA StutterInv ==
    ASSUME CacheInv, UNCHANGED cacheVars
    PROVE  CacheInv'
<1>1. Open' = Open /\ Visible(level)' = Visible(level)
    BY DEF cacheVars, Open, Visible
<1> QED BY <1>1 DEF cacheVars, CacheInv, CacheTypes, FreshViews, UnmarkedIsFresh,
                   ReadersAreLapped, NothingFreshToLose

(* Views, writers and levels keep together what CacheInv says, however the   *)
(* calls of get_network_visibility and of the services interleave.           *)
THEOREM CacheInvariant == CacheSpec => []CacheInv
<1>1. CacheInv /\ [CacheNext]_cacheVars => CacheInv'
    <2> SUFFICES ASSUME CacheInv, [CacheNext]_cacheVars PROVE CacheInv'
        OBVIOUS
    <2>1. CASE UNCHANGED cacheVars
        BY <2>1, StutterInv
    <2>2. ASSUME NEW r \in Reader, Read(r) PROVE CacheInv'
        BY <2>2, ReadVisibilityInv, StoreVisibilityInv DEF Read
    <2>3. ASSUME NEW s \in Writer, ServiceCall(s) PROVE CacheInv'
        BY <2>3, ChangeInv, InvalidateInv, CommitBalanceInv, RollbackInv DEF ServiceCall
    <2>4. ASSUME NEW w \in Warehouse, NEW units \in Levels[w], CommitSilently(w, units)
          PROVE CacheInv'
        BY <2>4, CommitSilentlyInv
    <2>5. CASE Expire
        BY <2>5, ExpireInv
    <2> QED BY <2>1, <2>2, <2>3, <2>4, <2>5 DEF CacheNext
<1> QED BY InitCache, <1>1, PTL DEF CacheSpec

(* An entry that is outdated has been overlapped by a transaction that        *)
(* invalidates, or by a call that does not know the cache.                    *)
THEOREM StaleIsOverlapped == CacheSpec => []StaleNeedsOverlap
<1>1. CacheInv => StaleNeedsOverlap
    BY DEF CacheInv, FreshViews, UnmarkedIsFresh, StaleNeedsOverlap, Stale
<1> QED BY CacheInvariant, <1>1, PTL

(* The shapes of the cache, its readers and its writers. *)
THEOREM CacheTypeCorrect == CacheSpec => []CacheTypeOK
<1>1. CacheInv => CacheTypeOK
    BY DEF CacheInv, CacheTypes, View, CacheTypeOK
<1> QED BY CacheInvariant, <1>1, PTL
-----------------------------------------------------------------------------
(* The placement plans.  A plan in the making gives what is no longer spare *)
(* and brings what is no longer needed.                                     *)
Recommended(visible, plan) ==
    /\ plan.spare \in [Warehouse -> Nat] /\ plan.need \in [Warehouse -> Nat]
    /\ plan.moves \in [Warehouse -> [Warehouse -> Nat]]
    /\ \A w \in Warehouse :
          /\ plan.spare[w] + Out(plan.moves, w) = Surplus(w, visible[w])
          /\ plan.need[w] + In(plan.moves, w) = Deficit(w, visible[w])

Further(q, p) == \A w \in Warehouse : q.spare[w] <= p.spare[w] /\ q.need[w] <= p.need[w]

Served(plan, to, from) == plan.need[to] = 0 \/ plan.spare[from] = 0

LEMMA OrderListed ==
    /\ Len(RowOrder) \in Nat /\ \A i \in 1 .. Len(RowOrder) : RowOrder[i] \in Warehouse
    /\ \A w \in Warehouse : \E i \in 1 .. Len(RowOrder) : RowOrder[i] = w
    /\ \A i, j \in 1 .. Len(RowOrder) : RowOrder[i] = RowOrder[j] => i = j
BY RowOrderOK DEF IsInjective, Range

LEMMA SurplusOrDeficit ==
    ASSUME NEW w \in Warehouse, NEW n \in Int
    PROVE  /\ Policy[w].reorder \in Nat /\ Policy[w].safety \in Nat
           /\ Surplus(w, n) \in Nat /\ Deficit(w, n) \in Nat
           /\ Deficit(w, n) = 0 <=> n >= Policy[w].reorder
           /\ Surplus(w, n) = 0 <=> n <= Policy[w].reorder + 2 * Policy[w].safety
           /\ Surplus(w, n) > 0 =>
                 n = Surplus(w, n) + Policy[w].reorder + Policy[w].safety
           /\ Deficit(w, n) > 0 => n = Policy[w].reorder - Deficit(w, n)
<1>1. Policy[w].reorder \in Nat /\ Policy[w].safety \in Nat
    BY PolicyOK
<1> QED BY <1>1 DEF Surplus, Deficit, Floor

LEMMA MovedUnits ==
    ASSUME NEW moves \in [Warehouse -> [Warehouse -> Nat]], NEW w \in Warehouse
    PROVE  /\ Out(moves, w) \in Nat /\ In(moves, w) \in Nat
           /\ \A v \in Warehouse : moves[v][w] <= Out(moves, w) /\ moves[w][v] <= In(moves, w)
<1> DEFINE out == [to \in Warehouse |-> moves[to][w]]
<1>1. \A v \in Warehouse : out[v] \in Nat /\ out[v] = moves[v][w] /\ moves[w][v] \in Nat
    OBVIOUS
<1>2. Out(moves, w) = Total(Warehouse, out) /\ In(moves, w) = Total(Warehouse, moves[w])
    BY DEF Out, In
<1> HIDE DEF out
<1>3. Out(moves, w) \in Nat /\ In(moves, w) \in Nat
    BY <1>1, <1>2, WarehouseFinite, TotalType
<1>4. ASSUME NEW v \in Warehouse
      PROVE  moves[v][w] <= Out(moves, w) /\ moves[w][v] <= In(moves, w)
    <2>1. {v} \in SUBSET Warehouse
        OBVIOUS
    <2>2. Total({v}, out) = moves[v][w] /\ Total({v}, moves[w]) = moves[w][v]
        BY <1>1, TotalSingleton
    <2>3. \A x \in {v} : out[x] \in Nat /\ out[x] <= out[x]
        BY <1>1
    <2>4. \A x \in {v} : moves[w][x] \in Nat /\ moves[w][x] <= moves[w][x]
        OBVIOUS
    <2>5. Total({v}, out) <= Total(Warehouse, out)
        BY <1>1, <2>1, <2>3, WarehouseFinite, TotalMonotone
    <2>6. Total({v}, moves[w]) <= Total(Warehouse, moves[w])
        BY <1>1, <2>1, <2>4, WarehouseFinite, TotalMonotone
    <2> QED BY <1>2, <2>2, <2>5, <2>6
<1> QED BY <1>3, <1>4

LEMMA Recommends ==
    ASSUME NEW visible, NEW p, Recommended(visible, p), NEW to \in Warehouse, NEW from \in Warehouse
    PROVE  /\ Recommended(visible, Recommend(p, to, from))
           /\ Further(Recommend(p, to, from), p)
           /\ Served(Recommend(p, to, from), to, from)
<1> DEFINE units == Least(p.need[to], p.spare[from])
           spare == [p.spare EXCEPT ![from] = @ - units]
           need == [p.need EXCEPT ![to] = @ - units]
           moves == [p.moves EXCEPT ![to][from] = @ + units]
           q == Recommend(p, to, from)
<1>1. q.spare = spare /\ q.need = need /\ q.moves = moves
    BY DEF Recommend
<1>2. /\ p.spare \in [Warehouse -> Nat] /\ p.need \in [Warehouse -> Nat]
      /\ p.moves \in [Warehouse -> [Warehouse -> Nat]]
      /\ p.spare[from] \in Nat /\ p.need[to] \in Nat /\ p.moves[to][from] \in Nat
    BY DEF Recommended
<1>3. /\ units \in Nat /\ units <= p.need[to] /\ units <= p.spare[from]
      /\ units = p.need[to] \/ units = p.spare[from]
    BY <1>2 DEF Least
<1> HIDE DEF units, q
<1>4. /\ spare \in [Warehouse -> Nat] /\ need \in [Warehouse -> Nat]
      /\ spare[from] = p.spare[from] - units /\ need[to] = p.need[to] - units
      /\ \A w \in Warehouse \ {from} : spare[w] = p.spare[w]
      /\ \A w \in Warehouse \ {to} : need[w] = p.need[w]
    BY <1>2, <1>3
<1>5. /\ moves \in [Warehouse -> [Warehouse -> Nat]]
      /\ moves[to][from] = p.moves[to][from] + units
      /\ \A v, w \in Warehouse : v # to \/ w # from => moves[v][w] = p.moves[v][w]
    BY <1>2, <1>3
<1> HIDE DEF spare, need, moves
<1>6. /\ Out(moves, from) = Out(p.moves, from) + units
      /\ \A w \in Warehouse \ {from} : Out(moves, w) = Out(p.moves, w)
    <2> DEFINE was(w) == [v \in Warehouse |-> p.moves[v][w]]
               is(w) == [v \in Warehouse |-> moves[v][w]]
    <2>1. \A v, w \in Warehouse : /\ was(w)[v] \in Nat /\ is(w)[v] \in Nat
                                  /\ was(w)[v] = p.moves[v][w] /\ is(w)[v] = moves[v][w]
        BY <1>2, <1>5
    <2>2. \A w \in Warehouse : /\ Out(p.moves, w) = Total(Warehouse, was(w))
                               /\ Out(moves, w) = Total(Warehouse, is(w))
        BY DEF Out
    <2> HIDE DEF was, is
    <2>3. Total(Warehouse, is(from)) = Total(Warehouse, was(from)) + is(from)[to] - was(from)[to]
        <3>1. \A v \in Warehouse : was(from)[v] \in Nat /\ is(from)[v] \in Nat
            BY <2>1
        <3>2. \A v \in Warehouse \ {to} : was(from)[v] = is(from)[v]
            BY <1>5, <2>1
        <3> QED BY <3>1, <3>2, WarehouseFinite, TotalChange
    <2>4. ASSUME NEW w \in Warehouse \ {from} PROVE Out(moves, w) = Out(p.moves, w)
        <3>1. \A v \in Warehouse : was(w)[v] = is(w)[v]
            BY <1>5, <2>1
        <3> QED BY <2>2, <3>1, TotalSame
    <2>5. Out(p.moves, from) \in Nat
        BY <1>2, MovedUnits
    <2> QED BY <1>2, <1>3, <1>5, <2>1, <2>2, <2>3, <2>4, <2>5
<1>7. /\ In(moves, to) = In(p.moves, to) + units
      /\ \A w \in Warehouse \ {to} : In(moves, w) = In(p.moves, w)
    <2>1. \A w \in Warehouse : /\ moves[w] \in [Warehouse -> Nat]
                               /\ p.moves[w] \in [Warehouse -> Nat]
        BY <1>2, <1>5
    <2>2. Total(Warehouse, moves[to]) = Total(Warehouse, p.moves[to]) + moves[to][from] - p.moves[to][from]
        <3>1. \A v \in Warehouse : p.moves[to][v] \in Nat /\ moves[to][v] \in Nat
            BY <2>1
        <3>2. \A v \in Warehouse \ {from} : p.moves[to][v] = moves[to][v]
            BY <1>5
        <3> QED BY <3>1, <3>2, WarehouseFinite, TotalChange
    <2>3. ASSUME NEW w \in Warehouse \ {to} PROVE In(moves, w) = In(p.moves, w)
        <3>1. \A v \in Warehouse : p.moves[w][v] = moves[w][v]
            BY <1>5
        <3> QED BY <3>1, TotalSame DEF In
    <2>4. In(p.moves, to) \in Nat
        BY <1>2, MovedUnits
    <2> QED BY <1>2, <1>3, <1>5, <2>2, <2>3, <2>4 DEF In
<1>8. \A w \in Warehouse : /\ p.spare[w] \in Nat /\ p.need[w] \in Nat
                           /\ Out(p.moves, w) \in Nat /\ In(p.moves, w) \in Nat
    BY <1>2, MovedUnits
<1>9. \A w \in Warehouse : /\ p.spare[w] + Out(p.moves, w) = Surplus(w, visible[w])
                           /\ p.need[w] + In(p.moves, w) = Deficit(w, visible[w])
    BY DEF Recommended
<1>10. \A w \in Warehouse : /\ spare[w] + Out(moves, w) = Surplus(w, visible[w])
                            /\ need[w] + In(moves, w) = Deficit(w, visible[w])
    <2> TAKE w \in Warehouse
    <2>1. spare[w] + Out(moves, w) = p.spare[w] + Out(p.moves, w)
        BY <1>3, <1>4, <1>6, <1>8
    <2>2. need[w] + In(moves, w) = p.need[w] + In(p.moves, w)
        BY <1>3, <1>4, <1>7, <1>8
    <2> QED BY <1>9, <2>1, <2>2
<1>11. Recommended(visible, q)
    BY <1>1, <1>4, <1>5, <1>10 DEF Recommended
<1>12. Further(q, p)
    BY <1>1, <1>3, <1>4, <1>8 DEF Further
<1>13. Served(q, to, from)
    BY <1>1, <1>2, <1>3, <1>4 DEF Served
<1> QED BY <1>11, <1>12, <1>13 DEF q

(* What holds of a plan that is being made still holds of it later. *)
LEMMA FurtherOn ==
    ASSUME NEW visible, NEW p, NEW q, NEW r, Recommended(visible, p), Recommended(visible, q),
           Recommended(visible, r), Further(q, p), Further(r, q)
    PROVE  /\ Further(r, p)
           /\ \A to, from \in Warehouse : Served(q, to, from) => Served(r, to, from)
<1>1. \A w \in Warehouse : /\ p.spare[w] \in Nat /\ q.spare[w] \in Nat /\ r.spare[w] \in Nat
                           /\ p.need[w] \in Nat /\ q.need[w] \in Nat /\ r.need[w] \in Nat
    BY DEF Recommended
<1>2. \A w \in Warehouse : /\ q.spare[w] <= p.spare[w] /\ q.need[w] <= p.need[w]
                           /\ r.spare[w] <= q.spare[w] /\ r.need[w] <= q.need[w]
    BY DEF Further
<1>3. Further(r, p)
    BY <1>1, <1>2 DEF Further
<1>4. ASSUME NEW to \in Warehouse, NEW from \in Warehouse, Served(q, to, from)
      PROVE  Served(r, to, from)
    BY <1>1, <1>2, <1>4 DEF Served
<1> QED BY <1>3, <1>4

(* The two loops, turn by turn. *)
LEMMA SurplusLoop ==
    ASSUME NEW plan, NEW to
    PROVE  \E after :
              /\ after[0] = plan
              /\ \A i \in 1 .. Len(RowOrder) : after[i] = Recommend(after[i - 1], to, RowOrder[i])
              /\ RecommendTo(plan, to) = after[Len(RowOrder)]
<1> DEFINE n == Len(RowOrder)
           Unfolds(f, m) == f = [i \in 0 .. m |->
                IF i = 0 THEN plan ELSE Recommend(f[i - 1], to, RowOrder[i])]
           P == {m \in 0 .. n : \E f : Unfolds(f, m)}
<1>n. n \in Nat
    BY OrderListed
<1>0. \A m : m \in P <=> m \in 0 .. n /\ \E f : Unfolds(f, m)
    BY Zenon
<1>l. RecommendTo(plan, to) = (CHOOSE f : Unfolds(f, n))[n]
    BY DEF RecommendTo
<1> HIDE DEF n, P
<1>1. 0 \in P
    <2> DEFINE f == [i \in 0 .. 0 |-> plan]
    <2>1. Unfolds(f, 0)
        OBVIOUS
    <2> HIDE DEF f, Unfolds
    <2>2. \E g : Unfolds(g, 0)
        BY <2>1
    <2>3. 0 \in 0 .. n
        BY <1>n
    <2> QED BY <1>0, <2>2, <2>3
<1>2. ASSUME NEW m \in 1 .. n, m - 1 \in P PROVE m \in P
    <2>1. PICK f : Unfolds(f, m - 1)
        BY <1>0, <1>2, Zenon
    <2> DEFINE g == [i \in 0 .. m |-> IF i = m THEN Recommend(f[m - 1], to, RowOrder[m]) ELSE f[i]]
    <2>m. m \in 0 .. n /\ m \in Nat
        BY <1>n
    <2>2. ASSUME NEW i \in 0 .. m
          PROVE  g[i] = IF i = 0 THEN plan ELSE Recommend(g[i - 1], to, RowOrder[i])
        <3>1. CASE i = m
            <4>1. g[i - 1] = f[m - 1] /\ i # 0
                BY <3>1, <2>m
            <4> QED BY <3>1, <4>1
        <3>2. CASE i = 0
            <4>1. 0 \in 0 .. m - 1 /\ g[0] = f[0]
                BY <3>2, <2>m
            <4>2. f[0] = plan
                BY <2>1, <4>1
            <4> QED BY <3>2, <4>1, <4>2
        <3>3. CASE i # m /\ i # 0
            <4>1. i \in 0 .. m - 1 /\ g[i] = f[i] /\ g[i - 1] = f[i - 1]
                BY <3>3, <2>m
            <4>2. f[i] = Recommend(f[i - 1], to, RowOrder[i])
                BY <2>1, <3>3, <4>1
            <4> QED BY <3>3, <4>1, <4>2
        <3> QED BY <3>1, <3>2, <3>3
    <2>3. g = [i \in 0 .. m |-> g[i]]
        OBVIOUS
    <2> HIDE DEF g
    <2>4. Unfolds(g, m)
        BY <2>2, <2>3
    <2> HIDE DEF Unfolds
    <2>5. \E h : Unfolds(h, m)
        BY <2>4, Zenon
    <2> QED BY <1>0, <2>m, <2>5, Zenon
<1>3. \E f : Unfolds(f, n)
    <2> HIDE DEF Unfolds
    <2>1. \A i \in 0 .. n : i \in P
        BY <1>n, <1>1, <1>2, EveryTurn
    <2>2. n \in P
        BY <1>n, <2>1
    <2> QED BY <1>0, <2>2, Zenon
<1> DEFINE after == CHOOSE f : Unfolds(f, n)
<1>4. Unfolds(after, n)
    <2> HIDE DEF Unfolds
    <2> QED BY <1>3, Zenon
<1> HIDE DEF after
<1>5. after[0] = plan
    BY <1>n, <1>4
<1>6. \A i \in 1 .. n : after[i] = Recommend(after[i - 1], to, RowOrder[i])
    BY <1>n, <1>4
<1>7. RecommendTo(plan, to) = after[n]
    BY <1>l DEF after
<1> QED BY <1>5, <1>6, <1>7 DEF n

LEMMA DeficitLoop ==
    ASSUME NEW plan
    PROVE  \E after :
              /\ after[0] = plan
              /\ \A i \in 1 .. Len(RowOrder) : after[i] = RecommendTo(after[i - 1], RowOrder[i])
              /\ RecommendAll(plan) = after[Len(RowOrder)]
<1> DEFINE n == Len(RowOrder)
           Unfolds(f, m) == f = [i \in 0 .. m |->
                IF i = 0 THEN plan ELSE RecommendTo(f[i - 1], RowOrder[i])]
           P == {m \in 0 .. n : \E f : Unfolds(f, m)}
<1>n. n \in Nat
    BY OrderListed
<1>0. \A m : m \in P <=> m \in 0 .. n /\ \E f : Unfolds(f, m)
    BY Zenon
<1>l. RecommendAll(plan) = (CHOOSE f : Unfolds(f, n))[n]
    BY DEF RecommendAll
<1> HIDE DEF n, P
<1>1. 0 \in P
    <2> DEFINE f == [i \in 0 .. 0 |-> plan]
    <2>1. Unfolds(f, 0)
        OBVIOUS
    <2> HIDE DEF f, Unfolds
    <2>2. \E g : Unfolds(g, 0)
        BY <2>1
    <2>3. 0 \in 0 .. n
        BY <1>n
    <2> QED BY <1>0, <2>2, <2>3
<1>2. ASSUME NEW m \in 1 .. n, m - 1 \in P PROVE m \in P
    <2>1. PICK f : Unfolds(f, m - 1)
        BY <1>0, <1>2, Zenon
    <2> DEFINE g == [i \in 0 .. m |-> IF i = m THEN RecommendTo(f[m - 1], RowOrder[m]) ELSE f[i]]
    <2>m. m \in 0 .. n /\ m \in Nat
        BY <1>n
    <2>2. ASSUME NEW i \in 0 .. m
          PROVE  g[i] = IF i = 0 THEN plan ELSE RecommendTo(g[i - 1], RowOrder[i])
        <3>1. CASE i = m
            <4>1. g[i - 1] = f[m - 1] /\ i # 0
                BY <3>1, <2>m
            <4> QED BY <3>1, <4>1
        <3>2. CASE i = 0
            <4>1. 0 \in 0 .. m - 1 /\ g[0] = f[0]
                BY <3>2, <2>m
            <4>2. f[0] = plan
                BY <2>1, <4>1
            <4> QED BY <3>2, <4>1, <4>2
        <3>3. CASE i # m /\ i # 0
            <4>1. i \in 0 .. m - 1 /\ g[i] = f[i] /\ g[i - 1] = f[i - 1]
                BY <3>3, <2>m
            <4>2. f[i] = RecommendTo(f[i - 1], RowOrder[i])
                BY <2>1, <3>3, <4>1
            <4> QED BY <3>3, <4>1, <4>2
        <3> QED BY <3>1, <3>2, <3>3
    <2>3. g = [i \in 0 .. m |-> g[i]]
        OBVIOUS
    <2> HIDE DEF g
    <2>4. Unfolds(g, m)
        BY <2>2, <2>3
    <2> HIDE DEF Unfolds
    <2>5. \E h : Unfolds(h, m)
        BY <2>4, Zenon
    <2> QED BY <1>0, <2>m, <2>5, Zenon
<1>3. \E f : Unfolds(f, n)
    <2> HIDE DEF Unfolds
    <2>1. \A i \in 0 .. n : i \in P
        BY <1>n, <1>1, <1>2, EveryTurn
    <2>2. n \in P
        BY <1>n, <2>1
    <2> QED BY <1>0, <2>2, Zenon
<1> DEFINE after == CHOOSE f : Unfolds(f, n)
<1>4. Unfolds(after, n)
    <2> HIDE DEF Unfolds
    <2> QED BY <1>3, Zenon
<1> HIDE DEF after
<1>5. after[0] = plan
    BY <1>n, <1>4
<1>6. \A i \in 1 .. n : after[i] = RecommendTo(after[i - 1], RowOrder[i])
    BY <1>n, <1>4
<1>7. RecommendAll(plan) = after[n]
    BY <1>l DEF after
<1> QED BY <1>5, <1>6, <1>7 DEF n

(* A deficit is offered every surplus. *)
LEMMA RecommendsTo ==
    ASSUME NEW visible, NEW p, Recommended(visible, p), NEW to \in Warehouse
    PROVE  /\ Recommended(visible, RecommendTo(p, to)) /\ Further(RecommendTo(p, to), p)
           /\ \A from \in Warehouse : Served(RecommendTo(p, to), to, from)
<1> DEFINE n == Len(RowOrder)
<1>1. PICK after :
        /\ after[0] = p
        /\ \A i \in 1 .. n : after[i] = Recommend(after[i - 1], to, RowOrder[i])
        /\ RecommendTo(p, to) = after[n]
    <2>1. \E after :
            /\ after[0] = p
            /\ \A i \in 1 .. n : after[i] = Recommend(after[i - 1], to, RowOrder[i])
            /\ RecommendTo(p, to) = after[n]
        BY SurplusLoop
    <2> QED BY <2>1
<1> DEFINE Offered(i) ==
        /\ Recommended(visible, after[i]) /\ Further(after[i], p)
        /\ \A j \in 1 .. i : Served(after[i], to, RowOrder[j])
<1> DEFINE P == {i \in 0 .. n : Offered(i)}
<1>2. n \in Nat /\ \A i \in 1 .. n : RowOrder[i] \in Warehouse
    BY OrderListed
<1>3. Further(p, p)
    BY DEF Further, Recommended
<1>4. 0 \in P
    BY <1>1, <1>2, <1>3
<1>5. ASSUME NEW i \in 1 .. n, i - 1 \in P PROVE i \in P
    <2>1. /\ Recommended(visible, after[i - 1]) /\ Further(after[i - 1], p)
          /\ \A j \in 1 .. i - 1 : Served(after[i - 1], to, RowOrder[j])
        BY <1>5
    <2>2. /\ after[i] = Recommend(after[i - 1], to, RowOrder[i]) /\ RowOrder[i] \in Warehouse
          /\ i \in 0 .. n
        BY <1>1, <1>2
    <2>3. /\ Recommended(visible, after[i]) /\ Further(after[i], after[i - 1])
          /\ Served(after[i], to, RowOrder[i])
        BY <2>1, <2>2, Recommends
    <2>4. /\ Further(after[i], p)
          /\ \A from \in Warehouse : Served(after[i - 1], to, from) => Served(after[i], to, from)
        BY <2>1, <2>3, FurtherOn
    <2>5. \A j \in 1 .. i : Served(after[i], to, RowOrder[j])
        <3> TAKE j \in 1 .. i
        <3>1. j = i \/ j \in 1 .. i - 1
            OBVIOUS
        <3>2. j \in 1 .. n
            BY <1>2
        <3> QED BY <1>2, <2>1, <2>3, <2>4, <3>1, <3>2
    <2> QED BY <2>2, <2>3, <2>4, <2>5
<1> HIDE DEF Offered
<1>6. \A i \in 0 .. n : i \in P
    <2> HIDE DEF P, n
    <2> QED BY <1>2, <1>4, <1>5, EveryTurn
<1>7. Offered(n)
    BY <1>2, <1>6
<1> QED BY <1>1, <1>7, OrderListed DEF Offered

(* In the end every pair of a deficit and a surplus has been dealt with.     *)
LEMMA RecommendsAll ==
    ASSUME NEW visible, NEW p, Recommended(visible, p)
    PROVE  /\ Recommended(visible, RecommendAll(p))
           /\ \A to, from \in Warehouse : Served(RecommendAll(p), to, from)
<1> DEFINE n == Len(RowOrder)
<1>1. PICK after :
        /\ after[0] = p
        /\ \A i \in 1 .. n : after[i] = RecommendTo(after[i - 1], RowOrder[i])
        /\ RecommendAll(p) = after[n]
    <2>1. \E after :
            /\ after[0] = p
            /\ \A i \in 1 .. n : after[i] = RecommendTo(after[i - 1], RowOrder[i])
            /\ RecommendAll(p) = after[n]
        BY DeficitLoop
    <2> QED BY <2>1
<1> DEFINE Filled(i) ==
        /\ Recommended(visible, after[i])
        /\ \A j \in 1 .. i : \A from \in Warehouse : Served(after[i], RowOrder[j], from)
<1> DEFINE P == {i \in 0 .. n : Filled(i)}
<1>2. n \in Nat /\ \A i \in 1 .. n : RowOrder[i] \in Warehouse
    BY OrderListed
<1>4. 0 \in P
    BY <1>1, <1>2
<1>5. ASSUME NEW i \in 1 .. n, i - 1 \in P PROVE i \in P
    <2>1. /\ Recommended(visible, after[i - 1])
          /\ \A j \in 1 .. i - 1 : \A from \in Warehouse :
                Served(after[i - 1], RowOrder[j], from)
        BY <1>5
    <2>2. /\ after[i] = RecommendTo(after[i - 1], RowOrder[i]) /\ RowOrder[i] \in Warehouse
          /\ i \in 0 .. n
        BY <1>1, <1>2
    <2>3. /\ Recommended(visible, after[i]) /\ Further(after[i], after[i - 1])
          /\ \A from \in Warehouse : Served(after[i], RowOrder[i], from)
        BY <2>1, <2>2, RecommendsTo
    <2>4. \A to, from \in Warehouse : Served(after[i - 1], to, from) => Served(after[i], to, from)
        <3>1. Further(after[i - 1], after[i - 1])
            BY <2>1 DEF Further, Recommended
        <3> QED BY <2>1, <2>3, <3>1, FurtherOn
    <2>5. \A j \in 1 .. i : \A from \in Warehouse : Served(after[i], RowOrder[j], from)
        <3> TAKE j \in 1 .. i
        <3>1. j = i \/ j \in 1 .. i - 1
            OBVIOUS
        <3>2. j \in 1 .. n
            BY <1>2
        <3> QED BY <1>2, <2>1, <2>3, <2>4, <3>1, <3>2
    <2> QED BY <2>2, <2>3, <2>5
<1> HIDE DEF Filled
<1>6. \A i \in 0 .. n : i \in P
    <2> HIDE DEF P, n
    <2> QED BY <1>2, <1>4, <1>5, EveryTurn
<1>7. Filled(n)
    BY <1>2, <1>6
<1> QED BY <1>1, <1>7, OrderListed DEF Filled

(* What a plan moves for a visibility: no more than the surpluses and the    *)
(* deficits, and of each pair that could still trade nothing is left.        *)
LEMMA MovesFit ==
    ASSUME NEW visible \in [Warehouse -> Int]
    PROVE  /\ Moves(visible) \in [Warehouse -> [Warehouse -> Nat]]
           /\ \A w \in Warehouse : /\ Out(Moves(visible), w) <= Surplus(w, visible[w])
                                   /\ In(Moves(visible), w) <= Deficit(w, visible[w])
           /\ \/ Cardinality(Warehouse) < 2
              \/ \A to, from \in Warehouse :
                    \/ In(Moves(visible), to) = Deficit(to, visible[to])
                    \/ Out(Moves(visible), from) = Surplus(from, visible[from])
<1> DEFINE start == Analysis(visible)
           plan == RecommendAll(start)
<1>1. \A w \in Warehouse : /\ Surplus(w, visible[w]) \in Nat /\ Deficit(w, visible[w]) \in Nat
    BY SurplusOrDeficit
<1>2. /\ start.spare \in [Warehouse -> Nat] /\ start.need \in [Warehouse -> Nat]
      /\ start.moves \in [Warehouse -> [Warehouse -> Nat]]
      /\ \A w \in Warehouse : /\ start.spare[w] = Surplus(w, visible[w])
                              /\ start.need[w] = Deficit(w, visible[w])
      /\ \A to, from \in Warehouse : start.moves[to][from] = 0
    BY <1>1 DEF Analysis
<1> HIDE DEF start
<1>3. \A w \in Warehouse : Out(start.moves, w) = 0 /\ In(start.moves, w) = 0
    <2> TAKE w \in Warehouse
    <2> DEFINE out == [to \in Warehouse |-> start.moves[to][w]]
    <2>1. \A v \in Warehouse : out[v] = 0 /\ start.moves[w][v] = 0
        BY <1>2
    <2>2. Out(start.moves, w) = Total(Warehouse, out)
        BY DEF Out
    <2> HIDE DEF out
    <2>3. Total(Warehouse, out) = 0 /\ Total(Warehouse, start.moves[w]) = 0
        BY <2>1, TotalZero
    <2> QED BY <2>2, <2>3 DEF In
<1>4. Recommended(visible, start)
    BY <1>1, <1>2, <1>3 DEF Recommended
<1>5. Recommended(visible, plan) /\ \A to, from \in Warehouse : Served(plan, to, from)
    BY <1>4, RecommendsAll
<1>6. CASE Cardinality(Warehouse) < 2
    <2>1. Moves(visible) = start.moves
        BY <1>6 DEF Moves, start
    <2> QED BY <1>1, <1>2, <1>3, <1>6, <2>1
<1>7. CASE ~(Cardinality(Warehouse) < 2)
    <2>1. Moves(visible) = plan.moves
        BY <1>7 DEF Moves, start
    <2> HIDE DEF plan
    <2>2. /\ plan.moves \in [Warehouse -> [Warehouse -> Nat]]
          /\ \A w \in Warehouse : /\ plan.spare[w] \in Nat /\ plan.need[w] \in Nat
                                  /\ plan.spare[w] + Out(plan.moves, w) = Surplus(w, visible[w])
                                  /\ plan.need[w] + In(plan.moves, w) = Deficit(w, visible[w])
        BY <1>5 DEF Recommended
    <2>3. \A w \in Warehouse : Out(plan.moves, w) \in Nat /\ In(plan.moves, w) \in Nat
        BY <2>2, MovedUnits
    <2>4. \A w \in Warehouse : /\ Out(plan.moves, w) <= Surplus(w, visible[w])
                               /\ In(plan.moves, w) <= Deficit(w, visible[w])
                               /\ plan.spare[w] = 0 => Out(plan.moves, w) = Surplus(w, visible[w])
                               /\ plan.need[w] = 0 => In(plan.moves, w) = Deficit(w, visible[w])
        BY <1>1, <2>2, <2>3
    <2>5. \A to, from \in Warehouse : plan.need[to] = 0 \/ plan.spare[from] = 0
        BY <1>5 DEF Served
    <2> QED BY <2>1, <2>2, <2>4, <2>5
<1> QED BY <1>6, <1>7

(* Carried out, a plan leaves each warehouse that gives its reserve, and     *)
(* nothing to a pair that could trade again.                                 *)
LEMMA PlanCarriedOut ==
    ASSUME NEW units \in [Warehouse -> Int]
    PROVE  LET after == Moved(units, Moves(Visible(units)))
           IN  /\ \A w \in Warehouse : Out(Moves(Visible(units)), w) > 0 =>
                     after[w] >= Policy[w].reorder + Policy[w].safety
               /\ {w \in Warehouse : units[w] < 0} = {} =>
                     \A to, from \in Warehouse : Moves(Visible(after))[to][from] = 0
<1> DEFINE V == Visible(units)
           moves == Moves(V)
           after == Moved(units, moves)
<1>1. /\ V \in [Warehouse -> Nat]
      /\ \A w \in Warehouse : V[w] = Floor(units[w])
    BY VisibleType DEF Visible
<1>2. \A w \in Warehouse : /\ Policy[w].reorder \in Nat /\ Policy[w].safety \in Nat
                           /\ Surplus(w, V[w]) \in Nat /\ Deficit(w, V[w]) \in Nat
    BY <1>1, SurplusOrDeficit
<1> HIDE DEF V
<1>3. /\ moves \in [Warehouse -> [Warehouse -> Nat]]
      /\ \A w \in Warehouse : Out(moves, w) <= Surplus(w, V[w]) /\ In(moves, w) <= Deficit(w, V[w])
      /\ \/ Cardinality(Warehouse) < 2
         \/ \A to, from \in Warehouse :
               \/ In(moves, to) = Deficit(to, V[to]) \/ Out(moves, from) = Surplus(from, V[from])
    BY <1>1, MovesFit
<1> HIDE DEF moves
<1>4. \A w \in Warehouse : Out(moves, w) \in Nat /\ In(moves, w) \in Nat
    BY <1>3, MovedUnits
<1>5. \A w \in Warehouse : after[w] \in Int /\ after[w] = units[w] - Out(moves, w) + In(moves, w)
    BY <1>4 DEF Moved
<1>6. after \in [Warehouse -> Int]
    BY <1>5 DEF Moved
<1> HIDE DEF after
<1>7. ASSUME NEW w \in Warehouse, Surplus(w, V[w]) > 0
      PROVE  /\ V[w] = units[w] /\ In(moves, w) = 0
             /\ after[w] = Policy[w].reorder + Policy[w].safety
                              + (Surplus(w, V[w]) - Out(moves, w))
    <2>1. V[w] = Surplus(w, V[w]) + Policy[w].reorder + Policy[w].safety /\ Deficit(w, V[w]) = 0
        BY <1>1, <1>2, <1>7, SurplusOrDeficit
    <2>2. V[w] = units[w]
        BY <1>1, <1>2, <1>7, <2>1 DEF Floor
    <2> QED BY <1>2, <1>3, <1>4, <1>5, <2>1, <2>2
<1>8. ASSUME NEW w \in Warehouse, Out(moves, w) > 0
      PROVE  after[w] >= Policy[w].reorder + Policy[w].safety
    <2>1. Surplus(w, V[w]) > 0
        BY <1>2, <1>3, <1>4, <1>8
    <2> QED BY <1>2, <1>3, <1>4, <1>7, <2>1
<1>9. ASSUME {w \in Warehouse : units[w] < 0} = {}, NEW to \in Warehouse, NEW from \in Warehouse
      PROVE  Moves(Visible(after))[to][from] = 0
    <2> DEFINE again == Moves(Visible(after))
    <2>1. \A w \in Warehouse : V[w] = units[w]
        BY <1>1, <1>9 DEF Floor
    <2>2. \A w \in Warehouse : Visible(after)[w] = after[w]
        <3> TAKE w \in Warehouse
        <3>1. after[w] >= 0
            BY <1>1, <1>2, <1>4, <1>5, <1>8, <2>1
        <3> QED BY <1>6, <3>1 DEF Visible, Floor
    <2>3. Visible(after) \in [Warehouse -> Nat]
        BY <1>6, VisibleType
    <2>4. /\ again \in [Warehouse -> [Warehouse -> Nat]]
          /\ Out(again, from) <= Surplus(from, after[from]) /\ In(again, to) <= Deficit(to, after[to])
        BY <2>2, <2>3, MovesFit
    <2> HIDE DEF again
    <2>5. again[to][from] \in Nat /\ again[to][from] <= Out(again, from) /\ again[to][from] <= In(again, to)
        BY <2>4, MovedUnits
    <2>6. Out(again, from) \in Nat /\ In(again, to) \in Nat
        BY <2>4, MovedUnits
    <2>7. Surplus(from, after[from]) \in Nat /\ Deficit(to, after[to]) \in Nat
        BY <1>5, SurplusOrDeficit
    <2>8. Cardinality(Warehouse) < 2 => again[to][from] = 0
        BY DEF again, Moves, Analysis
    <2>9. ASSUME ~(Cardinality(Warehouse) < 2)
          PROVE  Surplus(from, after[from]) = 0 \/ Deficit(to, after[to]) = 0
        <3>1. CASE Surplus(from, V[from]) = 0
            <4>1. V[from] <= Policy[from].reorder + 2 * Policy[from].safety /\ Out(moves, from) = 0
                BY <1>1, <1>2, <1>3, <1>4, <3>1, SurplusOrDeficit
            <4>2. In(moves, from) > 0 => after[from] <= Policy[from].reorder
                <5> HAVE In(moves, from) > 0
                <5>1. Deficit(from, V[from]) > 0
                    BY <1>2, <1>3, <1>4
                <5>2. V[from] = Policy[from].reorder - Deficit(from, V[from])
                    BY <1>1, <5>1, SurplusOrDeficit
                <5> QED BY <1>2, <1>3, <1>4, <1>5, <2>1, <4>1, <5>2
            <4>3. after[from] <= Policy[from].reorder + 2 * Policy[from].safety
                BY <1>1, <1>2, <1>4, <1>5, <2>1, <4>1, <4>2
            <4> QED BY <1>5, <4>3, SurplusOrDeficit
        <3>2. CASE Surplus(from, V[from]) > 0 /\ Out(moves, from) = Surplus(from, V[from])
            <4>1. after[from] = Policy[from].reorder + Policy[from].safety
                BY <1>2, <1>7, <3>2
            <4>2. after[from] <= Policy[from].reorder + 2 * Policy[from].safety
                BY <1>2, <4>1
            <4> QED BY <1>5, <4>2, SurplusOrDeficit
        <3>3. CASE In(moves, to) = Deficit(to, V[to])
            <4>1. CASE Out(moves, to) > 0
                <5>1. after[to] >= Policy[to].reorder
                    BY <1>2, <1>5, <1>8, <4>1
                <5> QED BY <1>5, <5>1, SurplusOrDeficit
            <4>2. CASE Out(moves, to) = 0
                <5>1. after[to] = V[to] + Deficit(to, V[to])
                    BY <1>1, <1>2, <1>4, <1>5, <2>1, <3>3, <4>2
                <5>2. V[to] + Deficit(to, V[to]) >= Policy[to].reorder
                    <6>1. V[to] \in Int /\ Policy[to].reorder \in Nat /\ Deficit(to, V[to]) \in Nat
                        BY <1>1, <1>2
                    <6>2. CASE Deficit(to, V[to]) = 0
                        <7>1. V[to] >= Policy[to].reorder
                            BY <6>1, <6>2, SurplusOrDeficit
                        <7> QED BY <6>1, <6>2, <7>1
                    <6>3. CASE Deficit(to, V[to]) > 0
                        BY <6>1, <6>3, SurplusOrDeficit
                    <6> QED BY <6>1, <6>2, <6>3
                <5> QED BY <1>5, <5>1, <5>2, SurplusOrDeficit
            <4> QED BY <1>4, <4>1, <4>2
        <3> QED BY <1>2, <1>3, <2>9, <3>1, <3>2, <3>3
    <2>10. again[to][from] = 0
        BY <2>4, <2>5, <2>6, <2>7, <2>8, <2>9
    <2> QED BY <2>10 DEF again
<1> QED BY <1>8, <1>9 DEF after, moves, V

-----------------------------------------------------------------------------
(* The fill-rate objective.  Among sets of at most as many members the one   *)
(* with the largest quantities has the largest total.                        *)
LEMMA LargestTotal ==
    ASSUME NEW S, IsFiniteSet(S), NEW W \in SUBSET S, NEW T \in SUBSET S,
           Cardinality(W) <= Cardinality(T), NEW q, \A x \in S : q[x] \in Nat, NEW c \in Nat,
           \A x \in T : q[x] >= c, \A x \in S \ T : q[x] <= c
    PROVE  Total(W, q) <= Total(T, q)
<1> DEFINE A == W \ T
           B == T \ W
           C == W \cap T
           step == [x \in S |-> c]
<1>1. /\ IsFiniteSet(W) /\ IsFiniteSet(T) /\ IsFiniteSet(A) /\ IsFiniteSet(B) /\ IsFiniteSet(C)
      /\ A \cap C = {} /\ B \cap C = {} /\ W = A \cup C /\ T = B \cup C
    <2>1. A \in SUBSET S /\ B \in SUBSET S /\ C \in SUBSET S
        OBVIOUS
    <2> QED BY <2>1, FS_Subset
<1>2. Cardinality(A) = Cardinality(W) - Cardinality(C)
    BY <1>1, FS_Difference
<1>3. Cardinality(B) = Cardinality(T) - Cardinality(C)
    <2>1. T \cap W = C
        OBVIOUS
    <2>2. Cardinality(T \ W) = Cardinality(T) - Cardinality(T \cap W)
        BY <1>1, FS_Difference
    <2> QED BY <2>1, <2>2, Zenon
<1>4. /\ Cardinality(W) \in Nat /\ Cardinality(T) \in Nat /\ Cardinality(C) \in Nat
      /\ Cardinality(A) \in Nat /\ Cardinality(B) \in Nat
    BY <1>1, FS_CardinalityType
<1>5. Cardinality(A) <= Cardinality(B)
    BY <1>2, <1>3, <1>4
<1>6. \A x \in A \cup B : x \in S /\ step[x] = c /\ step[x] \in Nat /\ q[x] \in Nat
    OBVIOUS
<1>7. (\A x \in A : q[x] <= c) /\ (\A x \in B : q[x] >= c)
    OBVIOUS
<1>8. \A x \in A \cup B \cup C : q[x] \in Nat
    OBVIOUS
<1> HIDE DEF A, B, C, step
<1>9. ASSUME NEW D, IsFiniteSet(D), \A x \in D : step[x] = c
      PROVE  Total(D, step) = Cardinality(D) * c
    <2>1. Units(D, step) = D \X (1 .. c)
        BY <1>9 DEF Units
    <2>2. IsFiniteSet(1 .. c) /\ Cardinality(1 .. c) = c
        <3>1. c \in Int /\ 1 \in Int
            OBVIOUS
        <3>2. IsFiniteSet(1 .. c)
                /\ Cardinality(1 .. c) = IF 1 > c THEN 0 ELSE c - 1 + 1
            BY <3>1, FS_Interval
        <3> QED BY <3>2
    <2>3. Cardinality(D \X (1 .. c)) = Cardinality(D) * Cardinality(1 .. c)
        BY <1>9, <2>2, FS_Product
    <2> QED BY <2>1, <2>2, <2>3 DEF Total
<1>10. Total(A, q) <= Total(A, step) /\ Total(A, q) \in Nat
    <2>1. \A x \in A : step[x] \in Nat
        BY <1>6
    <2>2. \A x \in A : q[x] \in Nat /\ q[x] <= step[x]
        BY <1>6, <1>7
    <2> QED BY <1>1, <2>1, <2>2, TotalMonotone
<1>11. Total(B, step) <= Total(B, q) /\ Total(B, q) \in Nat
    <2>1. \A x \in B : q[x] \in Nat
        BY <1>6
    <2>2. \A x \in B : step[x] \in Nat /\ step[x] <= q[x]
        BY <1>6, <1>7
    <2> QED BY <1>1, <2>1, <2>2, TotalMonotone
<1>12. Cardinality(A) * c <= Cardinality(B) * c /\ Cardinality(A) * c \in Nat /\ Cardinality(B) * c \in Nat
    BY <1>4, <1>5
<1>13. Total(A, step) = Cardinality(A) * c /\ Total(B, step) = Cardinality(B) * c
    BY <1>1, <1>6, <1>9
<1>14. Total(W, q) = Total(A, q) + Total(C, q) /\ Total(T, q) = Total(B, q) + Total(C, q)
    <2>1. Total(A \cup C, q) = Total(A, q) + Total(C, q)
        BY <1>1, <1>8, TotalUnion
    <2>2. Total(B \cup C, q) = Total(B, q) + Total(C, q)
        BY <1>1, <1>8, TotalUnion
    <2> QED BY <1>1, <2>1, <2>2
<1>15. Total(C, q) \in Nat
    BY <1>1, <1>8, TotalType
<1> QED BY <1>10, <1>11, <1>12, <1>13, <1>14, <1>15

(* A stable sort by quantity puts the warehouses in a chain. *)
Sorted(visible) == [w \in Warehouse |-> Richer(visible, w)]

LEMMA SortedIsChain ==
    ASSUME NEW visible \in [Warehouse -> Nat]
    PROVE  Chain(Warehouse, Sorted(visible))
<1>1. \A w \in Warehouse : Position(w) \in 1 .. Len(RowOrder) /\ RowOrder[Position(w)] = w
    <2> TAKE w \in Warehouse
    <2>1. DOMAIN RowOrder = 1 .. Len(RowOrder)
        BY RowOrderOK
    <2>2. \E i \in DOMAIN RowOrder : RowOrder[i] = w
        BY <2>1, OrderListed
    <2>3. Position(w) \in DOMAIN RowOrder /\ RowOrder[Position(w)] = w
        BY <2>2 DEF Position
    <2> QED BY <2>1, <2>3
<1>2. \A w \in Warehouse : Position(w) \in Nat
    BY <1>1, OrderListed
<1>3. \A v, w \in Warehouse : Position(v) = Position(w) => v = w
    BY <1>1
<1>4. \A v, w \in Warehouse : v \in Sorted(visible)[w] <=>
         \/ visible[v] > visible[w]
         \/ visible[v] = visible[w] /\ Position(v) < Position(w)
    BY DEF Sorted, Richer, Earlier
<1>5. \A w \in Warehouse : Sorted(visible)[w] \in SUBSET Warehouse
    BY DEF Sorted, Richer
<1>6. \A w \in Warehouse : visible[w] \in Nat
    OBVIOUS
<1>7. \A w \in Warehouse : w \notin Sorted(visible)[w]
    BY <1>2, <1>4, <1>6
<1>8. \A v, w \in Warehouse : v # w => v \in Sorted(visible)[w] \/ w \in Sorted(visible)[v]
    BY <1>2, <1>3, <1>4, <1>6
<1>9. \A u, v, w \in Warehouse :
         u \in Sorted(visible)[v] /\ v \in Sorted(visible)[w] => u \in Sorted(visible)[w]
    BY <1>2, <1>4, <1>6
<1> QED BY <1>5, <1>7, <1>8, <1>9 DEF Chain

LEMMA FewestShip ==
    ASSUME NEW visible \in [Warehouse -> Nat], NEW demand \in Nat
    PROVE  LET ships == FillRateAllocation(visible, demand)
               used  == {w \in Warehouse : ships[w] > 0}
           IN  /\ Total(Warehouse, ships) = Least(demand, Total(Warehouse, visible))
               /\ \A W \in SUBSET Warehouse :
                     Total(W, visible) >= Total(Warehouse, ships) =>
                         Cardinality(W) >= Cardinality(used)
<1> DEFINE ships == FillRateAllocation(visible, demand)
           used == {w \in Warehouse : ships[w] > 0}
           before == Sorted(visible)
<1>1. Chain(Warehouse, before)
    BY SortedIsChain
<1>2. /\ \A w \in Warehouse : ships[w] = Least(visible[w], Floor(demand - Total(before[w], visible)))
      /\ \A v, w \in Warehouse : v \in before[w] => visible[v] >= visible[w]
    BY DEF FillRateAllocation, Sorted, Richer
<1> HIDE DEF before, ships
<1>3. /\ \A w \in Warehouse : visible[w] \in Nat /\ ships[w] \in Nat /\ ships[w] <= visible[w]
      /\ Total(Warehouse, visible) \in Nat
      /\ Total(Warehouse, ships) = Least(demand, Total(Warehouse, visible))
    <2>1. \A w \in Warehouse : visible[w] \in Nat
        OBVIOUS
    <2> QED BY <1>1, <1>2, <2>1, WarehouseFinite, WalkTakes
<1>4. \A w \in Warehouse : /\ before[w] \in SUBSET Warehouse /\ IsFiniteSet(before[w])
                           /\ Total(before[w], visible) \in Nat
    <2> TAKE w \in Warehouse
    <2>1. before[w] \in SUBSET Warehouse /\ IsFiniteSet(before[w])
        BY <1>1, WarehouseFinite, FS_Subset DEF Chain
    <2>2. \A v \in before[w] : visible[v] \in Nat
        BY <2>1
    <2> QED BY <2>1, <2>2, TotalType
<1>5. ASSUME NEW W \in SUBSET Warehouse, Total(W, visible) >= Total(Warehouse, ships)
      PROVE  Cardinality(W) >= Cardinality(used)
    <2>0. used \in SUBSET Warehouse /\ IsFiniteSet(used) /\ IsFiniteSet(W)
        BY WarehouseFinite, FS_Subset
    <2>1. Cardinality(W) \in Nat /\ Cardinality(used) \in Nat
        BY <2>0, FS_CardinalityType
    <2>2. CASE used = {}
        BY <2>1, <2>2, FS_EmptySet
    <2>3. CASE used # {}
        <3>1. PICK m \in used : \A v \in used : v = m \/ v \in before[m]
            <4> HIDE DEF used
            <4> QED BY <1>1, <2>0, <2>3, WarehouseFinite, LastOfChain
        <3> DEFINE B == before[m]
        <3>2. /\ m \in Warehouse /\ ships[m] > 0 /\ visible[m] > 0 /\ m \notin B
              /\ B \in SUBSET Warehouse /\ IsFiniteSet(B) /\ Total(B, visible) \in Nat
            BY <1>1, <1>3, <1>4 DEF Chain
        <3>3. demand > Total(B, visible)
            BY <1>2, <1>3, <3>2 DEF Least, Floor
        <3>4. used \ {m} \in SUBSET B /\ used \in SUBSET (B \cup {m})
            BY <3>1
        <3>5. Cardinality(used) <= Cardinality(B) + 1 /\ Cardinality(B) \in Nat
            <4>1. IsFiniteSet(B \cup {m}) /\ Cardinality(B \cup {m}) = Cardinality(B) + 1
                BY <3>2, FS_AddElement
            <4>2. Cardinality(used) <= Cardinality(B \cup {m})
                BY <3>4, <4>1, FS_Subset
            <4> QED BY <3>2, <4>1, <4>2, FS_CardinalityType
        <3>6. Total(Warehouse, ships) > Total(B, visible)
            <4>1. Total(B \cup {m}, visible) = Total(B, visible) + visible[m]
                <5>1. \A v \in B : visible[v] \in Nat /\ visible[v] = visible[v]
                    BY <3>2
                <5>2. visible[m] \in Nat
                    BY <3>2
                <5> QED BY <3>2, <5>1, <5>2, TotalAdd
            <4>2. Total(B \cup {m}, visible) <= Total(Warehouse, visible)
                <5>1. B \cup {m} \in SUBSET Warehouse
                    BY <3>2
                <5>2. \A v \in B \cup {m} : visible[v] \in Nat /\ visible[v] <= visible[v]
                    BY <5>1
                <5> QED BY <1>3, <5>1, <5>2, WarehouseFinite, TotalMonotone
            <4>3. Total(Warehouse, visible) > Total(B, visible)
                BY <1>3, <3>2, <4>1, <4>2
            <4> QED BY <1>3, <3>3, <4>3 DEF Least
        <3>7. ASSUME Cardinality(W) <= Cardinality(B) PROVE FALSE
            <4>1. /\ visible[m] \in Nat
                  /\ \A v \in B : visible[v] >= visible[m]
                  /\ \A v \in Warehouse \ B : visible[v] <= visible[m]
                <5>1. \A v \in Warehouse \ B : v = m \/ m \in before[v]
                    BY <1>1, <3>2 DEF Chain
                <5> QED BY <1>2, <1>3, <3>2, <5>1
            <4> HIDE DEF B
            <4>2. Total(W, visible) <= Total(B, visible)
                BY <1>3, <3>2, <3>7, <4>1, WarehouseFinite, LargestTotal
            <4>3. Total(W, visible) \in Nat
                <5>1. \A v \in W : visible[v] \in Nat
                    OBVIOUS
                <5> QED BY <2>0, <5>1, TotalType
            <4>4. Total(Warehouse, ships) \in Nat
                BY <1>3 DEF Least
            <4> QED BY <1>5, <3>2, <3>6, <4>2, <4>3, <4>4
        <3> HIDE DEF B, used
        <3> QED BY <2>1, <3>5, <3>7
    <2> QED BY <2>2, <2>3
<1> QED BY <1>3, <1>5 DEF ships

(* Whatever the balances of the network become, the plan that               *)
(* InventoryPlacementOptimizer.analyze_network makes of them leaves its      *)
(* givers above their safety stock, and asks for nothing more once it has    *)
(* been carried out.                                                        *)
THEOREM PlansAreSettled == CacheSpec => []PlansSettle
<1>1. CacheInv => PlansSettle
    <2> HAVE CacheInv
    <2>1. level \in [Warehouse -> Int]
        BY DEF CacheInv, CacheTypes
    <2> QED BY <2>1, PlanCarriedOut DEF PlansSettle, Advice, Seen, Oversold
<1> QED BY CacheInvariant, <1>1, PTL

(* Whatever the balances and the demand, OptimizationEngine's fill-rate      *)
(* objective ships as much as there is and is asked for, and no choice of    *)
(* fewer warehouses could ship as much.                                      *)
THEOREM FewestWarehousesShip == CacheSpec => []FillsFromFewest
<1>1. CacheInv => FillsFromFewest
    <2> HAVE CacheInv
    <2>1. Seen \in [Warehouse -> Nat]
        BY VisibleType DEF CacheInv, CacheTypes, Seen
    <2>2. Total(Warehouse, Seen) \in Nat
        <3>1. \A w \in Warehouse : Seen[w] \in Nat
            BY <2>1
        <3> QED BY <3>1, WarehouseFinite, TotalType
    <2>3. \A demand \in 0 .. Total(Warehouse, Seen) + 1 : demand \in Nat
        BY <2>2
    <2> QED BY <2>1, <2>3, FewestShip DEF FillsFromFewest
<1> QED BY CacheInvariant, <1>1, PTL
=============================================================================
