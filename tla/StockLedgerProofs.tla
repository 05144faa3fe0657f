-------------------------- MODULE StockLedgerProofs --------------------------
(***************************************************************************)
(* Proofs about StockLedger, for any number of warehouses, orders and      *)
(* reservations and any bounds.                                            *)
(***************************************************************************)
EXTENDS StockLedger, TotalTheorems

(* What a plan may take: a natural number of units, no more than on offer. *)
LEMMA PlanWithinOffer ==
    ASSUME TypeOK, NEW need \in 1 .. MaxQty, NEW pref \in Warehouse \cup {None},
           NEW split \in BOOLEAN
    PROVE  /\ Offered \in [Warehouse -> Nat]
           /\ Plan(Offered, need, pref, split) \in [Warehouse -> Nat]
           /\ \A w \in Warehouse : Plan(Offered, need, pref, split)[w] <= Offered[w]
<1>1. Offered \in [Warehouse -> Nat]
    BY DEF Offered, Available, Floor, TypeOK, Row
<1>2. need \in Nat
    BY BoundsOK
<1>3. ASSUME NEW w \in Warehouse
      PROVE  /\ SplitPlan(Offered, need, pref)[w] \in Nat
             /\ SplitPlan(Offered, need, pref)[w] <= Offered[w]
             /\ WholePlan(Offered, need, pref)[w] \in Nat
             /\ WholePlan(Offered, need, pref)[w] <= Offered[w]
    <2>1. Before(w, pref) \in SUBSET Warehouse
        BY DEF Before
    <2>2. IsFiniteSet(Before(w, pref))
        BY <2>1, WarehouseFinite, FS_Subset
    <2>3. Total(Before(w, pref), Offered) \in Nat
        BY <1>1, <2>1, <2>2, TotalType
    <2>4. Offered[w] \in Nat
        BY <1>1
    <2> HIDE DEF Offered
    <2> QED BY <1>2, <2>3, <2>4 DEF SplitPlan, WholePlan, Least, Floor
<1>4. Plan(Offered, need, pref, split) = IF split THEN SplitPlan(Offered, need, pref)
                                         ELSE WholePlan(Offered, need, pref)
    BY DEF Plan
<1>5. /\ SplitPlan(Offered, need, pref) \in [Warehouse -> Nat]
      /\ WholePlan(Offered, need, pref) \in [Warehouse -> Nat]
    BY <1>3 DEF SplitPlan, WholePlan
<1> QED BY <1>1, <1>3, <1>4, <1>5

(* Totals of reservation quantities are natural numbers. *)
LEMMA QuantityTotals ==
    ASSUME TypeOK, NEW T \in SUBSET Reservation, NEW w
    PROVE  /\ IsFiniteSet(T) /\ IsFiniteSet(At(T, w)) /\ At(T, w) \in SUBSET T
           /\ \A r \in Reservation : Quantity[r] \in Nat
           /\ Total(At(T, w), Quantity) \in Nat
<1>1. At(T, w) \in SUBSET T
    BY DEF At
<1>2. IsFiniteSet(T)
    BY ReservationFinite, FS_Subset
<1>3. IsFiniteSet(At(T, w))
    BY <1>1, <1>2, FS_Subset
<1>4. \A r \in Reservation : Quantity[r] \in Nat
    BY DEF TypeOK, ReservationRow, Quantity
<1>5. \A r \in At(T, w) : Quantity[r] \in Nat
    BY <1>1, <1>4
<1> QED BY <1>1, <1>2, <1>3, <1>4, <1>5, TotalType

(* What settling writes into the row of a reservation. *)
Rewritten(x, status) == [x EXCEPT !.status = status, !.left = 0]

LEMMA RowSettled ==
    ASSUME NEW x \in ReservationRow, NEW status \in Status, 0 \in -1 .. MaxLeft
    PROVE  /\ Rewritten(x, status) \in ReservationRow
           /\ Rewritten(x, status).status = status
           /\ Rewritten(x, status).warehouse = x.warehouse
           /\ Rewritten(x, status).quantity = x.quantity
BY DEF ReservationRow, Rewritten

(* Settling active reservations moves them, and nothing else, from the      *)
(* active ones to the confirmed or the released ones.                       *)
LEMMA SettleMoves ==
    ASSUME TypeOK, NEW C, NEW R, C \cap R = {},
           C \cup R \subseteq InState("active"), res' = Settle(C, R)
    PROVE  /\ res' \in [Reservation -> ReservationRow]
           /\ Quantity' = Quantity
           /\ \A r \in Reservation : /\ res'[r].warehouse = res[r].warehouse
                                     /\ res'[r].status = "none" <=> res[r].status = "none"
           /\ \A w : At(InState("active"), w)' =
                        (At(InState("active"), w) \ At(R, w)) \ At(C, w)
           /\ \A w : At(InState("confirmed"), w)' = At(InState("confirmed"), w) \cup At(C, w)
<1>1. C \cup R \subseteq Reservation /\ \A r \in C \cup R : res[r].status = "active"
    BY DEF InState
<1>2. \A r \in Reservation :
        res'[r] = IF r \in C THEN [res[r] EXCEPT !.status = "confirmed", !.left = 0]
                  ELSE IF r \in R THEN [res[r] EXCEPT !.status = "released", !.left = 0]
                  ELSE res[r]
    BY DEF Settle
<1>3. \A r \in Reservation :
        /\ res'[r] \in ReservationRow
        /\ res'[r].status = IF r \in C THEN "confirmed"
                            ELSE IF r \in R THEN "released" ELSE res[r].status
        /\ res'[r].warehouse = res[r].warehouse
        /\ res'[r].quantity = res[r].quantity
    <2> SUFFICES ASSUME NEW r \in Reservation
                 PROVE  /\ res'[r] \in ReservationRow
                        /\ res'[r].status = IF r \in C THEN "confirmed"
                              ELSE IF r \in R THEN "released" ELSE res[r].status
                        /\ res'[r].warehouse = res[r].warehouse
                        /\ res'[r].quantity = res[r].quantity
        OBVIOUS
    <2>1. res[r] \in ReservationRow
        BY DEF TypeOK
    <2>2. 0 \in -1 .. MaxLeft
        BY BoundsOK
    <2>3. CASE r \in C
        <3>1. res'[r] = Rewritten(res[r], "confirmed") /\ "confirmed" \in Status
            BY <1>2, <2>3 DEF Rewritten, Status
        <3>2. /\ res'[r] \in ReservationRow /\ res'[r].status = "confirmed"
              /\ res'[r].warehouse = res[r].warehouse /\ res'[r].quantity = res[r].quantity
            BY <2>1, <2>2, <3>1, RowSettled
        <3> QED BY <2>3, <3>2
    <2>4. CASE r \notin C /\ r \in R
        <3>1. res'[r] = Rewritten(res[r], "released") /\ "released" \in Status
            BY <1>2, <2>4 DEF Rewritten, Status
        <3>2. /\ res'[r] \in ReservationRow /\ res'[r].status = "released"
              /\ res'[r].warehouse = res[r].warehouse /\ res'[r].quantity = res[r].quantity
            BY <2>1, <2>2, <3>1, RowSettled
        <3> QED BY <2>4, <3>2
    <2>5. CASE r \notin C /\ r \notin R
        <3>1. res'[r] = res[r]
            BY <1>2, <2>5
        <3> QED BY <2>1, <2>5, <3>1
    <2> QED BY <2>3, <2>4, <2>5
<1>4. res' \in [Reservation -> ReservationRow]
    BY <1>3 DEF Settle
<1>5. Quantity' = Quantity
    BY <1>3 DEF Quantity
<1>6. \A w : At(InState("active"), w)' =
                (At(InState("active"), w) \ At(R, w)) \ At(C, w)
    BY <1>1, <1>3 DEF At, InState
<1>7. \A w : At(InState("confirmed"), w)' = At(InState("confirmed"), w) \cup At(C, w)
    BY <1>1, <1>3 DEF At, InState
<1>8. \A r \in Reservation : res'[r].status = "none" <=> res[r].status = "none"
    BY <1>1, <1>3
<1> QED BY <1>3, <1>4, <1>5, <1>6, <1>7, <1>8

(* The same in numbers: at every warehouse the units of R and C leave the   *)
(* active total, and those of C join the confirmed total.                   *)
LEMMA SettleTotals ==
    ASSUME TypeOK, NEW C, NEW R, C \cap R = {},
           C \cup R \subseteq InState("active"), res' = Settle(C, R),
           NEW w
    PROVE  /\ Total(At(C, w), Quantity) \in Nat /\ Total(At(R, w), Quantity) \in Nat
           /\ Total(At(InState("active"), w), Quantity)' =
                Total(At(InState("active"), w), Quantity)
                    - Total(At(R, w), Quantity) - Total(At(C, w), Quantity)
           /\ Total(At(InState("active"), w), Quantity)
                >= Total(At(R, w), Quantity) + Total(At(C, w), Quantity)
           /\ Total(At(InState("confirmed"), w), Quantity)' =
                Total(At(InState("confirmed"), w), Quantity) + Total(At(C, w), Quantity)
<1> DEFINE A == At(InState("active"), w)
           F == At(InState("confirmed"), w)
           RW == At(R, w)
           CW == At(C, w)
           q == Quantity
<1>1. /\ q' = q
      /\ A' = (A \ RW) \ CW
      /\ F' = F \cup CW
    BY SettleMoves
<1>2. /\ A \in SUBSET Reservation /\ F \in SUBSET Reservation
      /\ RW \in SUBSET A /\ CW \in SUBSET (A \ RW) /\ F \cap CW = {}
    BY DEF At, InState
<1>3. \A S \in SUBSET Reservation :
        IsFiniteSet(S) /\ (\A r \in S : q[r] \in Nat) /\ Total(S, q) \in Nat
    <2>1. \A r \in Reservation : q[r] \in Nat
        BY DEF TypeOK, ReservationRow, Quantity
    <2> SUFFICES ASSUME NEW S \in SUBSET Reservation
                 PROVE IsFiniteSet(S) /\ (\A r \in S : q[r] \in Nat) /\ Total(S, q) \in Nat
        OBVIOUS
    <2>2. IsFiniteSet(S)
        BY ReservationFinite, FS_Subset
    <2> QED BY <2>1, <2>2, TotalType
<1>4. /\ RW \in SUBSET Reservation /\ CW \in SUBSET Reservation
      /\ A \ RW \in SUBSET Reservation
    BY <1>2
<1> HIDE DEF A, F, RW, CW, q
<1>5. Total(A \ RW, q) = Total(A, q) - Total(RW, q)
    BY <1>2, <1>3, <1>4, TotalDifference
<1>6. Total((A \ RW) \ CW, q) = Total(A \ RW, q) - Total(CW, q)
    BY <1>2, <1>3, <1>4, TotalDifference
<1>7. Total(F \cup CW, q) = Total(F, q) + Total(CW, q)
    <2>1. \A r \in F \cup CW : q[r] \in Nat
        BY <1>2, <1>3, <1>4
    <2> QED BY <1>2, <1>3, <1>4, <2>1, TotalUnion
<1>8. Total((A \ RW) \ CW, q) \in Nat
    BY <1>3, <1>4
<1>9. /\ Total(A', q') = Total((A \ RW) \ CW, q)
      /\ Total(F', q') = Total(F \cup CW, q)
    BY <1>1, Zenon
<1>10. /\ Total(A, q) \in Nat /\ Total(RW, q) \in Nat /\ Total(CW, q) \in Nat
       /\ Total(F, q) \in Nat
    BY <1>2, <1>3, <1>4
<1>11. /\ Total(A', q') = Total(A, q) - Total(RW, q) - Total(CW, q)
       /\ Total(A, q) >= Total(RW, q) + Total(CW, q)
       /\ Total(F', q') = Total(F, q) + Total(CW, q)
    BY <1>5, <1>6, <1>7, <1>8, <1>9, <1>10
<1> QED BY <1>10, <1>11 DEF A, F, RW, CW, q

(* Moving b units from reserved to allocated and dropping a more of them.   *)
LEMMA RowShift ==
    ASSUME NEW x \in Row, NEW a \in Nat, NEW b \in Nat
    PROVE  LET y == [x EXCEPT !.reserved = @ - a - b, !.allocated = @ + b]
           IN  /\ y \in Row
               /\ y.reserved = x.reserved - a - b
               /\ y.allocated = x.allocated + b
<1> DEFINE y == [x EXCEPT !.reserved = @ - a - b, !.allocated = @ + b]
<1>1. /\ y.reserved = x.reserved - a - b
      /\ y.allocated = x.allocated + b
    BY DEF Row
<1>2. x.reserved - a - b \in Int /\ x.allocated + b \in Int
    BY DEF Row
<1>3. y \in Row
    BY <1>2 DEF Row
<1> QED BY <1>1, <1>3

(* Moving nothing changes nothing. *)
LEMMA RowUnmoved ==
    ASSUME NEW x \in Row
    PROVE  [x EXCEPT !.reserved = @ - 0 - 0, !.allocated = @ + 0] = x
<1>1. x.reserved - 0 - 0 = x.reserved /\ x.allocated + 0 = x.allocated
    BY DEF Row
<1>2. [x EXCEPT !.reserved = x.reserved, !.allocated = x.allocated] = x
    BY DEF Row
<1> QED BY <1>1, <1>2

(* Row w after its units of C were confirmed and its units of R released. *)
SettledRow(w, C, R) ==
    [bal[w] EXCEPT
        !.reserved = @ - Total(At(R, w), Quantity) - Total(At(C, w), Quantity),
        !.allocated = @ + Total(At(C, w), Quantity)]

(* A call that settles C and R and moves the counters by their totals keeps *)
(* the whole invariant: the common part of release, expiry and confirm.     *)
LEMMA SettleInv ==
    ASSUME LedgerInv, NEW C, NEW R, C \cap R = {},
           C \cup R \subseteq InState("active"), res' = Settle(C, R), rows' = rows,
           bal' = [w \in Warehouse |-> bal'[w]],
           \A w \in Warehouse : bal'[w] = SettledRow(w, C, R)
    PROVE  LedgerInv'
<1>1. TypeOK
    BY DEF LedgerInv
<1>2. \A w : /\ Total(At(C, w), Quantity) \in Nat /\ Total(At(R, w), Quantity) \in Nat
             /\ Total(At(InState("active"), w), Quantity)' =
                  Total(At(InState("active"), w), Quantity)
                      - Total(At(R, w), Quantity) - Total(At(C, w), Quantity)
             /\ Total(At(InState("confirmed"), w), Quantity)' =
                  Total(At(InState("confirmed"), w), Quantity) + Total(At(C, w), Quantity)
    BY <1>1, SettleTotals
<1>3. \A w \in Warehouse :
        /\ bal[w] \in Row
        /\ bal'[w] \in Row
        /\ bal'[w].reserved = bal[w].reserved
                - Total(At(R, w), Quantity) - Total(At(C, w), Quantity)
        /\ bal'[w].allocated = bal[w].allocated + Total(At(C, w), Quantity)
    <2> SUFFICES ASSUME NEW w \in Warehouse
                 PROVE  /\ bal[w] \in Row
                        /\ bal'[w] \in Row
                        /\ bal'[w].reserved = bal[w].reserved
                                - Total(At(R, w), Quantity) - Total(At(C, w), Quantity)
                        /\ bal'[w].allocated = bal[w].allocated + Total(At(C, w), Quantity)
        OBVIOUS
    <2> DEFINE tr == Total(At(R, w), Quantity)
               tc == Total(At(C, w), Quantity)
    <2>1. bal[w] \in Row
        BY <1>1 DEF TypeOK
    <2>2. tr \in Nat /\ tc \in Nat
        BY <1>2
    <2>3. bal'[w] = [bal[w] EXCEPT !.reserved = @ - tr - tc, !.allocated = @ + tc]
        BY DEF SettledRow
    <2> HIDE DEF tr, tc
    <2> DEFINE y == [bal[w] EXCEPT !.reserved = @ - tr - tc, !.allocated = @ + tc]
    <2>4. /\ y \in Row
          /\ y.reserved = bal[w].reserved - tr - tc
          /\ y.allocated = bal[w].allocated + tc
        <3> HIDE DEF y
        <3> QED BY ZenonT(30), <2>1, <2>2, RowShift DEF y
    <2>5. bal'[w] = y
        BY <2>3
    <2> HIDE DEF y
    <2>6. /\ bal'[w] \in Row
          /\ bal'[w].reserved = bal[w].reserved - tr - tc
          /\ bal'[w].allocated = bal[w].allocated + tc
        BY <2>4, <2>5
    <2> QED BY <2>1, <2>6 DEF tr, tc
<1>4. TypeOK'
    BY <1>1, <1>3, SettleMoves DEF TypeOK
<1>5. ReservedIsBacked'
    <2> SUFFICES ASSUME NEW w \in Warehouse
                 PROVE bal'[w].reserved = Total(At(InState("active"), w), Quantity)'
        BY DEF ReservedIsBacked
    <2>1. bal[w].reserved = Total(At(InState("active"), w), Quantity)
        BY DEF LedgerInv, ReservedIsBacked
    <2> QED BY <1>2, <1>3, <2>1
<1>6. AllocatedIsBacked'
    <2> SUFFICES ASSUME NEW w \in Warehouse
                 PROVE bal'[w].allocated = Total(At(InState("confirmed"), w), Quantity)'
        BY DEF AllocatedIsBacked
    <2>1. bal[w].allocated = Total(At(InState("confirmed"), w), Quantity)
        BY DEF LedgerInv, AllocatedIsBacked
    <2> QED BY <1>2, <1>3, <2>1
<1>7. DrawOnRows'
    BY <1>1, SettleMoves DEF LedgerInv, ReservationsHaveRows, DrawOnRows
<1>8. RowlessIsEmpty'
    <2> SUFFICES ASSUME NEW w \in Warehouse \ rows
                 PROVE bal'[w] = NoRow
        BY DEF RowlessIsEmpty
    <2>1. bal[w] = NoRow
        BY DEF LedgerInv, ReservationsHaveRows, RowlessIsEmpty
    <2>2. \A r \in Reservation : res[r].warehouse = w => res[r].status = "none"
        BY DEF LedgerInv, ReservationsHaveRows, DrawOnRows
    <2>3. At(C, w) = {} /\ At(R, w) = {}
        BY <2>2 DEF At, InState
    <2>4. Total(At(C, w), Quantity) = 0 /\ Total(At(R, w), Quantity) = 0
        BY <2>3, TotalEmpty
    <2>5. bal'[w] = [bal[w] EXCEPT !.reserved = @ - 0 - 0, !.allocated = @ + 0]
        BY <2>4 DEF SettledRow
    <2>6. bal[w] \in Row
        BY <1>3
    <2>7. bal'[w] = bal[w]
        BY <2>5, <2>6, RowUnmoved
    <2> QED BY <2>1, <2>7
<1> QED BY <1>4, <1>5, <1>6, <1>7, <1>8 DEF LedgerInv, ReservationsHaveRows

(* No reservation, no units. *)
LEMMA NothingAt == ASSUME NEW w PROVE Total(At({}, w), Quantity) = 0
<1>1. At({}, w) = {}
    BY DEF At
<1> QED BY <1>1, TotalEmpty

(* The floor in a release never bites: the counter covers what it returns.  *)
LEMMA ReleaseIsExact ==
    ASSUME LedgerInv, NEW T \in SUBSET InState("active"), NEW w \in Warehouse
    PROVE  AfterRelease(T, w) = bal[w].reserved - Total(At(T, w), Quantity)
<1>1. bal[w].reserved = Total(At(InState("active"), w), Quantity)
    BY DEF LedgerInv, ReservedIsBacked
<1>2. TypeOK
    BY DEF LedgerInv
<1>3. InState("active") \in SUBSET Reservation /\ T \in SUBSET Reservation
    BY DEF InState
<1>4. /\ Total(At(T, w), Quantity) \in Nat
      /\ Total(At(InState("active"), w), Quantity) \in Nat
      /\ IsFiniteSet(At(InState("active"), w))
      /\ \A r \in At(InState("active"), w) : Quantity[r] \in Nat
    <2>1. /\ IsFiniteSet(At(InState("active"), w))
          /\ At(InState("active"), w) \in SUBSET InState("active")
          /\ \A r \in Reservation : Quantity[r] \in Nat
          /\ Total(At(InState("active"), w), Quantity) \in Nat
        BY <1>2, <1>3, QuantityTotals
    <2>2. Total(At(T, w), Quantity) \in Nat
        BY <1>2, <1>3, QuantityTotals
    <2> QED BY <1>3, <2>1, <2>2
<1>5. At(T, w) \in SUBSET At(InState("active"), w)
    BY DEF At
<1>6. Total(At(InState("active"), w) \ At(T, w), Quantity) =
        Total(At(InState("active"), w), Quantity) - Total(At(T, w), Quantity)
    BY <1>4, <1>5, TotalDifference
<1>7. At(InState("active"), w) \ At(T, w) = At(InState("active") \ T, w)
    BY DEF At
<1>8. Total(At(InState("active"), w) \ At(T, w), Quantity) \in Nat
    BY <1>2, <1>3, <1>7, QuantityTotals
<1>9. bal[w].reserved - Total(At(T, w), Quantity) \in Nat
    BY <1>1, <1>6, <1>8
<1>10. CASE At(T, w) = {}
    <2>1. Total(At(T, w), Quantity) = 0
        BY <1>10, TotalEmpty
    <2>2. bal[w].reserved \in Int
        BY <1>1, <1>4
    <2> QED BY <1>10, <2>1, <2>2 DEF AfterRelease
<1>11. CASE At(T, w) # {}
    BY <1>9, <1>11 DEF AfterRelease, Floor
<1> QED BY <1>10, <1>11

(* A release of active reservations keeps the invariant. *)
LEMMA ReleaseAllInv ==
    ASSUME LedgerInv, NEW T \in SUBSET InState("active"), ReleaseAll(T)
    PROVE  LedgerInv' /\ \A w \in Warehouse : bal'[w] = SettledRow(w, {}, T)
<1>1. \A w \in Warehouse : AfterRelease(T, w) = bal[w].reserved - Total(At(T, w), Quantity)
    BY ReleaseIsExact
<1>2. \A w \in Warehouse : bal[w] \in Row /\ Total(At(T, w), Quantity) \in Nat
    <2>1. TypeOK /\ T \in SUBSET Reservation
        BY DEF LedgerInv, InState
    <2> QED BY <2>1, QuantityTotals DEF TypeOK
<1>3. ASSUME NEW w \in Warehouse PROVE bal'[w] = SettledRow(w, {}, T)
    <2> DEFINE t == Total(At(T, w), Quantity)
    <2>1. Total(At({}, w), Quantity) = 0
        BY NothingAt
    <2>2. /\ AfterRelease(T, w) = bal[w].reserved - t /\ t \in Nat
          /\ bal[w] \in Row
        BY <1>1, <1>2
    <2>3. bal'[w] = [bal[w] EXCEPT !.reserved = AfterRelease(T, w)]
        BY DEF ReleaseAll
    <2>4. SettledRow(w, {}, T) = [bal[w] EXCEPT !.reserved = @ - t - 0, !.allocated = @ + 0]
        BY <2>1 DEF SettledRow
    <2> HIDE DEF t
    <2>5. /\ bal[w].reserved - t - 0 = bal[w].reserved - t
          /\ bal[w].allocated + 0 = bal[w].allocated
        BY <2>2 DEF Row
    <2>6. [bal[w] EXCEPT !.reserved = bal[w].reserved - t] =
            [bal[w] EXCEPT !.reserved = bal[w].reserved - t,
                           !.allocated = bal[w].allocated]
        BY <2>2 DEF Row
    <2> QED BY <2>2, <2>3, <2>4, <2>5, <2>6
<1>4. {} \cap T = {} /\ {} \cup T \subseteq InState("active")
    OBVIOUS
<1>5. res' = Settle({}, T) /\ rows' = rows /\ bal' = [w \in Warehouse |-> bal'[w]]
    BY DEF ReleaseAll
<1> QED BY <1>3, <1>4, <1>5, SettleInv

(* Confirming one live reservation keeps the invariant. *)
LEMMA ConfirmInv ==
    ASSUME LedgerInv, NEW r \in Reservation, Confirm(r)
    PROVE  LedgerInv' /\ \A w \in Warehouse : bal'[w] = SettledRow(w, {r}, {})
<1> DEFINE h == res[r].warehouse
           n == res[r].quantity
<1>1. /\ r \in InState("active") /\ res' = Settle({r}, {}) /\ rows' = rows
      /\ bal' = [bal EXCEPT ![h].reserved = @ - n, ![h].allocated = @ + n]
    BY DEF Confirm
<1>2. h \in Warehouse /\ n \in Nat /\ Quantity[r] = n
    BY <1>1 DEF LedgerInv, TypeOK, ReservationsHaveRows, DrawOnRows, ReservationRow, InState, Quantity
<1>3. Total({r}, Quantity) = n
    BY <1>2, TotalSingleton
<1>4. \A w \in Warehouse : bal[w] \in Row
    BY DEF LedgerInv, TypeOK
<1>5. ASSUME NEW w \in Warehouse
      PROVE  bal'[w] = SettledRow(w, {r}, {})
    <2>1. Total(At({}, w), Quantity) = 0
        BY NothingAt
    <2>2. CASE w = h
        <3>1. At({r}, w) = {r}
            BY <2>2 DEF At
        <3>2. Total(At({r}, w), Quantity) = n
            BY <1>3, <3>1
        <3>3. bal'[w] = [bal[w] EXCEPT !.reserved = @ - n, !.allocated = @ + n]
            <4> HIDE DEF h, n
            <4> QED BY <1>1, <2>2 DEF LedgerInv, TypeOK
        <3>4. bal[w].reserved - 0 - n = bal[w].reserved - n
            BY <1>2, <1>4 DEF Row
        <3> QED BY <2>1, <3>2, <3>3, <3>4 DEF SettledRow
    <2>3. CASE w # h
        <3>1. At({r}, w) = {}
            BY <2>3 DEF At
        <3>2. Total(At({r}, w), Quantity) = 0
            BY <3>1, TotalEmpty
        <3>3. bal'[w] = bal[w]
            <4> HIDE DEF h, n
            <4> QED BY <1>1, <2>3 DEF LedgerInv, TypeOK
        <3>4. bal[w] = [bal[w] EXCEPT !.reserved = @ - 0 - 0, !.allocated = @ + 0]
            BY <1>4, RowUnmoved
        <3> QED BY <2>1, <3>2, <3>3, <3>4 DEF SettledRow
    <2> QED BY <2>2, <2>3
<1>6. bal' = [w \in Warehouse |-> bal'[w]]
    BY <1>1 DEF LedgerInv, TypeOK
<1>7. {r} \cap {} = {} /\ {r} \cup {} \subseteq InState("active")
    BY <1>1
<1> QED BY <1>1, <1>5, <1>6, <1>7, SettleInv

(* Confirming an order, its expired reservations released instead, keeps    *)
(* the invariant.                                                           *)
LEMMA ConfirmOrderInv ==
    ASSUME LedgerInv, NEW o \in Order, ConfirmOrder(o)
    PROVE  /\ LedgerInv'
           /\ \A w \in Warehouse : bal'[w] =
                SettledRow(w, ActiveOf(o) \ Expired, ActiveOf(o) \cap Expired)
<1> DEFINE stale == ActiveOf(o) \cap Expired
           live  == ActiveOf(o) \ Expired
<1>1. /\ res' = Settle(live, stale) /\ rows' = rows
      /\ bal' = [w \in Warehouse |->
            [bal[w] EXCEPT
                !.reserved = AfterRelease(stale, w) - Total(At(live, w), Quantity),
                !.allocated = @ + Total(At(live, w), Quantity)]]
    BY DEF ConfirmOrder
<1>2. /\ live \cap stale = {} /\ live \cup stale \subseteq InState("active")
      /\ stale \in SUBSET InState("active")
    BY DEF ActiveOf
<1> HIDE DEF stale, live
<1>3. \A w \in Warehouse : AfterRelease(stale, w) =
            bal[w].reserved - Total(At(stale, w), Quantity)
    BY <1>2, ReleaseIsExact
<1>4. \A w \in Warehouse : bal'[w] = SettledRow(w, live, stale)
    BY <1>1, <1>3 DEF SettledRow
<1>5. bal' = [w \in Warehouse |-> bal'[w]]
    BY <1>1
<1>6. LedgerInv'
    BY <1>1, <1>2, <1>4, <1>5, SettleInv
<1> QED BY <1>4, <1>6 DEF live, stale

(* Allocating keeps the invariant: each warehouse's counter grows by the    *)
(* quantity of the one reservation made there.                              *)
LEMMA AllocateInv ==
    ASSUME LedgerInv, NEW o \in Order, NEW need \in 1 .. MaxQty,
           NEW pref \in Warehouse \cup {None}, NEW split \in BOOLEAN,
           Allocate(o, need, pref, split)
    PROVE  LedgerInv'
<1> DEFINE plan == Plan(Offered, need, pref, split)
           used == {w \in Warehouse : plan[w] > 0}
<1>1. TypeOK
    BY DEF LedgerInv
<1>2. /\ plan \in [Warehouse -> Nat] /\ Offered \in [Warehouse -> Nat]
      /\ \A w \in Warehouse : plan[w] <= Offered[w]
    BY <1>1, PlanWithinOffer
<1>3. PICK id \in [used -> InState("none")] :
        /\ \A v, w \in used : id[v] = id[w] => v = w
        /\ res' = [r \in Reservation |->
                IF \E w \in used : id[w] = r
                THEN LET w == CHOOSE w \in used : id[w] = r
                     IN  [status |-> "active", order |-> o, warehouse |-> w,
                          quantity |-> plan[w], left |-> Ttl]
                ELSE res[r]]
    BY DEF Allocate
<1>4. rows' = rows /\ bal' = [w \in Warehouse |-> [bal[w] EXCEPT !.reserved = @ + plan[w]]]
    BY DEF Allocate
<1>u. used = {w \in Warehouse : plan[w] > 0}
    OBVIOUS
<1>v. used \in SUBSET Warehouse
    OBVIOUS
<1> HIDE DEF plan, used
<1>a. res' = [r \in Reservation |-> res'[r]]
    BY <1>3
<1>b. \A r \in Reservation : (\A w \in used : id[w] # r) => res'[r] = res[r]
    BY <1>3
<1>c. ASSUME NEW w \in used
      PROVE  res'[id[w]] = [status |-> "active", order |-> o, warehouse |-> w,
                            quantity |-> plan[w], left |-> Ttl]
    <2>1. (CHOOSE v \in used : id[v] = id[w]) = w
        BY <1>3
    <2>2. id[w] \in Reservation
        BY <1>3 DEF InState
    <2> QED BY <1>3, <2>1, <2>2
<1>d. \A w \in used : id[w] \in Reservation /\ res[id[w]].status = "none"
    BY <1>3 DEF InState
<1>e. ASSUME NEW r \in Reservation PROVE res'[r] \in ReservationRow
    <2>1. CASE \E w \in used : id[w] = r
        <3>1. PICK w \in used : id[w] = r
            BY <2>1
        <3>2. res'[r] = [status |-> "active", order |-> o, warehouse |-> w,
                         quantity |-> plan[w], left |-> Ttl]
            BY <1>c, <3>1
        <3>3. Ttl \in -1 .. MaxLeft
            BY BoundsOK
        <3>4. plan[w] \in Nat /\ w \in Warehouse
            BY <1>2, <1>v
        <3> QED BY <3>2, <3>3, <3>4 DEF ReservationRow, Status
    <2>2. CASE \A w \in used : id[w] # r
        BY <1>1, <1>b, <2>2 DEF TypeOK
    <2> QED BY <2>1, <2>2
<1>f. ASSUME NEW w \in used
      PROVE  /\ res'[id[w]].status = "active"
             /\ res'[id[w]].warehouse = w /\ res'[id[w]].quantity = plan[w]
    <2>1. res'[id[w]] = [status |-> "active", order |-> o, warehouse |-> w,
                         quantity |-> plan[w], left |-> Ttl]
        BY <1>c
    <2> QED BY <2>1
<1>5. /\ res' \in [Reservation -> ReservationRow]
      /\ \A w \in used :
            /\ id[w] \in Reservation /\ res[id[w]].status = "none"
            /\ res'[id[w]].status = "active"
            /\ res'[id[w]].warehouse = w /\ res'[id[w]].quantity = plan[w]
      /\ \A r \in Reservation : (\A w \in used : id[w] # r) => res'[r] = res[r]
    <2>1. res' \in [Reservation -> ReservationRow]
        BY <1>a, <1>e
    <2> QED BY <2>1, <1>b, <1>d, <1>f
<1>6. \A w \in Warehouse : /\ bal[w] \in Row /\ bal'[w] \in Row
                           /\ bal'[w].reserved = bal[w].reserved + plan[w]
                           /\ bal'[w].allocated = bal[w].allocated
    <2> SUFFICES ASSUME NEW w \in Warehouse
                 PROVE  /\ bal[w] \in Row /\ bal'[w] \in Row
                        /\ bal'[w].reserved = bal[w].reserved + plan[w]
                        /\ bal'[w].allocated = bal[w].allocated
        OBVIOUS
    <2>1. bal[w] \in Row /\ plan[w] \in Nat
        BY <1>1, <1>2 DEF TypeOK
    <2>2. bal[w].reserved + plan[w] \in Int
        BY <2>1 DEF Row
    <2> QED BY <1>4, <2>1, <2>2 DEF Row
<1>7. TypeOK'
    BY <1>1, <1>4, <1>5, <1>6 DEF TypeOK
<1>8. \A r \in Reservation : res[r].status # "none" => res'[r] = res[r]
    BY <1>5
<1>9. ReservedIsBacked'
    <2> SUFFICES ASSUME NEW w \in Warehouse
                 PROVE bal'[w].reserved = Total(At(InState("active"), w), Quantity)'
        BY DEF ReservedIsBacked
    <2> DEFINE A == At(InState("active"), w)
               q == Quantity
    <2>1. A \in SUBSET Reservation /\ IsFiniteSet(A) /\ Total(A, q) \in Nat
          /\ \A r \in Reservation : q[r] \in Nat
        <3>1. InState("active") \in SUBSET Reservation
            BY DEF InState
        <3> QED BY <1>1, <3>1, QuantityTotals
    <2>2. \A r \in A : q'[r] = q[r]
        BY <1>8 DEF At, InState, Quantity
    <2>3. \A r \in Reservation : q'[r] \in Nat
        BY <1>7 DEF TypeOK, ReservationRow, Quantity
    <2>4. bal[w].reserved = Total(A, q)
        BY DEF LedgerInv, ReservedIsBacked
    <2>5. Total(A, q') = Total(A, q)
        <3> HIDE DEF A, q
        <3> QED BY <2>2, TotalSame
    <2>6. CASE w \in used
        <3>1. A' = A \cup {id[w]} /\ id[w] \notin A /\ id[w] \in Reservation
            <4>1. \A v \in used : id[v] = id[w] => v = w
                BY <1>3, <2>6
            <4>2. \A r \in Reservation : r \in A' <=> r \in A \/ r = id[w]
                <5> SUFFICES ASSUME NEW r \in Reservation
                             PROVE r \in A' <=> r \in A \/ r = id[w]
                    OBVIOUS
                <5>1. CASE \E v \in used : id[v] = r
                    BY <1>5, <2>6, <4>1, <5>1 DEF At, InState
                <5>2. CASE \A v \in used : id[v] # r
                    BY <1>5, <2>6, <5>2 DEF At, InState
                <5> QED BY <5>1, <5>2
            <4>3. A' \in SUBSET Reservation
                BY DEF At, InState
            <4>4. id[w] \notin A /\ id[w] \in Reservation
                BY <1>5, <2>6 DEF At, InState
            <4> QED BY <2>1, <4>2, <4>3, <4>4
        <3>2. q'[id[w]] = plan[w]
            BY <1>5, <2>6, <3>1 DEF Quantity
        <3>3. plan[w] \in Nat
            BY <1>2
        <3> HIDE DEF A, q
        <3>4. Total({id[w]}, q') = plan[w]
            BY <3>2, <3>3, TotalSingleton
        <3>5. Total(A \cup {id[w]}, q') = Total(A, q') + Total({id[w]}, q')
            <4>1. IsFiniteSet({id[w]}) /\ A \cap {id[w]} = {}
                BY <3>1, FS_Singleton
            <4>2. \A r \in A \cup {id[w]} : q'[r] \in Nat
                BY <2>1, <2>3, <3>1
            <4> QED BY <2>1, <4>1, <4>2, TotalUnion
        <3>6. Total(A', q') = bal[w].reserved + plan[w]
            BY <2>4, <2>5, <3>1, <3>4, <3>5
        <3>7. bal'[w].reserved = Total(A', q')
            BY <1>6, <3>6
        <3> QED BY <3>7 DEF A, q
    <2>7. CASE w \notin used
        <3>1. A' = A
            <4>1. \A r \in Reservation : r \in A' <=> r \in A
                <5> SUFFICES ASSUME NEW r \in Reservation PROVE r \in A' <=> r \in A
                    OBVIOUS
                <5>1. CASE \E v \in used : id[v] = r
                    BY <1>5, <2>7, <5>1 DEF At, InState
                <5>2. CASE \A v \in used : id[v] # r
                    BY <1>5, <5>2 DEF At, InState
                <5> QED BY <5>1, <5>2
            <4>2. A' \in SUBSET Reservation
                BY DEF At, InState
            <4> QED BY <2>1, <4>1, <4>2
        <3>2. plan[w] = 0
            BY <1>2, <1>u, <2>7
        <3> HIDE DEF A, q
        <3>3. Total(A', q') = bal[w].reserved
            BY <2>4, <2>5, <3>1
        <3>4. bal[w].reserved \in Int
            BY <1>6 DEF Row
        <3>5. bal'[w].reserved = Total(A', q')
            BY <1>6, <3>2, <3>3, <3>4
        <3> QED BY <3>5 DEF A, q
    <2> QED BY <2>6, <2>7
<1>10. AllocatedIsBacked'
    <2> SUFFICES ASSUME NEW w \in Warehouse
                 PROVE bal'[w].allocated = Total(At(InState("confirmed"), w), Quantity)'
        BY DEF AllocatedIsBacked
    <2> DEFINE F == At(InState("confirmed"), w)
               q == Quantity
    <2>1. F' = F
        <3>1. \A r \in Reservation : r \in F' <=> r \in F
            <4> SUFFICES ASSUME NEW r \in Reservation PROVE r \in F' <=> r \in F
                OBVIOUS
            <4>1. CASE \E v \in used : id[v] = r
                BY <1>5, <4>1 DEF At, InState
            <4>2. CASE \A v \in used : id[v] # r
                BY <1>5, <4>2 DEF At, InState
            <4> QED BY <4>1, <4>2
        <3>2. F \in SUBSET Reservation /\ F' \in SUBSET Reservation
            BY DEF At, InState
        <3> QED BY <3>1, <3>2
    <2>2. \A r \in F : q'[r] = q[r]
        BY <1>8 DEF At, InState, Quantity
    <2>3. bal[w].allocated = Total(F, q)
        BY DEF LedgerInv, AllocatedIsBacked
    <2> HIDE DEF F, q
    <2>4. Total(F, q') = Total(F, q)
        BY <2>2, TotalSame
    <2>5. bal'[w].allocated = Total(F', q')
        BY <1>6, <2>1, <2>3, <2>4
    <2> QED BY <2>5 DEF F, q
<1>11. \A w \in used : w \in rows
    <2> SUFFICES ASSUME NEW w \in used, w \notin rows PROVE FALSE
        OBVIOUS
    <2>1. w \in Warehouse /\ plan[w] > 0
        BY <1>u
    <2>2. bal[w] = NoRow
        BY <2>1 DEF LedgerInv, ReservationsHaveRows, RowlessIsEmpty
    <2>3. Offered[w] = 0
        BY <2>1, <2>2 DEF Offered, Available, NoRow, Floor
    <2>4. plan[w] \in Nat /\ plan[w] <= 0
        BY <1>2, <2>1, <2>3
    <2> QED BY <2>1, <2>4
<1>12. DrawOnRows'
    <2> SUFFICES ASSUME NEW r \in Reservation, res'[r].status # "none"
                 PROVE  res'[r].warehouse \in rows
        BY <1>4 DEF DrawOnRows
    <2>1. CASE \E w \in used : id[w] = r
        BY <1>5, <1>11, <2>1
    <2>2. CASE \A w \in used : id[w] # r
        BY <1>5, <2>2 DEF LedgerInv, ReservationsHaveRows, DrawOnRows
    <2> QED BY <2>1, <2>2
<1>13. RowlessIsEmpty'
    <2> SUFFICES ASSUME NEW w \in Warehouse \ rows PROVE bal'[w] = NoRow
        BY <1>4 DEF RowlessIsEmpty
    <2>1. bal[w] = NoRow
        BY DEF LedgerInv, ReservationsHaveRows, RowlessIsEmpty
    <2>2. plan[w] = 0
        BY <1>2, <1>11, <1>u
    <2>3. bal[w].reserved + plan[w] = bal[w].reserved /\ bal[w] \in Row
        BY <1>6, <2>2 DEF Row
    <2>4. bal'[w] = [bal[w] EXCEPT !.reserved = bal[w].reserved]
        BY <1>4, <2>3
    <2>5. bal'[w] = bal[w]
        BY <2>3, <2>4 DEF Row
    <2> QED BY <2>1, <2>5
<1> QED BY <1>7, <1>9, <1>10, <1>12, <1>13 DEF LedgerInv, ReservationsHaveRows

(* A step that leaves order, warehouse, quantity and status of every        *)
(* reservation and the two counters of every row alone keeps the counters   *)
(* backed; if it only adds rows, and every other row without a balance is   *)
(* untouched, it keeps the whole invariant.                                 *)
LEMMA BooksKept ==
    ASSUME LedgerInv, TypeOK', rows \subseteq rows',
           \A r \in Reservation : /\ res'[r].status = res[r].status
                                  /\ res'[r].warehouse = res[r].warehouse
                                  /\ res'[r].quantity = res[r].quantity,
           \A w \in Warehouse : /\ bal'[w].reserved = bal[w].reserved
                                /\ bal'[w].allocated = bal[w].allocated
                                /\ w \notin rows' => bal'[w] = bal[w]
    PROVE  LedgerInv'
<1>1. Quantity' = Quantity
    BY DEF Quantity
<1>2. \A w : At(InState("active"), w)' = At(InState("active"), w)
    BY DEF At, InState
<1>3. \A w : At(InState("confirmed"), w)' = At(InState("confirmed"), w)
    BY DEF At, InState
<1>4. ReservedIsBacked'
    <2> SUFFICES ASSUME NEW w \in Warehouse
                 PROVE bal'[w].reserved = Total(At(InState("active"), w), Quantity)'
        BY DEF ReservedIsBacked
    <2>1. Total(At(InState("active"), w), Quantity)'
            = Total(At(InState("active"), w), Quantity)
        BY <1>1, <1>2, Zenon
    <2> QED BY <2>1 DEF LedgerInv, ReservedIsBacked
<1>5. AllocatedIsBacked'
    <2> SUFFICES ASSUME NEW w \in Warehouse
                 PROVE bal'[w].allocated = Total(At(InState("confirmed"), w), Quantity)'
        BY DEF AllocatedIsBacked
    <2>1. Total(At(InState("confirmed"), w), Quantity)'
            = Total(At(InState("confirmed"), w), Quantity)
        BY <1>1, <1>3, Zenon
    <2> QED BY <2>1 DEF LedgerInv, AllocatedIsBacked
<1>6. DrawOnRows'
    BY DEF LedgerInv, ReservationsHaveRows, DrawOnRows
<1>7. RowlessIsEmpty'
    BY DEF LedgerInv, ReservationsHaveRows, RowlessIsEmpty
<1> QED BY <1>4, <1>5, <1>6, <1>7 DEF LedgerInv, ReservationsHaveRows

(* Extending a reservation changes nothing but its expiry. *)
LEMMA ExtendInv ==
    ASSUME LedgerInv, NEW r \in Reservation, NEW minutes \in 1 .. MaxExtension + 1,
           Extend(r, minutes)
    PROVE  LedgerInv'
<1> DEFINE gain == Least(minutes, MaxExtension)
           from == res[r].left
<1>1. PICK left \in IF from < 0 THEN -1 .. gain - 1 ELSE {from + gain} :
            res' = [res EXCEPT ![r].left = left]
    BY DEF Extend
<1>2. rows' = rows /\ bal' = bal /\ from + gain <= MaxLeft
    BY DEF Extend
<1>3. res[r] \in ReservationRow /\ from \in -1 .. MaxLeft
    BY DEF LedgerInv, TypeOK, ReservationRow
<1>4. gain \in Nat
    BY BoundsOK DEF Least
<1> HIDE DEF gain
<1>5. left \in -1 .. MaxLeft
    BY <1>1, <1>2, <1>3, <1>4, BoundsOK
<1> HIDE DEF from
<1>6. \A s \in Reservation : res'[s] = IF s = r THEN [res[r] EXCEPT !.left = left] ELSE res[s]
    BY <1>1 DEF LedgerInv, TypeOK
<1>7. res' = [s \in Reservation |-> res'[s]]
    BY <1>1 DEF LedgerInv, TypeOK
<1>8. ASSUME NEW s \in Reservation
      PROVE  /\ res'[s] \in ReservationRow /\ res'[s].status = res[s].status
             /\ res'[s].warehouse = res[s].warehouse
             /\ res'[s].quantity = res[s].quantity
    <2>1. res[s] \in ReservationRow
        BY DEF LedgerInv, TypeOK
    <2>2. CASE s = r
        BY <1>3, <1>5, <1>6, <2>2 DEF ReservationRow
    <2>3. CASE s # r
        BY <1>6, <2>1, <2>3
    <2> QED BY <2>2, <2>3
<1>9. TypeOK'
    BY <1>2, <1>7, <1>8 DEF LedgerInv, TypeOK
<1> QED BY <1>2, <1>8, <1>9, BooksKept

(* The passing of a minute changes nothing but expiries. *)
LEMMA TickInv ==
    ASSUME LedgerInv, Tick
    PROVE  LedgerInv'
<1>1. /\ rows' = rows /\ bal' = bal
      /\ res' = [r \in Reservation |->
                    IF r \in InState("active") /\ res[r].left >= 0
                    THEN [res[r] EXCEPT !.left = @ - 1] ELSE res[r]]
    BY DEF Tick
<1>2. ASSUME NEW s \in Reservation
      PROVE  /\ res'[s] \in ReservationRow /\ res'[s].status = res[s].status
             /\ res'[s].warehouse = res[s].warehouse
             /\ res'[s].quantity = res[s].quantity
    <2>1. res[s] \in ReservationRow
        BY DEF LedgerInv, TypeOK
    <2>2. CASE s \in InState("active") /\ res[s].left >= 0
        <3>1. res[s].left - 1 \in -1 .. MaxLeft
            BY <2>1, <2>2, BoundsOK DEF ReservationRow
        <3>2. res'[s] = [res[s] EXCEPT !.left = res[s].left - 1]
            BY <1>1, <2>2
        <3> QED BY <2>1, <3>1, <3>2 DEF ReservationRow
    <2>3. CASE ~(s \in InState("active") /\ res[s].left >= 0)
        BY <1>1, <2>1, <2>3
    <2> QED BY <2>2, <2>3
<1>3. TypeOK'
    BY <1>1, <1>2 DEF LedgerInv, TypeOK
<1> QED BY <1>1, <1>2, <1>3, BooksKept

(* Stock arriving at, or being counted into, one warehouse leaves the books *)
(* alone.                                                                   *)
LEMMA StockMoves ==
    ASSUME LedgerInv, NEW w \in Warehouse, NEW stock \in Int, NEW broken \in Nat,
           rows' = rows \cup {w}, res' = res,
           bal' = [bal EXCEPT ![w].on_hand = stock, ![w].damaged = broken]
    PROVE  LedgerInv'
<1>1. bal' = [v \in Warehouse |-> bal'[v]]
    BY DEF LedgerInv, TypeOK
<1>2. ASSUME NEW v \in Warehouse
      PROVE  /\ bal'[v] \in Row /\ bal'[v].reserved = bal[v].reserved
             /\ bal'[v].allocated = bal[v].allocated
             /\ v # w => bal'[v] = bal[v]
    <2>1. bal[v] \in Row
        BY DEF LedgerInv, TypeOK
    <2>2. bal'[v] = IF v = w THEN [bal[w] EXCEPT !.on_hand = stock, !.damaged = broken]
                             ELSE bal[v]
        BY DEF LedgerInv, TypeOK
    <2>3. CASE v = w
        <3>1. bal'[v] = [bal[v] EXCEPT !.on_hand = stock, !.damaged = broken]
            BY <2>2, <2>3
        <3> QED BY ZenonT(30), <2>1, <2>3, <3>1 DEF Row
    <2>4. CASE v # w
        BY <2>1, <2>2, <2>4
    <2> QED BY <2>3, <2>4
<1>3. TypeOK'
    BY <1>1, <1>2 DEF LedgerInv, TypeOK
<1>4. \A v \in Warehouse : /\ bal'[v].reserved = bal[v].reserved
                           /\ bal'[v].allocated = bal[v].allocated
                           /\ v \notin rows' => bal'[v] = bal[v]
    BY <1>2
<1>5. \A r \in Reservation : /\ res'[r].status = res[r].status
                             /\ res'[r].warehouse = res[r].warehouse
                             /\ res'[r].quantity = res[r].quantity
    OBVIOUS
<1>6. rows \subseteq rows'
    OBVIOUS
<1> QED BY <1>3, <1>4, <1>5, <1>6, BooksKept

(* A manual adjustment keeps the invariant. *)
LEMMA AdjustInv ==
    ASSUME LedgerInv, NEW w \in Warehouse, NEW delta \in -MaxStock .. MaxStock,
           AdjustInventory(w, delta)
    PROVE  LedgerInv'
<1> DEFINE stock == IF w \in rows THEN bal[w].on_hand + delta ELSE Floor(delta)
<1>1. stock \in Int
    BY BoundsOK DEF AdjustInventory
<1>2. bal[w].damaged \in Nat /\ bal[w] \in Row
    BY DEF LedgerInv, TypeOK, Row
<1>3. rows' = rows \cup {w} /\ res' = res /\ bal' = [bal EXCEPT ![w].on_hand = stock]
    BY DEF AdjustInventory
<1> HIDE DEF stock
<1>4. bal' = [bal EXCEPT ![w].on_hand = stock, ![w].damaged = bal[w].damaged]
    BY <1>2, <1>3 DEF Row
<1> QED BY <1>1, <1>2, <1>3, <1>4, StockMoves

(* Receiving goods keeps the invariant. *)
LEMMA UpdateInv ==
    ASSUME LedgerInv, NEW w \in Warehouse, NEW good \in 0 .. MaxQty,
           NEW broken \in 0 .. MaxBroken, UpdateInventory(w, good, broken)
    PROVE  LedgerInv'
<1>1. bal[w].on_hand + good \in Int /\ bal[w].damaged + broken \in Nat
    BY BoundsOK DEF LedgerInv, TypeOK, Row
<1>2. /\ rows' = rows \cup {w} /\ res' = res
      /\ bal' = [bal EXCEPT ![w].on_hand = bal[w].on_hand + good,
                            ![w].damaged = bal[w].damaged + broken]
    BY DEF UpdateInventory, LedgerInv, TypeOK
<1> DEFINE stock == bal[w].on_hand + good
           harm == bal[w].damaged + broken
<1>3. bal' = [bal EXCEPT ![w].on_hand = stock, ![w].damaged = harm]
    BY <1>2
<1> HIDE DEF stock, harm
<1>4. stock \in Int /\ harm \in Nat
    BY <1>1 DEF stock, harm
<1> QED BY <1>2, <1>3, <1>4, StockMoves

(* The initial stock is unreserved and unallocated. *)
LEMMA InitInv == ASSUME Init PROVE LedgerInv
<1>1. PICK stock \in [rows -> 0 .. MaxStock] :
        bal = [w \in Warehouse |->
                  IF w \in rows THEN [NoRow EXCEPT !.on_hand = stock[w]] ELSE NoRow]
    BY DEF Init
<1>2. rows \in SUBSET Warehouse /\ res = [r \in Reservation |-> NoReservation]
    BY DEF Init
<1>3. \A w \in Warehouse : /\ bal[w] \in Row /\ bal[w].reserved = 0
                           /\ bal[w].allocated = 0
                           /\ w \notin rows => bal[w] = NoRow
    <2> SUFFICES ASSUME NEW w \in Warehouse
                 PROVE  /\ bal[w] \in Row /\ bal[w].reserved = 0
                        /\ bal[w].allocated = 0
                        /\ w \notin rows => bal[w] = NoRow
        OBVIOUS
    <2>1. CASE w \in rows
        <3>1. stock[w] \in Int
            BY <2>1, BoundsOK
        <3> QED BY <1>1, <2>1, <3>1 DEF NoRow, Row
    <2>2. CASE w \notin rows
        BY <1>1, <2>2 DEF NoRow, Row
    <2> QED BY <2>1, <2>2
<1>4. bal = [w \in Warehouse |-> bal[w]]
    BY <1>1
<1>5. TypeOK
    <2>1. 0 \in -1 .. MaxLeft
        BY BoundsOK
    <2>2. NoReservation \in ReservationRow
        BY <2>1 DEF NoReservation, ReservationRow, Status
    <2> QED BY <1>2, <1>3, <1>4, <2>2 DEF TypeOK
<1>6. \A w : At(InState("active"), w) = {} /\ At(InState("confirmed"), w) = {}
    BY <1>2 DEF At, InState, NoReservation
<1>7. ReservedIsBacked /\ AllocatedIsBacked
    BY <1>3, <1>6, TotalEmpty DEF ReservedIsBacked, AllocatedIsBacked
<1>8. DrawOnRows /\ RowlessIsEmpty
    BY <1>2, <1>3 DEF DrawOnRows, RowlessIsEmpty, NoReservation
<1> QED BY <1>5, <1>7, <1>8 DEF LedgerInv, ReservationsHaveRows

(* Every call, and every step that changes nothing, keeps the invariant. *)
LEMMA NextInv == LedgerInv /\ [Next]_vars => LedgerInv'
<1> SUFFICES ASSUME LedgerInv, [Next]_vars PROVE LedgerInv'
    OBVIOUS
<1>1. CASE \E o \in Order, need \in 1 .. MaxQty, pref \in Warehouse \cup {None},
              split \in BOOLEAN : Allocate(o, need, pref, split)
    BY <1>1, AllocateInv
<1>2. CASE \E o \in Order : ReleaseOrder(o) \/ ConfirmOrder(o)
    <2>1. ASSUME NEW o \in Order, ReleaseOrder(o) PROVE LedgerInv'
        <3>1. ActiveOf(o) \in SUBSET InState("active") /\ ReleaseAll(ActiveOf(o))
            BY <2>1 DEF ReleaseOrder, ActiveOf
        <3> QED BY <3>1, ReleaseAllInv
    <2> QED BY <1>2, <2>1, ConfirmOrderInv
<1>3. CASE ExpireReservations
    <2>1. Expired \in SUBSET InState("active") /\ ReleaseAll(Expired)
        BY <1>3 DEF ExpireReservations, Expired
    <2> QED BY <2>1, ReleaseAllInv
<1>4. CASE \E r \in Reservation : Confirm(r)
    BY <1>4, ConfirmInv
<1>5. CASE \E r \in Reservation, minutes \in 1 .. MaxExtension + 1 : Extend(r, minutes)
    BY <1>5, ExtendInv
<1>6. CASE \E w \in Warehouse, delta \in -MaxStock .. MaxStock : AdjustInventory(w, delta)
    BY <1>6, AdjustInv
<1>7. CASE \E w \in Warehouse, good \in 0 .. MaxQty, broken \in 0 .. MaxBroken :
              UpdateInventory(w, good, broken)
    BY <1>7, UpdateInv
<1>8. CASE Tick
    BY <1>8, TickInv
<1>9. CASE UNCHANGED vars
    <2>1. rows' = rows /\ bal' = bal /\ res' = res
        BY <1>9 DEF vars
    <2> QED BY <2>1 DEF LedgerInv, TypeOK, ReservedIsBacked, AllocatedIsBacked,
            ReservationsHaveRows, DrawOnRows, RowlessIsEmpty, At, InState, Quantity
<1> QED BY <1>1, <1>2, <1>3, <1>4, <1>5, <1>6, <1>7, <1>8, <1>9 DEF Next

(* In every state any sequence of calls can reach, both counters of every   *)
(* row are the sums of the reservations behind them, every reservation has  *)
(* a row, and a warehouse without a row promises nothing.                   *)
THEOREM LedgerInvariant == Spec => []LedgerInv
<1>1. Init => LedgerInv
    BY InitInv
<1>2. LedgerInv /\ [Next]_vars => LedgerInv'
    BY NextInv
<1> QED BY <1>1, <1>2, PTL DEF Spec

(* The rows keep their types: the widths of the status and expiry columns. *)
THEOREM TypeCorrect == Spec => []TypeOK
<1>1. LedgerInv => TypeOK
    BY DEF LedgerInv
<1> QED BY <1>1, LedgerInvariant, PTL

(* The reserved counter is the sum over the active reservations, whatever   *)
(* mix of allocations, releases, expiries and confirmations went before.    *)
THEOREM ReservedBacked == Spec => []ReservedIsBacked
<1>1. LedgerInv => ReservedIsBacked
    BY DEF LedgerInv
<1> QED BY <1>1, LedgerInvariant, PTL

(* The allocated counter is the sum over the confirmed reservations. *)
THEOREM AllocatedBacked == Spec => []AllocatedIsBacked
<1>1. LedgerInv => AllocatedIsBacked
    BY DEF LedgerInv
<1> QED BY <1>1, LedgerInvariant, PTL

(* Both counters of every root row repeat the reservation table. *)
THEOREM CountersBacked == Spec => []CountersAreBacked
<1>1. LedgerInv => CountersAreBacked
    BY DEF LedgerInv, CountersAreBacked
<1> QED BY <1>1, LedgerInvariant, PTL

(* Settling confirms or releases what was active, rewrites nothing else,    *)
(* and confirms nothing that had expired.                                   *)
LEMMA SettleSettles ==
    ASSUME TypeOK, NEW C, NEW R, C \cap Expired = {}, C \cap R = {},
           C \cup R \subseteq InState("active"), res' = Settle(C, R),
           NEW r \in Reservation
    PROVE  Settles(r)
<1>1. res'[r] = CASE r \in C -> [res[r] EXCEPT !.status = "confirmed", !.left = 0]
                  [] r \in R -> [res[r] EXCEPT !.status = "released", !.left = 0]
                  [] OTHER   -> res[r]
    BY DEF Settle
<1>2. res[r] \in ReservationRow
    BY DEF TypeOK
<1>3. r \in C \cup R => res[r].status = "active"
    BY DEF InState
<1>4. r \in C => ~(res[r].left < 0)
    BY <1>3 DEF Expired, InState
<1>5. CASE r \in C
    <2>1. res'[r] = [res[r] EXCEPT !.status = "confirmed", !.left = 0]
        BY <1>1, <1>5
    <2> QED BY <1>2, <1>3, <1>4, <1>5, <2>1 DEF ReservationRow, Settles
<1>6. CASE r \in R /\ r \notin C
    <2>1. res'[r] = [res[r] EXCEPT !.status = "released", !.left = 0]
        BY <1>1, <1>6
    <2> QED BY <1>2, <1>3, <1>6, <2>1 DEF ReservationRow, Settles
<1>7. CASE r \notin C \cup R
    <2>1. res'[r] = res[r]
        BY <1>1, <1>7
    <2> QED BY <2>1 DEF Settles
<1> QED BY <1>5, <1>6, <1>7

(* An allocation writes only ids that were free. *)
LEMMA AllocateSettles ==
    ASSUME TypeOK, NEW o \in Order, NEW need \in 1 .. MaxQty,
           NEW pref \in Warehouse \cup {None}, NEW split \in BOOLEAN,
           Allocate(o, need, pref, split), NEW r \in Reservation
    PROVE  Settles(r)
<1> DEFINE plan == Plan(Offered, need, pref, split)
           used == {w \in Warehouse : plan[w] > 0}
<1>1. PICK id \in [used -> InState("none")] :
        res' = [s \in Reservation |->
                IF \E w \in used : id[w] = s
                THEN LET w == CHOOSE w \in used : id[w] = s
                     IN  [status |-> "active", order |-> o, warehouse |-> w,
                          quantity |-> plan[w], left |-> Ttl]
                ELSE res[s]]
    BY DEF Allocate
<1> HIDE DEF plan, used
<1>2. res[r].status # "none" => \A w \in used : id[w] # r
    BY <1>1 DEF InState
<1>3. res[r].status # "none" => res'[r] = res[r]
    BY <1>1, <1>2
<1> HIDE <1>1
<1> QED BY <1>3 DEF Settles

(* Extending moves the expiry of an active reservation only. *)
LEMMA ExtendSettles ==
    ASSUME TypeOK, NEW s \in Reservation, NEW minutes \in 1 .. MaxExtension + 1,
           Extend(s, minutes), NEW r \in Reservation
    PROVE  Settles(r)
<1>1. s \in InState("active") /\ \E left : res' = [res EXCEPT ![s].left = left]
    BY DEF Extend
<1>2. PICK left : res' = [res EXCEPT ![s].left = left]
    BY <1>1
<1>3. res[r] \in ReservationRow
    BY DEF TypeOK
<1>4. CASE r = s
    <2>1. res'[r] = [res[r] EXCEPT !.left = left]
        BY <1>2, <1>4 DEF TypeOK
    <2>2. res[r].status = "active"
        BY <1>1, <1>4 DEF InState
    <2> QED BY <1>3, <2>1, <2>2 DEF Settles, ReservationRow
<1>5. CASE r # s
    <2>1. res'[r] = res[r]
        BY <1>2, <1>5 DEF TypeOK
    <2> QED BY <2>1 DEF Settles
<1> QED BY <1>4, <1>5

(* The clock moves the expiry of active reservations only. *)
LEMMA TickSettles ==
    ASSUME TypeOK, Tick, NEW r \in Reservation
    PROVE  Settles(r)
<1>1. res'[r] = IF r \in InState("active") /\ res[r].left >= 0
                THEN [res[r] EXCEPT !.left = @ - 1] ELSE res[r]
    BY DEF Tick
<1>2. res[r] \in ReservationRow
    BY DEF TypeOK
<1>3. CASE r \in InState("active") /\ res[r].left >= 0
    <2>1. res'[r] = [res[r] EXCEPT !.left = @ - 1] /\ res[r].status = "active"
        BY <1>1, <1>3 DEF InState
    <2> QED BY <1>2, <2>1 DEF Settles, ReservationRow
<1>4. CASE ~(r \in InState("active") /\ res[r].left >= 0)
    BY <1>1, <1>4 DEF Settles
<1> QED BY <1>3, <1>4

(* No call rewrites or reopens a settled reservation, and none confirms an  *)
(* expired one.                                                             *)
THEOREM ReservationsSettleOnce == Spec => SettledOnce
<1>1. LedgerInv /\ [Next]_vars => [\A r \in Reservation : Settles(r)]_vars
    <2> SUFFICES ASSUME LedgerInv, Next, NEW r \in Reservation PROVE Settles(r)
        OBVIOUS
    <2>t. TypeOK
        BY DEF LedgerInv
    <2>1. CASE \E o \in Order, need \in 1 .. MaxQty, pref \in Warehouse \cup {None},
                  split \in BOOLEAN : Allocate(o, need, pref, split)
        BY <2>t, <2>1, AllocateSettles
    <2>2. ASSUME NEW T \in SUBSET InState("active"), ReleaseAll(T) PROVE Settles(r)
        <3>1. {} \cup T \subseteq InState("active") /\ res' = Settle({}, T)
            BY <2>2 DEF ReleaseAll
        <3> QED BY <2>t, <3>1, SettleSettles
    <2>3. CASE \E o \in Order : ReleaseOrder(o)
        BY <2>2, <2>3 DEF ReleaseOrder, ActiveOf
    <2>4. CASE ExpireReservations
        BY <2>2, <2>4 DEF ExpireReservations, Expired
    <2>5. ASSUME NEW o \in Order, ConfirmOrder(o) PROVE Settles(r)
        <3>1. /\ (ActiveOf(o) \ Expired) \cup (ActiveOf(o) \cap Expired)
                    \subseteq InState("active")
              /\ (ActiveOf(o) \ Expired) \cap Expired = {}
              /\ (ActiveOf(o) \ Expired) \cap (ActiveOf(o) \cap Expired) = {}
            BY DEF ActiveOf
        <3>2. res' = Settle(ActiveOf(o) \ Expired, ActiveOf(o) \cap Expired)
            BY <2>5 DEF ConfirmOrder
        <3> QED BY <2>t, <3>1, <3>2, SettleSettles
    <2>6. ASSUME NEW s \in Reservation, Confirm(s) PROVE Settles(r)
        <3>1. {s} \cup {} \subseteq InState("active") /\ {s} \cap Expired = {}
                /\ res' = Settle({s}, {})
            BY <2>6 DEF Confirm
        <3> QED BY <2>t, <3>1, SettleSettles
    <2>7. CASE \E s \in Reservation, minutes \in 1 .. MaxExtension + 1 : Extend(s, minutes)
        BY <2>t, <2>7, ExtendSettles
    <2>8. CASE res' = res
        BY <2>8 DEF Settles
    <2>9. CASE Tick
        BY <2>t, <2>9, TickSettles
    <2> QED BY <2>1, <2>3, <2>4, <2>5, <2>6, <2>7, <2>8, <2>9
            DEF Next, AdjustInventory, UpdateInventory
<1> QED BY <1>1, LedgerInvariant, PTL DEF Spec, SettledOnce

(* An allocation takes no more than is on offer. *)
LEMMA AllocateSells ==
    ASSUME LedgerInv, NEW o \in Order, NEW need \in 1 .. MaxQty,
           NEW pref \in Warehouse \cup {None}, NEW split \in BOOLEAN,
           Allocate(o, need, pref, split), NEW w \in Warehouse
    PROVE  Sells(w)
<1> DEFINE plan == Plan(Offered, need, pref, split)
           taken == plan[w]
<1>1. plan[w] \in Nat /\ plan[w] <= Offered[w]
    BY PlanWithinOffer DEF LedgerInv
<1>2. bal'[w] = [bal[w] EXCEPT !.reserved = @ + plan[w]]
    BY DEF Allocate
<1>3. bal[w] \in Row
    BY DEF LedgerInv, TypeOK
<1>4. Offered[w] = Floor(bal[w].on_hand - bal[w].reserved - bal[w].allocated - bal[w].damaged)
    BY DEF Offered, Available
<1>5. taken \in Nat /\ taken <= Offered[w] /\ bal'[w] = [bal[w] EXCEPT !.reserved = @ + taken]
    BY <1>1, <1>2
<1> HIDE DEF plan, taken
<1>6. /\ bal'[w].reserved = bal[w].reserved + taken
      /\ bal'[w].on_hand = bal[w].on_hand /\ bal'[w].allocated = bal[w].allocated
      /\ bal'[w].damaged = bal[w].damaged
    BY <1>3, <1>5 DEF Row
<1>7. /\ bal[w].on_hand \in Int /\ bal[w].reserved \in Int
      /\ bal[w].allocated \in Int /\ bal[w].damaged \in Int
    BY <1>3 DEF Row
<1>8. taken <= Floor(bal[w].on_hand - bal[w].reserved - bal[w].allocated - bal[w].damaged)
    BY <1>4, <1>5
<1> QED BY <1>5, <1>6, <1>7, <1>8 DEF Sells, Oversold, Floor

(* Settling moves units from reserved to allocated, or frees them. *)
LEMMA SettleSells ==
    ASSUME LedgerInv, NEW C, NEW R, C \cap R = {},
           C \cup R \subseteq InState("active"), res' = Settle(C, R),
           NEW w \in Warehouse, bal'[w] = SettledRow(w, C, R)
    PROVE  Sells(w)
<1> DEFINE c == Total(At(C, w), Quantity)
           r == Total(At(R, w), Quantity)
<1>1. c \in Nat /\ r \in Nat
    BY SettleTotals DEF LedgerInv
<1>2. bal[w] \in Row
    BY DEF LedgerInv, TypeOK
<1>3. bal'[w] = [bal[w] EXCEPT !.reserved = @ - r - c, !.allocated = @ + c]
    BY DEF SettledRow
<1> HIDE DEF c, r
<1>4. /\ bal'[w].reserved = bal[w].reserved - r - c
      /\ bal'[w].allocated = bal[w].allocated + c
      /\ bal'[w].on_hand = bal[w].on_hand /\ bal'[w].damaged = bal[w].damaged
    BY <1>2, <1>3 DEF Row
<1>5. /\ bal[w].on_hand \in Int /\ bal[w].reserved \in Int
      /\ bal[w].allocated \in Int /\ bal[w].damaged \in Int
    BY <1>2 DEF Row
<1> QED BY <1>1, <1>4, <1>5 DEF Sells, Oversold

(* Goods added to a row without one, or to one that has one, cover no less. *)
LEMMA AdjustSells ==
    ASSUME LedgerInv, NEW v \in Warehouse, NEW delta \in -MaxStock .. MaxStock,
           AdjustInventory(v, delta), NEW w \in Warehouse
    PROVE  Sells(w)
<1> DEFINE stock == IF v \in rows THEN bal[v].on_hand + delta ELSE Floor(delta)
<1>1. bal' = [bal EXCEPT ![v].on_hand = stock]
    BY DEF AdjustInventory
<1>2. bal[w] \in Row /\ (v \notin rows => stock >= 0) /\ stock \in Int
    BY BoundsOK DEF LedgerInv, TypeOK, Floor, AdjustInventory
<1>3. w \notin rows => bal[w] = NoRow
    BY DEF LedgerInv, ReservationsHaveRows, RowlessIsEmpty
<1> HIDE DEF stock
<1>4. CASE w = v
    <2>1. bal'[w] = [bal[w] EXCEPT !.on_hand = stock]
        BY <1>1, <1>4 DEF LedgerInv, TypeOK
    <2>2. w \notin rows => bal[w].on_hand = 0 /\ bal[w].damaged = 0
                           /\ bal[w].reserved = 0 /\ bal[w].allocated = 0
        BY <1>3 DEF NoRow
    <2> QED BY <1>2, <1>4, <2>1, <2>2 DEF Sells, Oversold, Row
<1>5. CASE w # v
    <2>1. bal'[w] = bal[w]
        BY <1>1, <1>5 DEF LedgerInv, TypeOK
    <2> QED BY <1>2, <2>1 DEF Sells, Oversold, Row
<1> QED BY <1>4, <1>5

(* A receipt oversells only by what arrives broken. *)
LEMMA UpdateSells ==
    ASSUME LedgerInv, NEW v \in Warehouse, NEW good \in 0 .. MaxQty,
           NEW broken \in 0 .. MaxBroken, UpdateInventory(v, good, broken),
           NEW w \in Warehouse
    PROVE  Sells(w)
<1>1. bal' = [bal EXCEPT ![v].on_hand = bal[v].on_hand + good,
                         ![v].damaged = bal[v].damaged + broken]
    BY DEF UpdateInventory, LedgerInv, TypeOK
<1>2. bal[w] \in Row
    BY DEF LedgerInv, TypeOK
<1>3. good \in Nat /\ broken \in Nat
    BY BoundsOK
<1>4. CASE w = v
    <2>1. bal'[w] = [bal[w] EXCEPT !.on_hand = bal[w].on_hand + good,
                                   !.damaged = bal[w].damaged + broken]
        BY <1>1, <1>4 DEF LedgerInv, TypeOK
    <2>2. bal[w].on_hand + good \in Int /\ bal[w].damaged + broken \in Nat
        BY <1>2, <1>3 DEF Row
    <2>3. /\ bal'[w].on_hand = bal[w].on_hand + good
          /\ bal'[w].damaged = bal[w].damaged + broken
          /\ bal'[w].reserved = bal[w].reserved /\ bal'[w].allocated = bal[w].allocated
        BY <1>2, <2>1 DEF Row
    <2>4. /\ bal[w].on_hand \in Int /\ bal[w].reserved \in Int
          /\ bal[w].allocated \in Int /\ bal[w].damaged \in Int
        BY <1>2 DEF Row
    <2> QED BY <1>3, <2>3, <2>4 DEF Sells, Oversold
<1>5. CASE w # v
    <2>1. bal'[w] = bal[w]
        BY <1>1, <1>5 DEF LedgerInv, TypeOK
    <2> QED BY <1>2, <2>1 DEF Sells, Oversold, Row
<1> QED BY <1>4, <1>5

(* Only manual adjustments and damaged receipts ever promise more than      *)
(* there is, whatever the ranking, the split and the order of the calls.    *)
THEOREM LedgerNeverOversells == Spec => NoOverselling
<1>1. LedgerInv /\ [Next]_vars => [\A w \in Warehouse : Sells(w)]_vars
    <2> SUFFICES ASSUME LedgerInv, Next, NEW w \in Warehouse PROVE Sells(w)
        OBVIOUS
    <2>1. CASE \E o \in Order, need \in 1 .. MaxQty, pref \in Warehouse \cup {None},
                  split \in BOOLEAN : Allocate(o, need, pref, split)
        BY <2>1, AllocateSells
    <2>2. ASSUME NEW T \in SUBSET InState("active"), ReleaseAll(T) PROVE Sells(w)
        <3>1. {} \cup T \subseteq InState("active") /\ {} \cap T = {}
                /\ res' = Settle({}, T)
            BY <2>2 DEF ReleaseAll
        <3>2. bal'[w] = SettledRow(w, {}, T)
            BY <2>2, ReleaseAllInv
        <3> QED BY <3>1, <3>2, SettleSells
    <2>3. CASE \E o \in Order : ReleaseOrder(o)
        BY <2>2, <2>3 DEF ReleaseOrder, ActiveOf
    <2>4. CASE ExpireReservations
        BY <2>2, <2>4 DEF ExpireReservations, Expired
    <2>5. ASSUME NEW o \in Order, ConfirmOrder(o) PROVE Sells(w)
        <3>1. /\ (ActiveOf(o) \ Expired) \cup (ActiveOf(o) \cap Expired)
                    \subseteq InState("active")
              /\ (ActiveOf(o) \ Expired) \cap (ActiveOf(o) \cap Expired) = {}
            BY DEF ActiveOf
        <3>2. res' = Settle(ActiveOf(o) \ Expired, ActiveOf(o) \cap Expired)
            BY <2>5 DEF ConfirmOrder
        <3>3. bal'[w] = SettledRow(w, ActiveOf(o) \ Expired, ActiveOf(o) \cap Expired)
            BY <2>5, ConfirmOrderInv
        <3> QED BY <3>1, <3>2, <3>3, SettleSells
    <2>6. ASSUME NEW s \in Reservation, Confirm(s) PROVE Sells(w)
        <3>1. {s} \cup {} \subseteq InState("active") /\ {s} \cap {} = {}
                /\ res' = Settle({s}, {})
            BY <2>6 DEF Confirm
        <3>2. bal'[w] = SettledRow(w, {s}, {})
            BY <2>6, ConfirmInv
        <3> QED BY <3>1, <3>2, SettleSells
    <2>7. CASE bal' = bal
        <3>1. bal'[w] = bal[w] /\ bal[w] \in Row
            BY <2>7 DEF LedgerInv, TypeOK
        <3> QED BY <3>1 DEF Sells, Oversold, Row
    <2>8. CASE \E v \in Warehouse, delta \in -MaxStock .. MaxStock : AdjustInventory(v, delta)
        BY <2>8, AdjustSells
    <2>9. CASE \E v \in Warehouse, good \in 0 .. MaxQty, broken \in 0 .. MaxBroken :
                  UpdateInventory(v, good, broken)
        BY <2>9, UpdateSells
    <2> QED BY <2>1, <2>3, <2>4, <2>5, <2>6, <2>7, <2>8, <2>9 DEF Next, Extend, Tick
<1> QED BY <1>1, LedgerInvariant, PTL DEF Spec, NoOverselling

(* The promises of the book at a warehouse are its two counters. *)
LEMMA BookCounts ==
    LedgerInv => \A w \in Warehouse : Book!Promised(w) = bal[w].reserved + bal[w].allocated
<1> SUFFICES ASSUME LedgerInv, NEW w \in Warehouse
             PROVE  Book!Promised(w) = bal[w].reserved + bal[w].allocated
    OBVIOUS
<1> DEFINE A == At(InState("active"), w)
           F == At(InState("confirmed"), w)
<1>1. Book!Owed(w) = A \cup F
    BY DEF Book!Owed, At, InState
<1>2. [r \in Reservation |->
          [r_1 \in Reservation |->
             [status |-> res[r_1].status, order |-> res[r_1].order,
              warehouse |-> res[r_1].warehouse, quantity |-> res[r_1].quantity]][r].quantity]
        = Quantity
    BY DEF Quantity
<1>3. Book!Promised(w) = Total(A \cup F, Quantity)
    <2>1. \A S, q : Book!Total(S, q) = Total(S, q)
        BY Zenon DEF Book!Total, Book!Units, Total, Units, Book!Cardinality, Cardinality
    <2> QED BY <1>1, <1>2, <2>1 DEF Book!Promised
<1>4. TypeOK /\ InState("active") \in SUBSET Reservation
             /\ InState("confirmed") \in SUBSET Reservation
    BY DEF LedgerInv, InState
<1>5. /\ IsFiniteSet(A) /\ IsFiniteSet(F)
      /\ \A r \in Reservation : Quantity[r] \in Nat
    BY <1>4, QuantityTotals
<1>6. A \cap F = {} /\ \A r \in A \cup F : Quantity[r] \in Nat
    BY <1>5 DEF At, InState
<1>7. bal[w].reserved = Total(A, Quantity) /\ bal[w].allocated = Total(F, Quantity)
    BY DEF LedgerInv, ReservedIsBacked, AllocatedIsBacked
<1> HIDE DEF A, F
<1>8. Total(A \cup F, Quantity) = Total(A, Quantity) + Total(F, Quantity)
    BY <1>5, <1>6, TotalUnion
<1> QED BY <1>3, <1>7, <1>8

(* The same after a step. *)
LEMMA BookCountsNext ==
    LedgerInv' => (\A w \in Warehouse :
                      Book!Promised(w) = bal[w].reserved + bal[w].allocated)'
BY BookCounts, PTL

(* The ledger starts as an empty book over undamaged stock. *)
LEMMA BookStarts == ASSUME Init PROVE Book!BookInit
<1>1. PICK stock \in [rows -> 0 .. MaxStock] :
        bal = [w \in Warehouse |->
                  IF w \in rows THEN [NoRow EXCEPT !.on_hand = stock[w]] ELSE NoRow]
    BY DEF Init
<1>2. rows \in SUBSET Warehouse /\ res = [r \in Reservation |-> NoReservation]
    BY DEF Init
<1>3. ASSUME NEW w \in Warehouse PROVE bal[w].on_hand - bal[w].damaged \in Nat
    <2>1. CASE w \in rows
        <3>1. stock[w] \in Nat
            BY <2>1, BoundsOK
        <3> QED BY <1>1, <2>1, <3>1 DEF NoRow
    <2>2. CASE w \notin rows
        BY <1>1, <2>2 DEF NoRow
    <2> QED BY <2>1, <2>2
<1>4. [w \in Warehouse |-> bal[w].on_hand - bal[w].damaged] \in [Warehouse -> Nat]
    BY <1>3
<1>5. \A r \in Reservation :
        [status |-> res[r].status, order |-> res[r].order,
         warehouse |-> res[r].warehouse, quantity |-> res[r].quantity] = Book!Blank
    BY <1>2 DEF NoReservation, Book!Blank
<1> QED BY <1>4, <1>5 DEF Book!BookInit

(* The book shows only four columns of a reservation: where they stay, and  *)
(* the usable stock with them, the book does not change.                    *)
LEMMA BookStays ==
    ASSUME \A r \in Reservation : /\ res'[r].status = res[r].status
                                  /\ res'[r].order = res[r].order
                                  /\ res'[r].warehouse = res[r].warehouse
                                  /\ res'[r].quantity = res[r].quantity
    PROVE  [r \in Reservation |->
              [status |-> res'[r].status, order |-> res'[r].order,
               warehouse |-> res'[r].warehouse, quantity |-> res'[r].quantity]]
           = [r \in Reservation |->
              [status |-> res[r].status, order |-> res[r].order,
               warehouse |-> res[r].warehouse, quantity |-> res[r].quantity]]
OBVIOUS

(* Settling reservations settles promises. *)
LEMMA BookSettles ==
    ASSUME TypeOK, NEW C, NEW R, C \cap R = {},
           C \cup R \subseteq InState("active"), res' = Settle(C, R),
           \A w \in Warehouse : /\ bal'[w].on_hand = bal[w].on_hand
                                /\ bal'[w].damaged = bal[w].damaged
    PROVE  Book!SettlePromises
<1> DEFINE b(r) == [status |-> res[r].status, order |-> res[r].order,
                    warehouse |-> res[r].warehouse, quantity |-> res[r].quantity]
<1>1. \A r \in C \cup R : r \in Reservation /\ res[r].status = "active"
    BY DEF InState
<1>2. ASSUME NEW r \in Reservation
      PROVE  \/ b(r)' = b(r)
             \/ /\ res[r].status = "active"
                /\ \E st \in {"confirmed", "released"} :
                      b(r)' = [b(r) EXCEPT !.status = st]
    <2>1. res[r] \in ReservationRow
        BY DEF TypeOK
    <2>2. CASE r \in C
        <3>1. res'[r] = [res[r] EXCEPT !.status = "confirmed", !.left = 0]
            BY <2>2 DEF Settle
        <3>2. b(r)' = [b(r) EXCEPT !.status = "confirmed"]
            BY <2>1, <3>1 DEF ReservationRow
        <3> HIDE DEF b
        <3> QED BY <1>1, <2>2, <3>2
    <2>3. CASE r \in R
        <3>1. res'[r] = [res[r] EXCEPT !.status = "released", !.left = 0]
            BY <2>3 DEF Settle
        <3>2. b(r)' = [b(r) EXCEPT !.status = "released"]
            BY <2>1, <3>1 DEF ReservationRow
        <3> HIDE DEF b
        <3> QED BY <1>1, <2>3, <3>2
    <2>4. CASE r \notin C \cup R
        <3>1. res'[r] = res[r]
            BY <2>4 DEF Settle
        <3> QED BY <3>1
    <2> QED BY <2>2, <2>3, <2>4
<1>3. [w \in Warehouse |-> bal'[w].on_hand - bal'[w].damaged]
        = [w \in Warehouse |-> bal[w].on_hand - bal[w].damaged]
    OBVIOUS
<1> QED BY <1>2, <1>3 DEF Book!SettlePromises

(* An allocation makes new promises, each covered by what its warehouse has *)
(* beyond all it owes.                                                      *)
LEMMA BookPromises ==
    ASSUME LedgerInv, LedgerInv', NEW o \in Order, NEW need \in 1 .. MaxQty,
           NEW pref \in Warehouse \cup {None}, NEW split \in BOOLEAN,
           Allocate(o, need, pref, split)
    PROVE  Book!Promise(o)
<1> DEFINE plan == Plan(Offered, need, pref, split)
           used == {w \in Warehouse : plan[w] > 0}
           b(r) == [status |-> res[r].status, order |-> res[r].order,
                    warehouse |-> res[r].warehouse, quantity |-> res[r].quantity]
           new == {r \in Reservation : res[r].status = "none" /\ res'[r].status # "none"}
<1>1. /\ plan \in [Warehouse -> Nat]
      /\ \A w \in Warehouse : plan[w] <= Offered[w]
    BY PlanWithinOffer DEF LedgerInv
<1>2. PICK id \in [used -> InState("none")] :
        /\ \A v, w \in used : id[v] = id[w] => v = w
        /\ res' = [r \in Reservation |->
                IF \E w \in used : id[w] = r
                THEN LET w == CHOOSE w \in used : id[w] = r
                     IN  [status |-> "active", order |-> o, warehouse |-> w,
                          quantity |-> plan[w], left |-> Ttl]
                ELSE res[r]]
    BY DEF Allocate
<1>3. \A w \in used : w \in Warehouse /\ plan[w] > 0
    OBVIOUS
<1>4. bal' = [w \in Warehouse |-> [bal[w] EXCEPT !.reserved = @ + plan[w]]]
    BY DEF Allocate
<1> HIDE DEF plan, used
<1>5. ASSUME NEW r \in Reservation, \E w \in used : id[w] = r
      PROVE  \E w \in used : /\ res'[r].status = "active" /\ res'[r].order = o
                             /\ res'[r].warehouse = w /\ res'[r].quantity = plan[w]
    <2>1. PICK w \in used : id[w] = r
        BY <1>5
    <2>2. (CHOOSE v \in used : id[v] = r) = w
        BY <1>2, <2>1
    <2>3. res'[r] = [status |-> "active", order |-> o, warehouse |-> w,
                     quantity |-> plan[w], left |-> Ttl]
        BY <1>2, <2>1, <2>2
    <2> QED BY <2>1, <2>3
<1>6. \A r \in Reservation : ~(\E w \in used : id[w] = r) => res'[r] = res[r]
    BY <1>2
<1>7. ASSUME NEW r \in Reservation \ new PROVE b(r)' = b(r)
    <2>1. CASE \E w \in used : id[w] = r
        <3>1. res[r].status = "none"
            BY <1>2, <2>1 DEF InState
        <3>2. res'[r].status = "active"
            BY <1>5, <2>1
        <3> QED BY <3>1, <3>2
    <2>2. CASE ~(\E w \in used : id[w] = r)
        BY <1>6, <2>2
    <2> QED BY <2>1, <2>2
<1>8. ASSUME NEW r \in new
      PROVE  /\ res'[r].status = "active" /\ res'[r].order = o
             /\ res'[r].warehouse \in used /\ res'[r].quantity > 0
    <2>1. \E w \in used : id[w] = r
        BY <1>6
    <2> HIDE DEF new
    <2>2. r \in Reservation
        BY DEF new
    <2> QED BY <1>3, <1>5, <2>1, <2>2
<1>9. ASSUME NEW w \in Warehouse, \E r \in new : res'[r].warehouse = w
      PROVE  Book!Promised(w)' <= bal[w].on_hand - bal[w].damaged
    <2>1. w \in used
        BY <1>8, <1>9
    <2>2. Book!Promised(w)' = bal'[w].reserved + bal'[w].allocated
        BY BookCountsNext
    <2> DEFINE taken == plan[w]
    <2>3. taken \in Nat /\ taken > 0 /\ taken <= Offered[w]
        BY <1>1, <1>3, <2>1
    <2>4. bal[w] \in Row
        BY DEF LedgerInv, TypeOK
    <2>5. bal'[w] = [bal[w] EXCEPT !.reserved = bal[w].reserved + taken]
        BY <1>4
    <2>6. bal'[w].reserved = bal[w].reserved + taken /\ bal'[w].allocated = bal[w].allocated
        BY <2>4, <2>5 DEF Row
    <2>7. Offered[w] = Floor(bal[w].on_hand - bal[w].reserved - bal[w].allocated
                                - bal[w].damaged)
        BY DEF Offered, Available
    <2>8. /\ bal[w].on_hand \in Int /\ bal[w].reserved \in Int
          /\ bal[w].allocated \in Int /\ bal[w].damaged \in Int
        BY <2>4 DEF Row
    <2> HIDE DEF taken
    <2> QED BY <2>2, <2>3, <2>6, <2>7, <2>8 DEF Floor
<1>10. ASSUME NEW w \in Warehouse
       PROVE  bal'[w].on_hand = bal[w].on_hand /\ bal'[w].damaged = bal[w].damaged
    <2>1. bal[w] \in Row /\ bal'[w] = [bal[w] EXCEPT !.reserved = bal[w].reserved + plan[w]]
        BY <1>4 DEF LedgerInv, TypeOK
    <2> QED BY <2>1 DEF Row
<1>11. [w \in Warehouse |-> bal'[w].on_hand - bal'[w].damaged]
        = [w \in Warehouse |-> bal[w].on_hand - bal[w].damaged]
    BY <1>10
<1>12. \A r \in new : res'[r].warehouse \in Warehouse
    BY <1>3, <1>8
<1> QED BY <1>7, <1>8, <1>9, <1>11, <1>12 DEF Book!Promise

(* The ledger implements the book: every call is a promise, a settlement or *)
(* a movement of stock, or changes nothing the book shows.                  *)
THEOREM LedgerImplementsBook == Spec => KeepsTheBook
<1>1. Init => Book!BookInit
    BY BookStarts
<1>2. LedgerInv /\ LedgerInv' /\ [Next]_vars => [Book!BookNext]_Book!bookVars
    <2> SUFFICES ASSUME LedgerInv, LedgerInv', [Next]_vars
                 PROVE  Book!BookNext \/ UNCHANGED Book!bookVars
        OBVIOUS
    <2>t. TypeOK
        BY DEF LedgerInv
    <2>1. CASE \E o \in Order, need \in 1 .. MaxQty, pref \in Warehouse \cup {None},
                  split \in BOOLEAN : Allocate(o, need, pref, split)
        BY <2>1, BookPromises DEF Book!BookNext
    <2>2. ASSUME NEW C, NEW R, C \cap R = {}, C \cup R \subseteq InState("active"),
                 res' = Settle(C, R),
                 \A w \in Warehouse : bal'[w] = SettledRow(w, C, R)
          PROVE  Book!SettlePromises
        <3>1. ASSUME NEW w \in Warehouse
              PROVE  bal'[w].on_hand = bal[w].on_hand /\ bal'[w].damaged = bal[w].damaged
            <4>1. bal[w] \in Row /\ bal'[w] = SettledRow(w, C, R)
                BY <2>2 DEF LedgerInv, TypeOK
            <4> QED BY <4>1 DEF SettledRow, Row
        <3> QED BY <2>t, <2>2, <3>1, BookSettles
    <2>3. ASSUME NEW T \in SUBSET InState("active"), ReleaseAll(T)
          PROVE  Book!SettlePromises
        <3>1. {} \cup T \subseteq InState("active") /\ {} \cap T = {}
                /\ res' = Settle({}, T)
            BY <2>3 DEF ReleaseAll
        <3>2. \A w \in Warehouse : bal'[w] = SettledRow(w, {}, T)
            BY <2>3, ReleaseAllInv
        <3> QED BY <2>2, <3>1, <3>2
    <2>4. CASE \E o \in Order : ReleaseOrder(o)
        BY <2>3, <2>4 DEF ReleaseOrder, ActiveOf, Book!BookNext
    <2>5. CASE ExpireReservations
        BY <2>3, <2>5 DEF ExpireReservations, Expired, Book!BookNext
    <2>6. ASSUME NEW o \in Order, ConfirmOrder(o) PROVE Book!SettlePromises
        <3>1. /\ (ActiveOf(o) \ Expired) \cup (ActiveOf(o) \cap Expired)
                    \subseteq InState("active")
              /\ (ActiveOf(o) \ Expired) \cap (ActiveOf(o) \cap Expired) = {}
            BY DEF ActiveOf
        <3>2. res' = Settle(ActiveOf(o) \ Expired, ActiveOf(o) \cap Expired)
            BY <2>6 DEF ConfirmOrder
        <3>3. \A w \in Warehouse : bal'[w] =
                SettledRow(w, ActiveOf(o) \ Expired, ActiveOf(o) \cap Expired)
            BY <2>6, ConfirmOrderInv
        <3> QED BY <2>2, <3>1, <3>2, <3>3
    <2>7. ASSUME NEW s \in Reservation, Confirm(s) PROVE Book!SettlePromises
        <3>1. {s} \cup {} \subseteq InState("active") /\ {s} \cap {} = {}
                /\ res' = Settle({s}, {})
            BY <2>7 DEF Confirm
        <3>2. \A w \in Warehouse : bal'[w] = SettledRow(w, {s}, {})
            BY <2>7, ConfirmInv
        <3> QED BY <2>2, <3>1, <3>2
    <2>8. ASSUME bal' = bal,
                 \A r \in Reservation : /\ res'[r].status = res[r].status
                                        /\ res'[r].order = res[r].order
                                        /\ res'[r].warehouse = res[r].warehouse
                                        /\ res'[r].quantity = res[r].quantity
          PROVE  UNCHANGED Book!bookVars
        BY <2>8, BookStays DEF Book!bookVars
    <2>9. ASSUME NEW s \in Reservation, NEW minutes \in 1 .. MaxExtension + 1,
                 Extend(s, minutes)
          PROVE  UNCHANGED Book!bookVars
        <3>1. bal' = bal /\ \E left : res' = [res EXCEPT ![s].left = left]
            BY <2>9 DEF Extend
        <3>2. ASSUME NEW r \in Reservation
              PROVE  /\ res'[r].status = res[r].status /\ res'[r].order = res[r].order
                     /\ res'[r].warehouse = res[r].warehouse
                     /\ res'[r].quantity = res[r].quantity
            <4>1. PICK left : res' = [res EXCEPT ![s].left = left]
                BY <3>1
            <4>2. res[r] \in ReservationRow
                BY <2>t DEF TypeOK
            <4>3. CASE r = s
                <5>1. res'[r] = [res[r] EXCEPT !.left = left]
                    BY <2>t, <4>1, <4>3 DEF TypeOK
                <5> QED BY <4>2, <5>1 DEF ReservationRow
            <4>4. CASE r # s
                BY <2>t, <4>1, <4>4 DEF TypeOK
            <4> QED BY <4>3, <4>4
        <3> QED BY <2>8, <3>1, <3>2
    <2>10. CASE Tick
        <3>1. ASSUME NEW r \in Reservation
              PROVE  /\ res'[r].status = res[r].status /\ res'[r].order = res[r].order
                     /\ res'[r].warehouse = res[r].warehouse
                     /\ res'[r].quantity = res[r].quantity
            <4>1. res[r] \in ReservationRow
                BY <2>t DEF TypeOK
            <4>2. res'[r] = IF r \in InState("active") /\ res[r].left >= 0
                            THEN [res[r] EXCEPT !.left = @ - 1] ELSE res[r]
                BY <2>10 DEF Tick
            <4> QED BY <4>1, <4>2 DEF ReservationRow
        <3> QED BY <2>8, <2>10, <3>1 DEF Tick
    <2>11. ASSUME NEW v \in Warehouse, res' = res,
                  \A w \in Warehouse : w # v => bal'[w] = bal[w]
           PROVE  Book!MoveStock
        BY <2>11 DEF Book!MoveStock
    <2>12. CASE \E v \in Warehouse, delta \in -MaxStock .. MaxStock : AdjustInventory(v, delta)
        <3>1. ASSUME NEW v \in Warehouse, NEW delta, AdjustInventory(v, delta)
              PROVE  res' = res /\ \A w \in Warehouse : w # v => bal'[w] = bal[w]
            BY <2>t, <3>1 DEF AdjustInventory, TypeOK
        <3> QED BY <2>11, <2>12, <3>1 DEF Book!BookNext
    <2>13. CASE \E v \in Warehouse, good \in 0 .. MaxQty, broken \in 0 .. MaxBroken :
                   UpdateInventory(v, good, broken)
        <3>1. ASSUME NEW v \in Warehouse, NEW good, NEW broken,
                     UpdateInventory(v, good, broken)
              PROVE  res' = res /\ \A w \in Warehouse : w # v => bal'[w] = bal[w]
            BY <2>t, <3>1 DEF UpdateInventory, TypeOK
        <3> QED BY <2>11, <2>13, <3>1 DEF Book!BookNext
    <2>14. CASE UNCHANGED vars
        <3>1. bal' = bal /\ res' = res
            BY <2>14 DEF vars
        <3> QED BY <2>8, <3>1
    <2> QED BY <2>1, <2>4, <2>5, <2>6, <2>7, <2>9, <2>10, <2>12, <2>13, <2>14
            DEF Next, Book!BookNext
<1> QED BY <1>1, <1>2, LedgerInvariant, PTL DEF Spec, KeepsTheBook, Book!BookSpec
=============================================================================
