-------------------------- MODULE ProcurementProofs --------------------------
(***************************************************************************)
(* Proofs about Procurement, for any order, any lines, any number of       *)
(* sessions and any criteria a supplier is judged by.                      *)
(***************************************************************************)
EXTENDS Procurement, TotalTheorems

-----------------------------------------------------------------------------
(* The purchase order. *)

OrderRow ==
    [status : DOMAIN PoTransitions, received : [Line -> Nat], closed : [Line -> BOOLEAN]]

(* What StatusKnowsLines says of the order, said of any row. *)
StatusKnows(order) ==
    /\ \A l \in Line : order.closed[l] <=> Full(order, l)
    /\ (\A l \in Line : Full(order, l)) => order.status \in {"received", "closed"}
    /\ order.status = "received" => \A l \in Line : Full(order, l)
    /\ (\E l \in Line : order.received[l] > 0) =>
          order.status \in {"partially_received", "received", "closed"}

(* A call keeps a row that knows its lines in that state. *)
JobOK(j) ==
    /\ j.old \in OrderRow /\ j.new \in OrderRow
    /\ StatusKnows(j.old) => StatusKnows(j.new)

OrderInv ==
    /\ po \in OrderRow
    /\ job = [s \in Session |-> job[s]]
    /\ \A s \in Session : job[s] # None => JobOK(job[s])
    /\ clash = {} => StatusKnows(po)

(* A receipt keeps the shape of a row, and closes the lines it fills. *)
LEMMA ReceiptRow ==
    ASSUME NEW order \in OrderRow, NEW qty \in [Line -> Nat]
    PROVE  /\ WithReceipt(order, qty) \in OrderRow
           /\ WithReceipt(order, qty).status = order.status
           /\ \A l \in Line :
                 /\ WithReceipt(order, qty).received[l] = order.received[l] + qty[l]
                 /\ WithReceipt(order, qty).closed[l]
                       <=> (order.closed[l] \/ (qty[l] > 0 /\ order.received[l] + qty[l] >= Ordered[l]))
<1> DEFINE received == [l \in Line |-> order.received[l] + qty[l]]
           closed == [l \in Line |->
                         order.closed[l] \/ (qty[l] > 0 /\ received[l] >= Ordered[l])]
<1>1. WithReceipt(order, qty) = [order EXCEPT !.received = received, !.closed = closed]
    BY DEF WithReceipt
<1>2. received \in [Line -> Nat] /\ closed \in [Line -> BOOLEAN]
    BY DEF OrderRow
<1>3. \A l \in Line :
          /\ received[l] = order.received[l] + qty[l]
          /\ closed[l] <=> (order.closed[l] \/ (qty[l] > 0 /\ order.received[l] + qty[l] >= Ordered[l]))
    OBVIOUS
<1> HIDE DEF received, closed
<1>4. /\ WithReceipt(order, qty) \in OrderRow
      /\ WithReceipt(order, qty).status = order.status
      /\ WithReceipt(order, qty).received = received
      /\ WithReceipt(order, qty).closed = closed
    BY <1>1, <1>2 DEF OrderRow
<1> QED BY <1>3, <1>4

LEMMA ReceiptClosesFull ==
    ASSUME NEW order \in OrderRow, NEW qty \in [Line -> Nat], StatusKnows(order), NEW l \in Line
    PROVE  WithReceipt(order, qty).closed[l] <=> Full(WithReceipt(order, qty), l)
<1>1. order.received[l] \in Nat /\ qty[l] \in Nat /\ Ordered[l] \in Nat
    BY LinesOK DEF OrderRow
<1>2. order.closed[l] <=> order.received[l] >= Ordered[l]
    BY DEF StatusKnows, Full
<1>3. /\ WithReceipt(order, qty).received[l] = order.received[l] + qty[l]
      /\ WithReceipt(order, qty).closed[l]
            <=> (order.closed[l] \/ (qty[l] > 0 /\ order.received[l] + qty[l] >= Ordered[l]))
    BY ReceiptRow
<1> QED BY <1>1, <1>2, <1>3 DEF Full

(* The status a receipt writes fits the lines it writes. *)
LEMMA ReceiptJob ==
    ASSUME NEW order \in OrderRow, NEW qty \in [Line -> Nat], NEW complete \in BOOLEAN,
           StatusKnows(order) =>
               (complete <=> \A l \in Line : Full(WithReceipt(order, qty), l))
    PROVE  /\ WithStatus(WithReceipt(order, qty), complete) \in OrderRow
           /\ StatusKnows(order) => StatusKnows(WithStatus(WithReceipt(order, qty), complete))
<1> DEFINE new == WithReceipt(order, qty)
           status == IF complete THEN "received"
                     ELSE IF \E l \in Line : new.received[l] > 0 THEN "partially_received"
                     ELSE order.status
           row == WithStatus(new, complete)
<1>1. new \in OrderRow /\ new.status = order.status
    BY ReceiptRow
<1>2. order.status \in DOMAIN PoTransitions /\ status \in DOMAIN PoTransitions
    BY DEF OrderRow, PoTransitions
<1>3. row = [new EXCEPT !.status = status]
    BY <1>1 DEF WithStatus
<1> HIDE DEF new
<1>4. /\ row \in OrderRow /\ row.status = status
      /\ row.received = new.received /\ row.closed = new.closed
    BY <1>1, <1>2, <1>3 DEF OrderRow
<1>5. ASSUME StatusKnows(order) PROVE StatusKnows(row)
    <2>1. \A l \in Line : Full(row, l) <=> Full(new, l)
        BY <1>4 DEF Full
    <2>2. \A l \in Line : row.closed[l] <=> Full(row, l)
        BY <1>4, <1>5, <2>1, ReceiptClosesFull DEF new
    <2>3. complete <=> \A l \in Line : Full(row, l)
        BY <1>5, <2>1 DEF new
    <2>4. \A l \in Line : /\ order.received[l] \in Nat /\ new.received[l] \in Nat
                          /\ Ordered[l] \in Nat \ {0}
                          /\ new.received[l] = order.received[l] + qty[l] /\ qty[l] \in Nat
        BY <1>1, LinesOK, ReceiptRow DEF OrderRow, new
    <2>5. ASSUME ~complete, \A l \in Line : ~(new.received[l] > 0)
          PROVE  order.status # "received"
        <3>1. PICK l \in Line : TRUE
            BY LinesOK
        <3>2. ~Full(order, l)
            BY <2>4, <2>5 DEF Full
        <3> QED BY <1>5, <3>2 DEF StatusKnows
    <2>6. status = "received" => complete
        BY <2>5
    <2>7. (\E l \in Line : row.received[l] > 0) => status \in {"partially_received", "received"}
        BY <1>4
    <2> HIDE DEF row
    <2>8. (\A l \in Line : Full(row, l)) => status = "received"
        BY <2>3
    <2> QED BY <1>4, <2>2, <2>3, <2>6, <2>7, <2>8 DEF StatusKnows
<1> QED BY <1>4, <1>5 DEF new

(* No move turns back an order that has received anything. *)
LEMMA MoveJob ==
    ASSUME NEW order \in OrderRow, NEW status \in PoTransitions[order.status],
           status \in {"submitted", "acknowledged", "closed", "cancelled"},
           status = "cancelled" => order.status \notin {"received", "partially_received"}
    PROVE  /\ [order EXCEPT !.status = status] \in OrderRow
           /\ StatusKnows(order) => StatusKnows([order EXCEPT !.status = status])
<1> DEFINE row == [order EXCEPT !.status = status]
<1>1. status \in DOMAIN PoTransitions
    BY DEF PoTransitions
<1>2. /\ row \in OrderRow /\ row.status = status
      /\ row.received = order.received /\ row.closed = order.closed
    BY <1>1 DEF OrderRow
<1>3. ASSUME StatusKnows(order) PROVE StatusKnows(row)
    <2>1. order.status \in DOMAIN PoTransitions
        BY DEF OrderRow
    <2>2. CASE status = "closed"
        BY <1>2, <1>3, <2>2 DEF StatusKnows, Full
    <2>3. CASE status # "closed"
        <3>1. order.status \in {"draft", "submitted", "acknowledged"}
            BY <2>1, <2>3 DEF PoTransitions
        <3>2. \A l \in Line : ~(order.received[l] > 0)
            BY <1>3, <3>1 DEF StatusKnows
        <3>3. \E l \in Line : ~Full(order, l)
            BY <1>3, <3>1 DEF StatusKnows
        <3> QED BY <1>2, <1>3, <2>3, <3>2, <3>3 DEF StatusKnows, Full
    <2> QED BY <2>2, <2>3
<1> QED BY <1>2, <1>3

(* A call begins on the order as it is. *)
LEMMA BeginInv ==
    ASSUME OrderInv, NEW s \in Session, NEW new, NEW receipt, Begin(s, new, receipt),
           new \in OrderRow, StatusKnows(po) => StatusKnows(new)
    PROVE  OrderInv'
<1> DEFINE j == [old |-> po, new |-> new, receipt |-> receipt]
<1>1. job' = [job EXCEPT ![s] = j] /\ UNCHANGED <<po, arrived, clash>>
    BY DEF Begin
<1>2. JobOK(j)
    BY DEF JobOK, OrderInv
<1> HIDE DEF j
<1>3. /\ job' = [t \in Session |-> job'[t]]
      /\ \A t \in Session : job'[t] = IF t = s THEN j ELSE job[t]
    BY <1>1 DEF OrderInv
<1>4. \A t \in Session : job'[t] # None => JobOK(job'[t])
    BY <1>2, <1>3 DEF OrderInv
<1> QED BY <1>1, <1>3, <1>4 DEF OrderInv, StatusKnows, Full, JobOK

LEMMA CallInv ==
    ASSUME OrderInv, NEW s \in Session,
           \/ \E status \in DOMAIN PoTransitions : Move(s, status)
           \/ \E qty \in [Line -> 0 .. MaxQty] : RecordReceipt(s, qty)
           \/ \E delivery \in [Sku -> 0 .. MaxQty] : ReceiveAgainstPo(s, delivery)
    PROVE  OrderInv'
<1>1. po \in OrderRow
    BY DEF OrderInv
<1>2. ASSUME NEW status \in DOMAIN PoTransitions, Move(s, status) PROVE OrderInv'
    BY <1>1, <1>2, MoveJob, BeginInv DEF Move
<1>3. ASSUME NEW qty \in [Line -> 0 .. MaxQty], RecordReceipt(s, qty) PROVE OrderInv'
    <2> DEFINE new == WithReceipt(po, qty)
               complete == \A l \in Line : new.closed[l]
    <2>1. qty \in [Line -> Nat]
        BY BoundsOK
    <2>2. StatusKnows(po) => (complete <=> \A l \in Line : Full(new, l))
        BY <1>1, <2>1, ReceiptClosesFull
    <2>3. complete \in BOOLEAN
        OBVIOUS
    <2> HIDE DEF complete
    <2>4. /\ WithStatus(new, complete) \in OrderRow
          /\ StatusKnows(po) => StatusKnows(WithStatus(new, complete))
        BY <1>1, <2>1, <2>2, <2>3, ReceiptJob
    <2>5. Begin(s, WithStatus(new, complete),
                [k \in Sku |-> Total(LinesOf(k), qty)])
        BY <1>3 DEF RecordReceipt, complete
    <2> QED BY <2>4, <2>5, BeginInv
<1>4. ASSUME NEW delivery \in [Sku -> 0 .. MaxQty], ReceiveAgainstPo(s, delivery)
      PROVE  OrderInv'
    <2> DEFINE qty == [l \in Line |-> IF l \in FirstLine(SkuOf[l]) THEN delivery[SkuOf[l]] ELSE 0]
               new == WithReceipt(po, qty)
               complete == \A l \in Line : Full(new, l)
    <2>1. qty \in [Line -> Nat]
        BY BoundsOK, LinesOK
    <2>2. Begin(s, WithStatus(new, complete),
                [k \in Sku |-> IF FirstLine(k) = {} THEN 0 ELSE delivery[k]])
        BY <1>4 DEF ReceiveAgainstPo
    <2>3. complete \in BOOLEAN
        OBVIOUS
    <2>4. StatusKnows(po) => (complete <=> \A l \in Line : Full(new, l))
        OBVIOUS
    <2> HIDE DEF qty, complete
    <2>5. /\ WithStatus(new, complete) \in OrderRow
          /\ StatusKnows(po) => StatusKnows(WithStatus(new, complete))
        BY <1>1, <2>1, <2>3, <2>4, ReceiptJob
    <2> QED BY <2>2, <2>5, BeginInv
<1> QED BY <1>2, <1>3, <1>4

(* A commit that notes no clash found the order as it was read, or changes  *)
(* nothing.                                                                 *)
LEMMA CommitInv ==
    ASSUME OrderInv, NEW s \in Session, Commit(s)
    PROVE  OrderInv'
<1> DEFINE old == job[s].old
           new == job[s].new
           Pick(was, is, db) == IF was = is THEN db ELSE is
<1>1. JobOK(job[s])
    BY DEF Commit, OrderInv
<1>2. old \in OrderRow /\ new \in OrderRow /\ po \in OrderRow
    BY <1>1 DEF JobOK, OrderInv
<1>3. po' = [status   |-> Pick(old.status, new.status, po.status),
             received |-> [l \in Line |-> Pick(old.received[l], new.received[l], po.received[l])],
             closed   |-> [l \in Line |-> Pick(old.closed[l], new.closed[l], po.closed[l])]]
    BY DEF Commit
<1>4. po' \in OrderRow
    BY <1>2, <1>3 DEF OrderRow
<1>5. /\ job' = [t \in Session |-> job'[t]]
      /\ \A t \in Session : job'[t] = IF t = s THEN None ELSE job[t]
    BY DEF Commit, OrderInv
<1>6. \A t \in Session : job'[t] # None => JobOK(job'[t])
    BY <1>5 DEF OrderInv
<1>7. ASSUME clash' = {} PROVE StatusKnows(po')
    <2>1. clash = {} /\ (old = new \/ old = po)
        BY <1>7 DEF Commit
    <2>2. StatusKnows(po) /\ (StatusKnows(old) => StatusKnows(new))
        BY <1>1, <2>1 DEF OrderInv, JobOK
    <2>3. CASE old = new
        <3>1. po' = po
            BY <1>2, <1>3, <2>3 DEF OrderRow
        <3> QED BY <2>2, <3>1
    <2>4. CASE old = po
        <3>1. /\ po'.status = new.status
              /\ \A l \in Line : /\ po'.received[l] = new.received[l]
                                 /\ po'.closed[l] = new.closed[l]
            BY <1>3, <2>4
        <3> QED BY <2>2, <2>4, <3>1 DEF StatusKnows, Full
    <2> QED BY <2>1, <2>3, <2>4
<1> QED BY <1>4, <1>5, <1>6, <1>7 DEF OrderInv, StatusKnows, Full, JobOK

-----------------------------------------------------------------------------
(* What arrives and what is counted. *)

(* The receipt of a call is what it adds to the lines. *)
Adds(j) ==
    /\ j.receipt \in [Sku -> Nat]
    /\ \E qty \in [Line -> Nat] :
          /\ \A l \in Line : j.new.received[l] = j.old.received[l] + qty[l]
          /\ \A k \in Sku : j.receipt[k] = Total(LinesOf(k), qty)

ReceiptsInv ==
    /\ arrived \in [Sku -> Nat]
    /\ \A s \in Session : job[s] # None => Adds(job[s])
    /\ ReceiptsAddUp

LEMMA LinesFinite == ASSUME NEW k PROVE IsFiniteSet(LinesOf(k)) /\ LinesOf(k) \subseteq Line
BY LinesOK, FS_Subset DEF LinesOf

(* A delivery goes to the first line of its SKU, and to that one only. *)
LEMMA DeliveryTotal ==
    ASSUME NEW delivery \in [Sku -> Nat], NEW k \in Sku, NEW qty \in [Line -> Nat],
           \A l \in Line :
               qty[l] = IF l \in FirstLine(SkuOf[l]) THEN delivery[SkuOf[l]] ELSE 0
    PROVE  Total(LinesOf(k), qty) = IF FirstLine(k) = {} THEN 0 ELSE delivery[k]
<1>1. \A l \in LinesOf(k) : /\ l \in Line /\ l \in Nat
                            /\ qty[l] = IF l \in FirstLine(k) THEN delivery[k] ELSE 0
    BY LinesOK DEF LinesOf
<1>2. CASE FirstLine(k) = {}
    <2>1. \A l \in LinesOf(k) : qty[l] = 0
        BY <1>1, <1>2
    <2> QED BY <1>2, <2>1, TotalZero
<1>3. CASE FirstLine(k) # {}
    <2>1. PICK f \in LinesOf(k) : f \in FirstLine(k)
        BY <1>3 DEF FirstLine
    <2>2. ASSUME NEW l \in LinesOf(k) \ {f} PROVE l \notin FirstLine(k)
        <3>1. l \in Nat /\ f \in Nat /\ l # f
            BY <1>1, <2>1
        <3>2. f <= l
            BY <2>1 DEF FirstLine
        <3>3. l \in FirstLine(k) => l <= f
            BY <2>1 DEF FirstLine
        <3> QED BY <3>1, <3>2, <3>3
    <2>3. qty[f] = delivery[k] /\ delivery[k] \in Nat /\ \A l \in LinesOf(k) \ {f} : qty[l] = 0
        BY <1>1, <2>1, <2>2
    <2>4. IsFiniteSet(LinesOf(k))
        BY LinesFinite
    <2>5. Total(LinesOf(k), qty) = qty[f]
        BY <2>3, <2>4, TotalOfOne
    <2> QED BY <1>3, <2>3, <2>5
<1> QED BY <1>2, <1>3

LEMMA BeginReceipt ==
    ASSUME ReceiptsInv, job = [s \in Session |-> job[s]], NEW s \in Session,
           NEW new, NEW receipt \in [Sku -> Nat], NEW qty \in [Line -> Nat],
           Begin(s, new, receipt),
           \A l \in Line : new.received[l] = po.received[l] + qty[l],
           \A k \in Sku : receipt[k] = Total(LinesOf(k), qty)
    PROVE  ReceiptsInv'
<1> DEFINE j == [old |-> po, new |-> new, receipt |-> receipt]
<1>1. job' = [job EXCEPT ![s] = j] /\ UNCHANGED <<po, arrived, clash>>
    BY DEF Begin
<1>2. Adds(j)
    BY DEF Adds
<1> HIDE DEF j
<1>3. \A t \in Session : job'[t] = IF t = s THEN j ELSE job[t]
    BY <1>1
<1>4. ASSUME NEW t \in Session, job'[t] # None PROVE Adds(job'[t])
    BY <1>2, <1>3, <1>4 DEF ReceiptsInv
<1>5. ReceiptsAddUp'
    BY <1>1 DEF ReceiptsInv, ReceiptsAddUp, LinesOf
<1>6. \A t \in Session : job'[t] # None => Adds(job[t])'
    BY <1>4 DEF Adds, LinesOf
<1> QED BY <1>1, <1>5, <1>6 DEF ReceiptsInv

LEMMA CallReceipt ==
    ASSUME OrderInv, ReceiptsInv, NEW s \in Session,
           \/ \E status \in DOMAIN PoTransitions : Move(s, status)
           \/ \E qty \in [Line -> 0 .. MaxQty] : RecordReceipt(s, qty)
           \/ \E delivery \in [Sku -> 0 .. MaxQty] : ReceiveAgainstPo(s, delivery)
    PROVE  ReceiptsInv'
<1>1. po \in OrderRow /\ job = [t \in Session |-> job[t]]
    BY DEF OrderInv
<1>2. ASSUME NEW order \in OrderRow, NEW complete
      PROVE  WithStatus(order, complete).received = order.received
    BY DEF WithStatus, OrderRow
<1>3. ASSUME NEW status \in DOMAIN PoTransitions, Move(s, status) PROVE ReceiptsInv'
    <2> DEFINE qty == [l \in Line |-> 0]
               new == [po EXCEPT !.status = status]
    <2>1. \A l \in Line : qty[l] = 0 /\ new.received[l] = po.received[l] + qty[l]
        BY <1>1 DEF OrderRow
    <2>2. qty \in [Line -> Nat] /\ Nothing \in [Sku -> Nat]
        BY DEF Nothing
    <2> HIDE DEF qty
    <2>3. \A k \in Sku : Total(LinesOf(k), qty) = 0
        BY <2>1, LinesFinite, TotalZero
    <2>4. Begin(s, new, Nothing)
        BY <1>3 DEF Move
    <2>5. \A k \in Sku : Nothing[k] = Total(LinesOf(k), qty)
        BY <2>3 DEF Nothing
    <2> HIDE DEF new
    <2> QED BY <1>1, <2>1, <2>2, <2>4, <2>5, BeginReceipt
<1>4. ASSUME NEW qty \in [Line -> Nat], NEW complete, NEW receipt \in [Sku -> Nat],
             Begin(s, WithStatus(WithReceipt(po, qty), complete), receipt),
             \A k \in Sku : receipt[k] = Total(LinesOf(k), qty)
      PROVE  ReceiptsInv'
    <2> DEFINE new == WithStatus(WithReceipt(po, qty), complete)
    <2>1. \A l \in Line : new.received[l] = po.received[l] + qty[l]
        BY <1>1, <1>2, ReceiptRow
    <2> HIDE DEF new
    <2>2. Begin(s, new, receipt)
        BY <1>4 DEF new
    <2> QED BY <1>1, <1>4, <2>1, <2>2, BeginReceipt
<1>5. ASSUME NEW qty \in [Line -> Nat]
      PROVE  [k \in Sku |-> Total(LinesOf(k), qty)] \in [Sku -> Nat]
    <2>1. ASSUME NEW k \in Sku PROVE Total(LinesOf(k), qty) \in Nat
        BY LinesFinite, TotalType
    <2> QED BY <2>1
<1>6. ASSUME NEW qty \in [Line -> 0 .. MaxQty], RecordReceipt(s, qty) PROVE ReceiptsInv'
    <2> DEFINE receipt == [k \in Sku |-> Total(LinesOf(k), qty)]
               complete == \A l \in Line : WithReceipt(po, qty).closed[l]
    <2>1. qty \in [Line -> Nat]
        BY BoundsOK
    <2>2. Begin(s, WithStatus(WithReceipt(po, qty), complete), receipt)
        BY <1>6 DEF RecordReceipt
    <2>3. receipt \in [Sku -> Nat] /\ \A k \in Sku : receipt[k] = Total(LinesOf(k), qty)
        BY <1>5, <2>1
    <2> HIDE DEF receipt, complete
    <2> QED BY <1>4, <2>1, <2>2, <2>3
<1>7. ASSUME NEW delivery \in [Sku -> 0 .. MaxQty], ReceiveAgainstPo(s, delivery)
      PROVE  ReceiptsInv'
    <2> DEFINE qty == [l \in Line |-> IF l \in FirstLine(SkuOf[l]) THEN delivery[SkuOf[l]] ELSE 0]
               complete == \A l \in Line : Full(WithReceipt(po, qty), l)
               receipt == [k \in Sku |-> IF FirstLine(k) = {} THEN 0 ELSE delivery[k]]
    <2>1. qty \in [Line -> Nat] /\ delivery \in [Sku -> Nat]
        BY BoundsOK, LinesOK
    <2>2. Begin(s, WithStatus(WithReceipt(po, qty), complete), receipt)
        BY <1>7 DEF ReceiveAgainstPo
    <2>3. receipt \in [Sku -> Nat]
        BY <2>1
    <2>4. \A k \in Sku : receipt[k] = Total(LinesOf(k), qty)
        BY <2>1, DeliveryTotal
    <2> HIDE DEF receipt, complete, qty
    <2> QED BY <1>4, <2>1, <2>2, <2>3, <2>4
<1> QED BY <1>3, <1>6, <1>7

(* Where no count was overwritten unseen, a commit adds to the lines what    *)
(* its call added to those it had read.                                      *)
LEMMA CommitReceipt ==
    ASSUME OrderInv, ReceiptsInv, NEW s \in Session, Commit(s)
    PROVE  ReceiptsInv'
<1> DEFINE old == job[s].old
           new == job[s].new
           receipt == job[s].receipt
<1>1. JobOK(job[s]) /\ Adds(job[s])
    BY DEF Commit, OrderInv, ReceiptsInv
<1>2. old \in OrderRow /\ new \in OrderRow /\ po \in OrderRow /\ receipt \in [Sku -> Nat]
    BY <1>1 DEF JobOK, Adds, OrderInv
<1>3. PICK qty \in [Line -> Nat] :
          /\ \A l \in Line : new.received[l] = old.received[l] + qty[l]
          /\ \A k \in Sku : receipt[k] = Total(LinesOf(k), qty)
    BY <1>1 DEF Adds
<1>4. /\ arrived' = [k \in Sku |-> arrived[k] + receipt[k]]
      /\ po'.received = [l \in Line |-> IF old.received[l] = new.received[l]
                                         THEN po.received[l] ELSE new.received[l]]
      /\ clash \subseteq clash'
      /\ \A l \in Line : old.received[l] # new.received[l] /\ old.received[l] # po.received[l]
                            => l \in clash'
      /\ job' = [job EXCEPT ![s] = None]
    BY DEF Commit
<1> HIDE DEF old, new, receipt
<1>5. arrived' \in [Sku -> Nat]
    BY <1>2, <1>4 DEF ReceiptsInv
<1>6. \A t \in Session : job'[t] # None => Adds(job[t])'
    <2>1. \A t \in Session : job'[t] = IF t = s THEN None ELSE job[t]
        BY <1>4 DEF OrderInv
    <2> SUFFICES ASSUME NEW t \in Session, job'[t] # None PROVE Adds(job[t])'
        OBVIOUS
    <2>2. job'[t] = job[t] /\ job[t] # None
        BY <2>1
    <2>3. Adds(job[t])
        BY <2>2 DEF ReceiptsInv
    <2> QED BY <2>2, <2>3 DEF Adds, LinesOf
<1>7. ReceiptsAddUp'
    <2> SUFFICES ASSUME clash' \cap Line = {}, NEW k \in Sku
                 PROVE  arrived'[k] = Total(LinesOf(k), po'.received)
        BY DEF ReceiptsAddUp, LinesOf
    <2>1. arrived[k] = Total(LinesOf(k), po.received)
        BY <1>4 DEF ReceiptsInv, ReceiptsAddUp
    <2>2. /\ po.received \in [Line -> Nat] /\ old.received \in [Line -> Nat]
          /\ new.received \in [Line -> Nat]
        BY <1>2 DEF OrderRow
    <2>3. ASSUME NEW l \in Line PROVE po'.received[l] = po.received[l] + qty[l]
        <3>1. /\ po.received[l] \in Nat /\ old.received[l] \in Nat /\ new.received[l] \in Nat
              /\ qty[l] \in Nat
            BY <2>2
        <3>2. po'.received[l] = IF old.received[l] = new.received[l]
                                THEN po.received[l] ELSE new.received[l]
            BY <1>4
        <3>3. l \notin clash'
            OBVIOUS
        <3>4. old.received[l] # new.received[l] => old.received[l] = po.received[l]
            BY <1>4, <3>3
        <3>5. new.received[l] = old.received[l] + qty[l]
            BY <1>3
        <3> HIDE DEF old, new
        <3> QED BY <3>1, <3>2, <3>4, <3>5
    <2>4. Total(LinesOf(k), po'.received) =
              Total(LinesOf(k), po.received) + Total(LinesOf(k), qty)
        BY <2>2, <2>3, LinesFinite, TotalPlus
    <2>5. arrived'[k] = arrived[k] + receipt[k]
        BY <1>4
    <2> QED BY <1>3, <2>1, <2>4, <2>5
<1> QED BY <1>5, <1>6, <1>7 DEF ReceiptsInv

LEMMA ReceiptUnchanged ==
    ASSUME ReceiptsInv, UNCHANGED <<po, arrived, job, clash>>
    PROVE  ReceiptsInv'
BY DEF ReceiptsInv, ReceiptsAddUp, Adds, LinesOf

-----------------------------------------------------------------------------
(* The supplier. *)

MetricKey == {"suspension_reason", "suspended_at", "reactivated_at", "composite_score"}
SupplierRow == [active : BOOLEAN, preferred : BOOLEAN, metrics : SUBSET MetricKey]

Reasoned(row) == "suspension_reason" \in row.metrics

(* What each call makes of the row it has read, as far as it matters here.  *)
Outcome(v) ==
    \/ /\ v.call = "suspend" /\ v.score = 0
       /\ v.new.active = FALSE /\ v.new.preferred = FALSE /\ Reasoned(v.new)
    \/ /\ v.call = "reactivate"
       /\ v.new.active = TRUE /\ v.new.preferred = v.old.preferred /\ ~Reasoned(v.new)
    \/ /\ v.call = "score"
       /\ v.new.active = v.old.active /\ v.new.preferred = v.old.preferred
       /\ Reasoned(v.new) <=> Reasoned(v.old)
    \/ /\ v.call = "qualify"
       /\ v.new.active = v.old.active /\ v.new.metrics = v.old.metrics
       /\ v.new.preferred <=> PreferredFor(v.score)

(* What has not been written since is still as it was read. *)
AsRead(v, row) ==
    /\ "active" \notin v.outdated => v.old.active = row.active
    /\ "preferred" \notin v.outdated => v.old.preferred = row.preferred
    /\ "metrics" \notin v.outdated => v.old.metrics = row.metrics

VisitShape(v) ==
    /\ v = [call |-> v.call, old |-> v.old, new |-> v.new, score |-> v.score,
            outdated |-> v.outdated]
    /\ v.old \in SupplierRow /\ v.new \in SupplierRow /\ v.outdated \in SUBSET Column
    /\ Outcome(v)

SupplierInv ==
    /\ supplier \in SupplierRow /\ earned \in BOOLEAN /\ overtaken \in SUBSET Column
    /\ visit = [s \in Session |-> visit[s]]
    /\ \A s \in Session : visit[s] # None => VisitShape(visit[s]) /\ AsRead(visit[s], supplier)
    /\ SuspensionIsExplained /\ PreferenceIsEarned

(* A call reads the row as it is. *)
LEMMA VisitInv ==
    ASSUME SupplierInv, NEW s \in Session, NEW call, NEW new \in SupplierRow, NEW score,
           Visit(s, call, new, score),
           Outcome([call |-> call, old |-> supplier, new |-> new, score |-> score,
                    outdated |-> {}])
    PROVE  SupplierInv'
<1> DEFINE v == [call |-> call, old |-> supplier, new |-> new, score |-> score, outdated |-> {}]
<1>1. visit' = [visit EXCEPT ![s] = v] /\ UNCHANGED <<supplier, earned, overtaken>>
    BY DEF Visit
<1>2. VisitShape(v) /\ AsRead(v, supplier)
    BY DEF VisitShape, AsRead, SupplierInv
<1> HIDE DEF v
<1>3. /\ visit' = [t \in Session |-> visit'[t]]
      /\ \A t \in Session : visit'[t] = IF t = s THEN v ELSE visit[t]
    BY <1>1 DEF SupplierInv
<1>4. \A t \in Session : visit'[t] # None => VisitShape(visit'[t]) /\ AsRead(visit'[t], supplier)
    BY <1>2, <1>3 DEF SupplierInv
<1>5. \A t \in Session : visit'[t] # None => VisitShape(visit[t])' /\ AsRead(visit[t], supplier)'
    BY <1>1, <1>4 DEF VisitShape, AsRead, Outcome, Reasoned, PreferredFor
<1>6. SuspensionIsExplained' /\ PreferenceIsEarned'
    BY <1>1 DEF SupplierInv, SuspensionIsExplained, PreferenceIsEarned
<1> QED BY <1>1, <1>3, <1>5, <1>6 DEF SupplierInv

LEMMA CallSupplierInv ==
    ASSUME SupplierInv, NEW s \in Session,
           \/ SuspendSupplier(s) \/ ReactivateSupplier(s)
           \/ GenerateReport(s) \/ CompleteQualification(s)
    PROVE  SupplierInv'
<1>1. supplier \in SupplierRow
    BY DEF SupplierInv
<1>2. CASE SuspendSupplier(s)
    <2> DEFINE new == [active |-> FALSE, preferred |-> FALSE,
                       metrics |-> supplier.metrics \cup {"suspension_reason", "suspended_at"}]
    <2>1. new \in SupplierRow /\ Reasoned(new) /\ Visit(s, "suspend", new, 0)
        BY <1>1, <1>2 DEF SuspendSupplier, SupplierRow, MetricKey, Reasoned
    <2>2. Outcome([call |-> "suspend", old |-> supplier, new |-> new, score |-> 0,
                   outdated |-> {}])
        BY <2>1 DEF Outcome
    <2> HIDE DEF new
    <2> QED BY <2>1, <2>2, VisitInv
<1>3. CASE ReactivateSupplier(s)
    <2> DEFINE new == [supplier EXCEPT !.active = TRUE,
                          !.metrics = (@ \cup {"reactivated_at"}) \ {"suspension_reason"}]
    <2>1. /\ new \in SupplierRow /\ ~Reasoned(new) /\ Visit(s, "reactivate", new, 0)
          /\ new.active = TRUE /\ new.preferred = supplier.preferred
        BY <1>1, <1>3 DEF ReactivateSupplier, SupplierRow, MetricKey, Reasoned
    <2> HIDE DEF new
    <2>2. Outcome([call |-> "reactivate", old |-> supplier, new |-> new, score |-> 0,
                   outdated |-> {}])
        BY <2>1 DEF Outcome
    <2> QED BY <2>1, <2>2, VisitInv
<1>4. CASE GenerateReport(s)
    <2> DEFINE new == [supplier EXCEPT !.metrics = Evaluated(@)]
    <2>1. /\ new \in SupplierRow /\ Visit(s, "score", new, 0)
          /\ Reasoned(new) <=> Reasoned(supplier)
          /\ new.active = supplier.active /\ new.preferred = supplier.preferred
        BY <1>1, <1>4 DEF GenerateReport, SupplierRow, MetricKey, Reasoned, Evaluated
    <2> HIDE DEF new
    <2>2. Outcome([call |-> "score", old |-> supplier, new |-> new, score |-> 0,
                   outdated |-> {}])
        BY <2>1 DEF Outcome
    <2> QED BY <2>1, <2>2, VisitInv
<1>5. CASE CompleteQualification(s)
    <2> DEFINE score == OverallScore(review.scores)
               new == [supplier EXCEPT !.preferred = PreferredFor(score)]
    <2>1. CASE UNCHANGED <<supplier, visit, earned, overtaken>>
        BY <2>1 DEF SupplierInv, SuspensionIsExplained, PreferenceIsEarned, VisitShape, AsRead,
                    Outcome, Reasoned, PreferredFor
    <2>2. CASE Visit(s, "qualify", new, score)
        <3>1. PreferredFor(score) \in BOOLEAN
            BY DEF PreferredFor
        <3> HIDE DEF score
        <3>2. /\ new \in SupplierRow /\ new.active = supplier.active
              /\ new.metrics = supplier.metrics /\ (new.preferred <=> PreferredFor(score))
            BY <1>1, <3>1 DEF SupplierRow
        <3> HIDE DEF new
        <3>3. Outcome([call |-> "qualify", old |-> supplier, new |-> new, score |-> score,
                       outdated |-> {}])
            BY <3>2 DEF Outcome
        <3> QED BY <2>2, <3>2, <3>3, VisitInv
    <2> QED BY <1>5, <2>1, <2>2 DEF CompleteQualification
<1> QED BY <1>2, <1>3, <1>4, <1>5

(* What a commit makes of the row, column by column. *)
LEMMA CommitColumns ==
    ASSUME SupplierInv, NEW s \in Session, CommitVisit(s)
    PROVE  LET v == visit[s]
           IN  /\ VisitShape(v) /\ AsRead(v, supplier) /\ supplier' \in SupplierRow
               /\ supplier'.active = IF "active" \in Written(v) THEN v.new.active ELSE supplier.active
               /\ supplier'.preferred =
                     IF "preferred" \in Written(v) THEN v.new.preferred ELSE supplier.preferred
               /\ supplier'.metrics =
                     IF "metrics" \in Written(v) THEN v.new.metrics ELSE supplier.metrics
               /\ "active" \in Written(v) <=> v.old.active # v.new.active
               /\ "preferred" \in Written(v) <=> v.old.preferred # v.new.preferred
               /\ "metrics" \notin Written(v) =>
                     v.old.metrics = v.new.metrics /\ "metrics" \notin Decides[v.call]
<1> DEFINE v == visit[s]
           Now(c) == IF c \in Written(v) THEN v.new[c] ELSE supplier[c]
<1>1. VisitShape(v) /\ AsRead(v, supplier) /\ supplier \in SupplierRow
    BY DEF CommitVisit, SupplierInv
<1>2. supplier' = [c \in Column |-> Now(c)]
    BY DEF CommitVisit
<1>3. supplier' = [active |-> Now("active"), preferred |-> Now("preferred"),
                   metrics |-> Now("metrics")]
    BY <1>2 DEF Column
<1>4. /\ Now("active") = IF "active" \in Written(v) THEN v.new.active ELSE supplier.active
      /\ Now("preferred") = IF "preferred" \in Written(v) THEN v.new.preferred
                            ELSE supplier.preferred
      /\ Now("metrics") = IF "metrics" \in Written(v) THEN v.new.metrics ELSE supplier.metrics
    OBVIOUS
<1>5. supplier' \in SupplierRow
    BY <1>1, <1>3, <1>4 DEF VisitShape, SupplierRow
<1>6. /\ "active" \in Written(v) <=> v.old.active # v.new.active
      /\ "preferred" \in Written(v) <=> v.old.preferred # v.new.preferred
      /\ "metrics" \notin Written(v) =>
            v.old.metrics = v.new.metrics /\ "metrics" \notin Decides[v.call]
    BY DEF Written, Column
<1> HIDE DEF Now
<1> QED BY <1>1, <1>3, <1>4, <1>5, <1>6

LEMMA DecidesBy ==
    /\ Decides["suspend"] = Column /\ Decides["reactivate"] = {"active", "metrics"}
    /\ Decides["score"] = {"metrics"} /\ Decides["qualify"] = {"preferred"}
BY DEF Decides

LEMMA CommitVisitInv ==
    ASSUME SupplierInv, NEW s \in Session, CommitVisit(s)
    PROVE  SupplierInv'
<1> DEFINE v == visit[s]
           decided == Decides[v.call]
           stale == v.outdated \cap decided
<1>1. /\ overtaken' = (IF v.call = "score" THEN overtaken ELSE overtaken \ decided) \cup stale
      /\ earned' = IF "preferred" \in decided THEN v.score >= PreferredScore ELSE earned
      /\ visit' = [t \in Session |->
            IF t = s \/ visit[t] = None THEN None
            ELSE [visit[t] EXCEPT !.outdated = @ \cup Written(v)]]
    BY DEF CommitVisit
<1>2. /\ VisitShape(v) /\ AsRead(v, supplier)
      /\ supplier' \in SupplierRow /\ supplier \in SupplierRow
      /\ supplier'.active = IF "active" \in Written(v) THEN v.new.active ELSE supplier.active
      /\ supplier'.preferred =
            IF "preferred" \in Written(v) THEN v.new.preferred ELSE supplier.preferred
      /\ supplier'.metrics = IF "metrics" \in Written(v) THEN v.new.metrics ELSE supplier.metrics
      /\ "active" \in Written(v) <=> v.old.active # v.new.active
      /\ "preferred" \in Written(v) <=> v.old.preferred # v.new.preferred
      /\ "metrics" \notin Written(v) => v.old.metrics = v.new.metrics /\ "metrics" \notin decided
    BY CommitColumns DEF SupplierInv
<1>3. /\ v.outdated \in SUBSET Column /\ decided \in SUBSET Column /\ Outcome(v)
      /\ v.old \in SupplierRow /\ v.new \in SupplierRow
    BY <1>2, DecidesBy DEF VisitShape, Outcome, Column
<1>4. Written(v) \in SUBSET Column
    BY <1>3 DEF Written
<1>5. ASSUME NEW t \in Session, visit'[t] # None
      PROVE  VisitShape(visit'[t]) /\ AsRead(visit'[t], supplier')
    <2> DEFINE u == visit[t]
    <2>1. /\ visit'[t] = [u EXCEPT !.outdated = @ \cup Written(v)]
          /\ VisitShape(u) /\ AsRead(u, supplier)
        BY <1>1, <1>5 DEF SupplierInv
    <2> HIDE DEF u, v
    <2>2. /\ visit'[t] = [call |-> u.call, old |-> u.old, new |-> u.new, score |-> u.score,
                          outdated |-> u.outdated \cup Written(v)]
        BY <2>1 DEF VisitShape
    <2>3. VisitShape(visit'[t])
        BY <1>4, <2>1, <2>2 DEF VisitShape, Outcome
    <2>4. AsRead(visit'[t], supplier')
        BY <1>2, <2>1, <2>2 DEF AsRead
    <2> QED BY <2>3, <2>4
<1>6. /\ visit' = [t \in Session |-> visit'[t]]
      /\ overtaken' \in SUBSET Column /\ earned' \in BOOLEAN
    <2>1. visit' = [t \in Session |-> visit'[t]]
        BY <1>1
    <2> HIDE DEF v, decided
    <2>2. overtaken' \in SUBSET Column
        BY <1>1, <1>3 DEF SupplierInv
    <2>3. earned' = (v.score >= PreferredScore) \/ earned' = earned
        BY <1>1 DEF v, decided
    <2>4. (v.score >= PreferredScore) \in BOOLEAN
        OBVIOUS
    <2>5. earned \in BOOLEAN
        BY DEF SupplierInv
    <2>6. earned' \in BOOLEAN
        BY <2>3, <2>4, <2>5
    <2> QED BY <2>1, <2>2, <2>6
<1>7. SuspensionIsExplained'
    <2> SUFFICES ASSUME "active" \notin overtaken', "metrics" \notin overtaken'
                 PROVE  supplier'.active <=> ~Reasoned(supplier')
        BY DEF SuspensionIsExplained, Reasoned
    <2>1. v.call = "suspend" => decided = Column
        BY DecidesBy
    <2>2. v.call = "reactivate" => decided = {"active", "metrics"}
        BY DecidesBy
    <2>3. v.call = "score" => decided = {"metrics"}
        BY DecidesBy
    <2>4. v.call = "qualify" => decided = {"preferred"}
        BY DecidesBy
    <2>5. /\ "active" \in decided => "active" \notin v.outdated
          /\ "metrics" \in decided => "metrics" \notin v.outdated
        BY <1>1
    <2> HIDE DEF v, decided
    <2>6. /\ supplier.active \in BOOLEAN /\ supplier'.active \in BOOLEAN
          /\ v.old.active \in BOOLEAN /\ v.new.active \in BOOLEAN
        BY <1>2, <1>3 DEF SupplierRow
    <2>7. CASE v.call \in {"suspend", "reactivate"}
        <3>1. supplier'.active = v.new.active /\ supplier'.metrics = v.new.metrics
            BY <1>2, <2>1, <2>2, <2>5, <2>7 DEF AsRead, Column
        <3> QED BY <1>3, <2>7, <3>1 DEF Outcome, Reasoned
    <2>8. CASE v.call \in {"score", "qualify"}
        <3>1. "active" \notin overtaken /\ "metrics" \notin overtaken
            BY <1>1, <2>3, <2>4, <2>8
        <3>2. supplier.active <=> ~Reasoned(supplier)
            BY <3>1 DEF SupplierInv, SuspensionIsExplained, Reasoned
        <3>3. supplier'.active = supplier.active
            BY <1>2, <1>3, <2>8 DEF Outcome
        <3>4. CASE v.call = "score"
            <4>1. v.old.metrics = supplier.metrics
                BY <1>2, <2>3, <2>5, <3>4 DEF AsRead
            <4>2. Reasoned(v.new) <=> Reasoned(v.old)
                BY <1>3, <3>4 DEF Outcome
            <4>3. Reasoned(supplier') <=> Reasoned(supplier)
                BY <1>2, <4>1, <4>2 DEF Reasoned
            <4> QED BY <3>2, <3>3, <4>3
        <3>5. CASE v.call = "qualify"
            <4>1. "metrics" \notin Written(v)
                BY <1>3, <2>4, <3>5 DEF Outcome, Written, decided
            <4> QED BY <1>2, <3>2, <3>3, <4>1 DEF Reasoned
        <3> QED BY <2>8, <3>4, <3>5
    <2> QED BY <1>3, <2>7, <2>8 DEF Outcome
<1>8. PreferenceIsEarned'
    <2> SUFFICES ASSUME "preferred" \notin overtaken'
                 PROVE  supplier'.preferred <=> earned'
        BY DEF PreferenceIsEarned
    <2>1. /\ v.call = "suspend" => "preferred" \in decided
          /\ v.call = "qualify" => "preferred" \in decided
          /\ v.call = "reactivate" => "preferred" \notin decided
          /\ v.call = "score" => "preferred" \notin decided
        BY DecidesBy DEF Column
    <2>2. "preferred" \in decided => "preferred" \notin v.outdated
        BY <1>1
    <2> HIDE DEF v, decided
    <2>3. /\ supplier.preferred \in BOOLEAN /\ v.old.preferred \in BOOLEAN
          /\ v.new.preferred \in BOOLEAN
        BY <1>2, <1>3 DEF SupplierRow
    <2>4. CASE v.call \in {"suspend", "qualify"}
        <3>1. supplier'.preferred = v.new.preferred
            BY <1>2, <2>1, <2>2, <2>4 DEF AsRead
        <3>2. earned' = (v.score >= PreferredScore)
            BY <1>1, <2>1, <2>4 DEF decided, v
        <3>3. v.new.preferred <=> v.score >= PreferredScore
            BY <1>3, <2>4 DEF Outcome, PreferredFor, PreferredScore
        <3> QED BY <3>1, <3>2, <3>3
    <2>5. CASE v.call \in {"reactivate", "score"}
        <3>1. "preferred" \notin overtaken /\ earned' = earned
            BY <1>1, <2>1, <2>5 DEF decided, v
        <3>2. supplier'.preferred = supplier.preferred
            BY <1>2, <1>3, <2>5 DEF Outcome
        <3> QED BY <3>1, <3>2 DEF SupplierInv, PreferenceIsEarned
    <2> QED BY <1>3, <2>4, <2>5 DEF Outcome
<1>9. \A t \in Session : visit'[t] # None => VisitShape(visit[t])' /\ AsRead(visit[t], supplier)'
    BY <1>5 DEF VisitShape, AsRead, Outcome, Reasoned, PreferredFor
<1> QED BY <1>2, <1>6, <1>7, <1>8, <1>9 DEF SupplierInv

LEMMA RollbackVisitInv ==
    ASSUME SupplierInv, NEW s \in Session, RollbackVisit(s)
    PROVE  SupplierInv'
<1>1. visit' = [visit EXCEPT ![s] = None] /\ UNCHANGED <<supplier, earned, overtaken>>
    BY DEF RollbackVisit
<1>2. /\ visit' = [t \in Session |-> visit'[t]]
      /\ \A t \in Session : visit'[t] = IF t = s THEN None ELSE visit[t]
    BY <1>1 DEF SupplierInv
<1>3. \A t \in Session : visit'[t] # None => VisitShape(visit[t])' /\ AsRead(visit[t], supplier)'
    BY <1>1, <1>2 DEF SupplierInv, VisitShape, AsRead, Outcome, Reasoned, PreferredFor
<1> QED BY <1>1, <1>2, <1>3 DEF SupplierInv, SuspensionIsExplained, PreferenceIsEarned

LEMMA SupplierUnchangedInv ==
    ASSUME SupplierInv, UNCHANGED <<supplier, visit, earned, overtaken>>
    PROVE  SupplierInv'
BY DEF SupplierInv, SuspensionIsExplained, PreferenceIsEarned, VisitShape, AsRead,
       Outcome, Reasoned, PreferredFor

-----------------------------------------------------------------------------
(* Both, and the submissions that have asked for the supplier: as long as    *)
(* nobody suspends it, it is active.                                         *)

AskedIsActive == \A s \in Session : asked[s] = "yes" => supplier.active

ProcurementInv ==
    /\ OrderInv /\ ReceiptsInv /\ SupplierInv
    /\ asked \in [Session -> {"no", "yes", "late"}] /\ AskedIsActive

LEMMA InitInv == ProcurementInit => ProcurementInv
<1> SUFFICES ASSUME ProcurementInit PROVE ProcurementInv
    OBVIOUS
<1>1. po \in OrderRow
    BY DEF ProcurementInit, Init, OrderRow, PoTransitions
<1>2. StatusKnows(po)
    <2>1. \A l \in Line : /\ po.received[l] = 0 /\ po.closed[l] = FALSE
                          /\ Ordered[l] \in Nat \ {0}
        BY LinesOK DEF ProcurementInit, Init
    <2>2. po.status = "draft" /\ Line # {}
        BY LinesOK DEF ProcurementInit, Init
    <2>3. \A l \in Line : ~Full(po, l)
        BY <2>1 DEF Full
    <2> QED BY <2>1, <2>2, <2>3 DEF StatusKnows
<1>3. OrderInv
    BY <1>1, <1>2 DEF ProcurementInit, Init, OrderInv
<1>4. SupplierInv
    BY DEF ProcurementInit, SuppliersInit, SupplierInv, SupplierRow, SuspensionIsExplained,
           PreferenceIsEarned
<1>5. asked \in [Session -> {"no", "yes", "late"}] /\ AskedIsActive
    BY DEF ProcurementInit, AskedIsActive
<1>6. ReceiptsInv
    <2>1. \A l \in Line : po.received[l] = 0
        BY DEF ProcurementInit, Init
    <2>2. \A k \in Sku : Total(LinesOf(k), po.received) = 0
        BY <2>1, LinesFinite, TotalZero
    <2>3. arrived \in [Sku -> Nat] /\ \A k \in Sku : arrived[k] = 0
        BY DEF ProcurementInit, Init, Nothing
    <2>4. \A s \in Session : job[s] = None
        BY DEF ProcurementInit, Init
    <2> QED BY <2>2, <2>3, <2>4 DEF ReceiptsInv, ReceiptsAddUp
<1> QED BY <1>3, <1>4, <1>5, <1>6 DEF ProcurementInv

LEMMA OrderUnchangedInv ==
    ASSUME OrderInv, ReceiptsInv, UNCHANGED <<po, arrived, job, clash>>
    PROVE  OrderInv' /\ ReceiptsInv'
BY ReceiptUnchanged DEF OrderInv, JobOK, StatusKnows, Full

(* Only a suspension makes an active supplier inactive. *)
LEMMA OnlySuspensionStops ==
    ASSUME SupplierInv, NEW s \in Session, CommitVisit(s), supplier.active, ~supplier'.active
    PROVE  visit[s].call = "suspend"
<1>1. /\ VisitShape(visit[s])
      /\ supplier'.active = IF "active" \in Written(visit[s]) THEN visit[s].new.active
                            ELSE supplier.active
      /\ "active" \in Written(visit[s]) <=> visit[s].old.active # visit[s].new.active
    BY CommitColumns
<1> QED BY <1>1 DEF VisitShape, Outcome

LEMMA SubmitInv ==
    ASSUME ProcurementInv, NEW s \in Session, Submit(s)
    PROVE  ProcurementInv'
<1>1. OrderInv' /\ ReceiptsInv' /\ SupplierInv'
    <2>1. \E status \in DOMAIN PoTransitions : Move(s, status)
        BY DEF Submit, PoTransitions
    <2> QED BY <2>1, CallInv, CallReceipt, SupplierUnchangedInv DEF Submit, supplierVars, ProcurementInv
<1>2. asked' = [asked EXCEPT ![s] = "yes"] /\ supplier' = supplier /\ supplier.active
    BY DEF Submit, supplierVars
<1>3. asked' \in [Session -> {"no", "yes", "late"}] /\ AskedIsActive'
    BY <1>2 DEF ProcurementInv, AskedIsActive
<1> QED BY <1>1, <1>3 DEF ProcurementInv

LEMMA OtherOrderInv ==
    ASSUME ProcurementInv, NEW s \in Session,
           (\E status \in DOMAIN PoTransitions : MoveUnasked(s, status)) \/ Deliver(s)
    PROVE  ProcurementInv'
<1>1. OrderInv' /\ ReceiptsInv'
    BY CallInv, CallReceipt DEF MoveUnasked, Deliver, ProcurementInv
<1>2. UNCHANGED <<supplierVars, asked>>
    BY DEF MoveUnasked, Deliver
<1>3. SupplierInv' /\ AskedIsActive' /\ asked' \in [Session -> {"no", "yes", "late"}]
    BY <1>2, SupplierUnchangedInv DEF supplierVars, ProcurementInv, AskedIsActive
<1> QED BY <1>1, <1>3 DEF ProcurementInv

LEMMA CommitOrderInv ==
    ASSUME ProcurementInv, NEW s \in Session, CommitOrder(s)
    PROVE  ProcurementInv'
<1>1. OrderInv' /\ ReceiptsInv' /\ SupplierInv'
    BY CommitInv, CommitReceipt, SupplierUnchangedInv DEF CommitOrder, supplierVars, ProcurementInv
<1>2. asked' = [asked EXCEPT ![s] = "no"] /\ supplier' = supplier
    BY DEF CommitOrder, supplierVars
<1>3. asked' \in [Session -> {"no", "yes", "late"}] /\ AskedIsActive'
    BY <1>2 DEF ProcurementInv, AskedIsActive
<1> QED BY <1>1, <1>3 DEF ProcurementInv

LEMMA SupplierCallInv ==
    ASSUME ProcurementInv, NEW s \in Session, CallSupplier(s)
    PROVE  ProcurementInv'
<1>1. OrderInv' /\ ReceiptsInv' /\ SupplierInv'
    BY CallSupplierInv, OrderUnchangedInv DEF CallSupplier, ProcurementInv
<1>2. UNCHANGED <<supplier, asked>>
    BY DEF CallSupplier, SuspendSupplier, ReactivateSupplier, GenerateReport,
           CompleteQualification, Visit
<1>3. AskedIsActive' /\ asked' \in [Session -> {"no", "yes", "late"}]
    BY <1>2 DEF ProcurementInv, AskedIsActive
<1> QED BY <1>1, <1>3 DEF ProcurementInv

LEMMA FinishVisitInv ==
    ASSUME ProcurementInv, NEW s \in Session, FinishVisit(s)
    PROVE  ProcurementInv'
<1>1. OrderInv' /\ ReceiptsInv' /\ SupplierInv'
    BY CommitVisitInv, RollbackVisitInv, OrderUnchangedInv DEF FinishVisit, vars, ProcurementInv
<1>2. CASE supplier'.active \/ visit[s].call # "suspend"
    <2>1. asked' = asked
        BY <1>2 DEF FinishVisit
    <2>2. supplier.active => supplier'.active
        BY <1>2, OnlySuspensionStops DEF FinishVisit, RollbackVisit, ProcurementInv
    <2>3. AskedIsActive' /\ asked' \in [Session -> {"no", "yes", "late"}]
        BY <2>1, <2>2 DEF ProcurementInv, AskedIsActive
    <2> QED BY <1>1, <2>3 DEF ProcurementInv
<1>3. CASE ~(supplier'.active \/ visit[s].call # "suspend")
    <2>1. asked' = [t \in Session |-> IF asked[t] = "yes" THEN "late" ELSE asked[t]]
        BY <1>3 DEF FinishVisit
    <2>2. AskedIsActive' /\ asked' \in [Session -> {"no", "yes", "late"}]
        BY <2>1 DEF ProcurementInv, AskedIsActive
    <2> QED BY <1>1, <2>2 DEF ProcurementInv
<1> QED BY <1>2, <1>3

LEMMA ReviewSupplierInv ==
    ASSUME ProcurementInv, ReviewSupplier
    PROVE  ProcurementInv'
<1>1. UNCHANGED <<vars, supplier, visit, earned, overtaken, asked>>
    BY DEF ReviewSupplier, InitiateQualification, ScoreCriterion
<1> QED BY <1>1, SupplierUnchangedInv, OrderUnchangedInv
        DEF vars, ProcurementInv, AskedIsActive

(* The inductive invariant: every row under way is one that its call makes   *)
(* of the row it has read, and knows what has been written since.            *)
THEOREM ProcurementInvariant == ProcurementSpec => []ProcurementInv
<1>1. ProcurementInv /\ [ProcurementNext]_procurementVars => ProcurementInv'
    <2> SUFFICES ASSUME ProcurementInv, [ProcurementNext]_procurementVars
                 PROVE  ProcurementInv'
        OBVIOUS
    <2>1. CASE UNCHANGED procurementVars
        BY <2>1, SupplierUnchangedInv, OrderUnchangedInv
           DEF procurementVars, vars, supplierVars, ProcurementInv, AskedIsActive
    <2>2. ASSUME NEW s \in Session,
                 \/ Submit(s) \/ Deliver(s) \/ CallSupplier(s)
                 \/ \E status \in DOMAIN PoTransitions : MoveUnasked(s, status)
                 \/ CommitOrder(s) \/ FinishVisit(s)
          PROVE  ProcurementInv'
        BY <2>2, SubmitInv, OtherOrderInv, SupplierCallInv, CommitOrderInv, FinishVisitInv
    <2>3. CASE ReviewSupplier
        BY <2>3, ReviewSupplierInv
    <2> QED BY <2>1, <2>2, <2>3 DEF ProcurementNext
<1> QED BY InitInv, <1>1, PTL DEF ProcurementSpec

(* The status of an order and its lines agree as long as no two calls have   *)
(* clashed, whichever component moved it or took the goods.                  *)
THEOREM StatusFollowsLines == ProcurementSpec => []StatusKnowsLines
<1>1. ProcurementInv => StatusKnowsLines
    BY DEF ProcurementInv, OrderInv, StatusKnows, StatusKnowsLines
<1> QED BY ProcurementInvariant, <1>1, PTL

(* Every unit put away is counted on a line of the order and no line counts  *)
(* one that did not arrive, as long as no receipt overwrote another unseen:  *)
(* over-deliveries, unordered SKUs and both components that receive included.*)
THEOREM ReceiptsAreCounted == ProcurementSpec => []ReceiptsAddUp
<1>1. ProcurementInv => ReceiptsAddUp
    BY DEF ProcurementInv, ReceiptsInv
<1> QED BY ProcurementInvariant, <1>1, PTL

(* A supplier is suspended as long as its row gives the reason, unless a     *)
(* suspension or reactivation overlapped what it decided on.                 *)
THEOREM SuspensionExplained == ProcurementSpec => []SuspensionIsExplained
<1>1. ProcurementInv => SuspensionIsExplained
    BY DEF ProcurementInv, SupplierInv
<1> QED BY ProcurementInvariant, <1>1, PTL

(* A supplier is preferred if and only if the last call to decide on that    *)
(* was a qualification with the score for it, unless two of them overlapped. *)
THEOREM PreferenceEarned == ProcurementSpec => []PreferenceIsEarned
<1>1. ProcurementInv => PreferenceIsEarned
    BY DEF ProcurementInv, SupplierInv
<1> QED BY ProcurementInvariant, <1>1, PTL

(* A submission that asked goes to an active supplier, unless the supplier   *)
(* was suspended in between.                                                 *)
THEOREM SubmittedToActive == ProcurementSpec => OrdersGoToActive
<1>1. ProcurementInv => \A s \in Session :
          asked[s] = "yes" /\ job[s] # None /\ job'[s] = None => supplier.active
    BY DEF ProcurementInv, AskedIsActive
<1> QED BY ProcurementInvariant, <1>1, PTL DEF OrdersGoToActive
=============================================================================
