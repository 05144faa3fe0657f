---------------------------- MODULE PurchaseOrders ----------------------------
(***************************************************************************)
(* One purchase order, changed by concurrent sessions.  A call reads the   *)
(* order with its lines, decides on what it read, and writes the columns   *)
(* it changed when it commits; the goods themselves are noted in putaway   *)
(* tasks, which are only ever inserted.  Two components change the order:  *)
(* PurchaseOrderManager, which guards its transitions, and                 *)
(* ReceivingService, behind POST /purchase-orders/{id}/receive, which does *)
(* not look at the status.                                                 *)
(***************************************************************************)
EXTENDS Requests, Totals

CONSTANTS
    Line,           \* the lines of the order, 1 .. n
    Sku,            \* stock keeping units that may be delivered
    SkuOf,          \* SkuOf[l]: what line l orders
    Ordered,        \* Ordered[l]: how much of it
    MaxQty,         \* bound: units of one SKU in one delivery
    MaxCalls        \* bound: calls begun in one behaviour

ASSUME LinesOK == /\ SkuOf \in [Line -> Sku] /\ Ordered \in [Line -> Nat \ {0}]
                  /\ Line \subseteq Nat \ {0} /\ IsFiniteSet(Line) /\ Line # {}
ASSUME BoundsOK == MaxQty \in Nat

VARIABLES
    po,         \* the committed order: status, and per line received and closed
    arrived,    \* arrived[k]: units of SKU k in committed receipts
    job,        \* job[s]: the order as s read it, as s writes it, and its receipt
    calls,      \* calls begun so far
    clash       \* history: lines whose received was overwritten unseen, and the
                \* status if it was decided on an order that had changed since

vars == <<po, arrived, job, calls, clash>>

-----------------------------------------------------------------------------
(* PO_TRANSITIONS. *)
PoTransitions ==
    [st \in {"draft", "submitted", "acknowledged", "partially_received", "received",
             "closed", "cancelled"} |->
        CASE st = "draft"              -> {"submitted", "cancelled"}
          [] st = "submitted"          -> {"acknowledged", "cancelled"}
          [] st = "acknowledged"       -> {"partially_received", "received", "cancelled"}
          [] st = "partially_received" -> {"received", "closed"}
          [] st = "received"           -> {"closed"}
          [] OTHER                     -> {}]

StatusColumn == 0       \* beside the lines, in clash
Nothing == [k \in Sku |-> 0]
Full(order, l) == order.received[l] >= Ordered[l]
LinesOf(k) == {l \in Line : SkuOf[l] = k}

Init ==
    /\ po = [status |-> "draft", received |-> [l \in Line |-> 0], closed |-> [l \in Line |-> FALSE]]
    /\ arrived = Nothing
    /\ job = [s \in Session |-> None]
    /\ calls = 0 /\ clash = {}

(* A call that does not raise, up to its commit. *)
Begin(s, new, receipt) ==
    /\ job[s] = None /\ calls < MaxCalls
    /\ job' = [job EXCEPT ![s] = [old |-> po, new |-> new, receipt |-> receipt]]
    /\ calls' = calls + 1
    /\ UNCHANGED <<po, arrived, clash>>

(* PurchaseOrderManager.submit, acknowledge, close and cancel, and          *)
(* ProcurementService.submit_purchase_order, check the transition they make.*)
Move(s, status) ==
    /\ status \in PoTransitions[po.status]
    /\ status \in {"submitted", "acknowledged", "closed", "cancelled"}
    /\ status = "cancelled" => po.status \notin {"received", "partially_received"}
    /\ Begin(s, [po EXCEPT !.status = status], Nothing)

(* Mutants: a line never counts more than was ordered, or it closes a unit   *)
(* late.                                                                    *)
WithReceiptCapped(order, qty) ==
    LET received == [l \in Line |-> IF order.received[l] + qty[l] > Ordered[l]
                                    THEN Ordered[l] ELSE order.received[l] + qty[l]]
    IN  [order EXCEPT !.received = received,
            !.closed = [l \in Line |-> @[l] \/ (qty[l] > 0 /\ received[l] >= Ordered[l])]]
WithReceiptClosingLate(order, qty) ==
    LET received == [l \in Line |-> order.received[l] + qty[l]]
    IN  [order EXCEPT !.received = received,
            !.closed = [l \in Line |-> @[l] \/ (qty[l] > 0 /\ received[l] > Ordered[l])]]

(* The lines after qty[l] more units of each line. *)
WithReceipt(order, qty) ==
    LET received == [l \in Line |-> order.received[l] + qty[l]]
    IN  [order EXCEPT !.received = received,
            !.closed = [l \in Line |-> @[l] \/ (qty[l] > 0 /\ received[l] >= Ordered[l])]]

WithStatus(order, complete) ==
    [order EXCEPT !.status =
        IF complete THEN "received"
        ELSE IF \E l \in Line : order.received[l] > 0 THEN "partially_received" ELSE @]

(* PurchaseOrderManager.record_receipt: no status but these, no more than   *)
(* was ordered.                                                             *)
RecordReceipt(s, qty) ==
    LET new == WithReceipt(po, qty)
    IN  /\ po.status \in {"acknowledged", "partially_received"}
        /\ \A l \in Line : new.received[l] <= Ordered[l]
        /\ Begin(s, WithStatus(new, \A l \in Line : new.closed[l]),
                 [k \in Sku |-> Total(LinesOf(k), qty)])

(* ReceivingService.receive_against_po: a delivered SKU counts for the      *)
(* first line that orders it, one that is not ordered is only reported.     *)
FirstLine(k) == {l \in LinesOf(k) : \A m \in LinesOf(k) : l <= m}
ReceiveAgainstPo(s, delivery) ==
    LET qty == [l \in Line |-> IF l \in FirstLine(SkuOf[l]) THEN delivery[SkuOf[l]] ELSE 0]
        new == WithReceipt(po, qty)
    IN  Begin(s, WithStatus(new, \A l \in Line : Full(new, l)),
              [k \in Sku |-> IF FirstLine(k) = {} THEN 0 ELSE delivery[k]])

(* The columns a session has changed are written as it computed them.       *)
Commit(s) ==
    LET old == job[s].old
        new == job[s].new
        Pick(was, is, db) == IF was = is THEN db ELSE is
    IN  /\ job[s] # None
        /\ po' = [status   |-> Pick(old.status, new.status, po.status),
                  received |-> [l \in Line |->
                      Pick(old.received[l], new.received[l], po.received[l])],
                  closed   |-> [l \in Line |->
                      Pick(old.closed[l], new.closed[l], po.closed[l])]]
        /\ arrived' = [k \in Sku |-> arrived[k] + job[s].receipt[k]]
        /\ clash' = clash
              \cup (IF old # new /\ old # po THEN {StatusColumn} ELSE {})
              \cup {l \in Line : old.received[l] # new.received[l]
                                 /\ old.received[l] # po.received[l]}
        /\ job' = [job EXCEPT ![s] = None]
        /\ UNCHANGED calls

Next ==
    \E s \in Session :
        \/ \E status \in DOMAIN PoTransitions : Move(s, status)
        \/ \E qty \in [Line -> 0 .. MaxQty] : RecordReceipt(s, qty)
        \/ \E delivery \in [Sku -> 0 .. MaxQty] : ReceiveAgainstPo(s, delivery)
        \/ Commit(s)

Spec == Init /\ [][Next]_vars

-----------------------------------------------------------------------------
(* The order keeps its shape. *)
TypeOK ==
    /\ po.status \in DOMAIN PoTransitions
    /\ po.received \in [Line -> Nat] /\ po.closed \in [Line -> BOOLEAN]
    /\ arrived \in [Sku -> Nat]

(* Every unit put away was counted on a line of the order, and no line      *)
(* counts a unit that did not arrive, unless two receipts overlapped.       *)
ReceiptsAddUp ==
    clash \cap Line = {} =>
        \A k \in Sku : arrived[k] = Total(LinesOf(k), po.received)

(* A line is closed exactly when it is full, and the status knows: an order *)
(* that has got everything is received or closed, and one that claims it    *)
(* has got everything has, and none that has got anything can be submitted, *)
(* acknowledged or cancelled any more, whichever component took the goods.  *)
StatusKnowsLines ==
    clash = {} =>
        /\ \A l \in Line : po.closed[l] <=> Full(po, l)
        /\ (\A l \in Line : Full(po, l)) => po.status \in {"received", "closed"}
        /\ po.status = "received" => \A l \in Line : Full(po, l)
        /\ (\E l \in Line : po.received[l] > 0) =>
              po.status \in {"partially_received", "received", "closed"}
=============================================================================
