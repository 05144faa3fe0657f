----------------------------- MODULE Procurement -----------------------------
(***************************************************************************)
(* A purchase order and its supplier.  PurchaseOrderManager.submit asks     *)
(* whether the supplier is active, ProcurementService does not; neither     *)
(* locks the row it read.  All calls run in the same sessions.              *)
(***************************************************************************)
EXTENDS PurchaseOrders, Suppliers

VARIABLE asked      \* history: has the submission of s checked the supplier, and
                    \* was it suspended since

procurementVars == <<vars, supplierVars, asked>>

Free(s) == job[s] = None /\ visit[s] = None

ProcurementInit == Init /\ SuppliersInit /\ asked = [s \in Session |-> "no"]

-----------------------------------------------------------------------------
(* Mutant: the manager does not ask, either. *)
SubmitUnasked(s) ==
    /\ Move(s, "submitted")
    /\ asked' = [asked EXCEPT ![s] = "yes"]
    /\ UNCHANGED supplierVars

(* PurchaseOrderManager.submit. *)
Submit(s) ==
    /\ supplier.active
    /\ Move(s, "submitted")
    /\ asked' = [asked EXCEPT ![s] = "yes"]
    /\ UNCHANGED supplierVars

(* ProcurementService.submit_purchase_order and every later move. *)
MoveUnasked(s, status) ==
    /\ Move(s, status)
    /\ UNCHANGED <<supplierVars, asked>>

Deliver(s) ==
    /\ \/ \E qty \in [Line -> 0 .. MaxQty] : RecordReceipt(s, qty)
       \/ \E delivery \in [Sku -> 0 .. MaxQty] : ReceiveAgainstPo(s, delivery)
    /\ UNCHANGED <<supplierVars, asked>>

CommitOrder(s) ==
    /\ Commit(s)
    /\ asked' = [asked EXCEPT ![s] = "no"]
    /\ UNCHANGED supplierVars

(* A call on the supplier. *)
CallSupplier(s) ==
    /\ calls < MaxCalls /\ calls' = calls + 1
    /\ \/ SuspendSupplier(s) \/ ReactivateSupplier(s)
       \/ GenerateReport(s) \/ CompleteQualification(s)
    /\ UNCHANGED <<po, arrived, job, clash, asked>>

FinishVisit(s) ==
    /\ CommitVisit(s) \/ RollbackVisit(s)
    /\ asked' = IF supplier'.active \/ visit[s].call # "suspend" THEN asked
                ELSE [t \in Session |-> IF asked[t] = "yes" THEN "late" ELSE asked[t]]
    /\ UNCHANGED vars

ReviewSupplier ==
    /\ InitiateQualification \/ \E c \in Criterion, grade \in Grade : ScoreCriterion(c, grade)
    /\ UNCHANGED <<vars, asked>>

ProcurementNext ==
    \/ \E s \in Session :
          \/ Free(s) /\ (\/ Submit(s) \/ Deliver(s) \/ CallSupplier(s)
                         \/ \E status \in DOMAIN PoTransitions : MoveUnasked(s, status))
          \/ CommitOrder(s) \/ FinishVisit(s)
    \/ ReviewSupplier

ProcurementSpec == ProcurementInit /\ [][ProcurementNext]_procurementVars

-----------------------------------------------------------------------------
(* Neither submit nor suspend_supplier locks the row it reads.  An order    *)
(* that PurchaseOrderManager submits goes to an active supplier, unless it  *)
(* was suspended after the check: no report, review or reactivation that    *)
(* is late switches a supplier off.                                         *)
OrdersGoToActive ==
    [][\A s \in Session :
          asked[s] = "yes" /\ job[s] # None /\ job'[s] = None => supplier.active]_procurementVars
=============================================================================
