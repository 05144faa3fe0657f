------------------------------ MODULE Suppliers ------------------------------
(***************************************************************************)
(* One supplier: its row, changed by concurrent sessions, and the           *)
(* qualification a reviewer works on, which lives in the caller's memory    *)
(* only.  Suspension and reactivation note their reason in the row's JSON   *)
(* column; every report on vendor performance, by request or by the hourly  *)
(* job of the worker, writes its scores there.  The column is read, copied  *)
(* and written as a whole.  Scores that no decision reads are left out.     *)
(***************************************************************************)
EXTENDS Requests, Integers, FiniteSets, Functions

CONSTANTS
    Criterion,      \* what a supplier is judged by
    Weight,         \* Weight[c]: percent of the overall score
    Grade           \* the scores given, in percent

VARIABLES
    supplier,   \* the committed row; of the JSON column, its keys
    review,     \* None, or the SupplierQualification its reviewer holds
    visit,      \* visit[s]: the row as s read it and as s writes it
    earned,     \* history: was the last call on is_preferred to set it, and which
    overtaken   \* history: columns last decided on a row that had changed since

supplierVars == <<supplier, review, visit, earned, overtaken>>

-----------------------------------------------------------------------------
QualifyingScore == 75       \* MIN_QUALIFICATION_SCORE
PreferredScore == 85
Column == {"active", "preferred", "metrics"}

(* The columns a call decides. *)
Decides ==
    [suspend    |-> Column,
     reactivate |-> {"active", "metrics"},
     score      |-> {"metrics"},
     qualify    |-> {"preferred"}]

(* _calculate_overall_score. *)
OverallScore(scores) == SumFunction([c \in Criterion |-> scores[c] * Weight[c]]) \div 100

SuppliersInit ==
    /\ supplier = [active |-> TRUE, preferred |-> FALSE, metrics |-> {}]
    /\ review = None
    /\ visit = [s \in Session |-> None]
    /\ earned = FALSE /\ overtaken = {}

(* A call up to its commit.  Those that decide on the JSON column set it to *)
(* a new object, with the present time in it, and so always write it.       *)
Visit(s, call, new, score) ==
    /\ visit[s] = None
    /\ visit' = [visit EXCEPT ![s] =
          [call |-> call, old |-> supplier, new |-> new, score |-> score, outdated |-> {}]]
    /\ UNCHANGED <<supplier, earned, overtaken>>

-----------------------------------------------------------------------------
(* initiate_qualification. *)
InitiateQualification ==
    /\ review' = [status |-> "pending", scores |-> [c \in Criterion |-> 0]]
    /\ UNCHANGED <<supplier, visit, earned, overtaken>>

(* score_criterion, whatever the status of the qualification. *)
ScoreCriterion(c, grade) ==
    /\ review # None
    /\ review' = [review EXCEPT !.scores[c] = grade]
    /\ UNCHANGED <<supplier, visit, earned, overtaken>>

PreferredFor(score) == score >= PreferredScore

(* complete_qualification.  A rejection does not touch the supplier; a      *)
(* qualification does not ask whether the supplier is suspended.            *)
CompleteQualification(s) ==
    LET score == OverallScore(review.scores)
    IN  /\ review # None
        /\ IF score >= QualifyingScore
           THEN /\ review' = [review EXCEPT !.status = "qualified"]
                /\ Visit(s, "qualify", [supplier EXCEPT !.preferred = PreferredFor(score)], score)
           ELSE /\ review' = [review EXCEPT !.status = "rejected"]
                /\ UNCHANGED <<supplier, visit, earned, overtaken>>

(* Mutant: a suspended supplier stays preferred. *)
SuspendActiveOnly(s) ==
    /\ Visit(s, "suspend",
             [supplier EXCEPT !.active = FALSE,
                              !.metrics = @ \cup {"suspension_reason", "suspended_at"}], 0)
    /\ UNCHANGED review

(* suspend_supplier. *)
SuspendSupplier(s) ==
    /\ Visit(s, "suspend",
             [active |-> FALSE, preferred |-> FALSE,
              metrics |-> supplier.metrics \cup {"suspension_reason", "suspended_at"}], 0)
    /\ UNCHANGED review

(* reactivate_supplier. *)
ReactivateSupplier(s) ==
    /\ Visit(s, "reactivate",
             [supplier EXCEPT !.active = TRUE,
                              !.metrics = (@ \cup {"reactivated_at"}) \ {"suspension_reason"}], 0)
    /\ UNCHANGED review

(* _compute_metrics. *)
Evaluated(metrics) == metrics \cup {"composite_score"}

(* generate_report, of the active suppliers: a report that writes. *)
GenerateReport(s) ==
    /\ supplier.active
    /\ Visit(s, "score", [supplier EXCEPT !.metrics = Evaluated(@)], 0)
    /\ UNCHANGED review

(* Mutant: the JSON column is changed in place, which the session does not   *)
(* notice.                                                                  *)
WrittenInPlace(v) == {c \in Column \ {"metrics"} : v.old[c] # v.new[c]}

(* The columns a session has changed are written as it computed them.       *)
Written(v) ==
    {c \in Column : v.old[c] # v.new[c]} \cup (Decides[v.call] \cap {"metrics"})

CommitVisit(s) ==
    LET v == visit[s]
        stale == v.outdated \cap Decides[v.call]
    IN  /\ v # None
        /\ supplier' = [c \in Column |-> IF c \in Written(v) THEN v.new[c] ELSE supplier[c]]
        /\ visit' = [t \in Session |->
              IF t = s \/ visit[t] = None THEN None
              ELSE [visit[t] EXCEPT !.outdated = @ \cup Written(v)]]
        /\ earned' = IF "preferred" \in Decides[v.call] THEN v.score >= PreferredScore ELSE earned
        /\ overtaken' = (IF v.call = "score" THEN overtaken ELSE overtaken \ Decides[v.call])
                        \cup stale
        /\ UNCHANGED review

RollbackVisit(s) ==
    /\ visit[s] # None
    /\ visit' = [visit EXCEPT ![s] = None]
    /\ UNCHANGED <<supplier, review, earned, overtaken>>

-----------------------------------------------------------------------------
(* The supplier keeps its shape. *)
SuppliersTypeOK ==
    /\ supplier.active \in BOOLEAN /\ supplier.preferred \in BOOLEAN
    /\ supplier.metrics \subseteq {"suspension_reason", "suspended_at", "reactivated_at",
                                   "composite_score"}
    /\ review # None => review.status \in {"pending", "qualified", "rejected"}
    /\ overtaken \subseteq Column

(* A supplier is suspended exactly as long as its row gives the reason: no  *)
(* report on its performance, however late, loses the reason or brings an   *)
(* old one back, unless the row was suspended or reactivated while the      *)
(* report was computed, or a suspension and a reactivation overlapped.      *)
SuspensionIsExplained ==
    overtaken \cap {"active", "metrics"} = {} =>
        (supplier.active <=> "suspension_reason" \notin supplier.metrics)

(* A supplier is preferred, and may be ordered from without anybody's       *)
(* choosing it, exactly if the last qualification since its last suspension *)
(* reached the score for it, rejected ones aside, unless the two overlapped.*)
PreferenceIsEarned ==
    "preferred" \notin overtaken => (supplier.preferred <=> earned)
=============================================================================
