-------------------------------- MODULE Totals --------------------------------
(***************************************************************************)
(* Sums of quantities without recursion.  A quantity q[x] stands for the   *)
(* units <<x, 1>> .. <<x, q[x]>>; the total over a set is the number of    *)
(* such units.  A quantity that may be negative is totalled as the          *)
(* difference of two of them.  TotalTheorems proves what is used of both.   *)
(***************************************************************************)
EXTENDS Integers, FiniteSets

Units(S, q) == UNION {{x} \X (1 .. q[x]) : x \in S}

Total(S, q) == Cardinality(Units(S, q))

(* max(0, n) and min(m, n) of the source. *)
Floor(n) == IF n < 0 THEN 0 ELSE n
Least(m, n) == IF m <= n THEN m ELSE n

Above(S, q) == [x \in S |-> Floor(q[x])]
Below(S, q) == [x \in S |-> Floor(-q[x])]
NetTotal(S, q) == Total(S, Above(S, q)) - Total(S, Below(S, q))
=============================================================================
