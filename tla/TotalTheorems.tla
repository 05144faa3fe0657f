----------------------------- MODULE TotalTheorems -----------------------------
(***************************************************************************)
(* What Total and NetTotal compute: nothing for the empty set, q[x] for a  *)
(* singleton, and the sum of the parts for a disjoint union and for a sum   *)
(* of quantities; what a walk along a chain takes in total; and what holds   *)
(* after every turn of a loop.                                              *)
(***************************************************************************)
EXTENDS Totals, FiniteSetTheorems, TLAPS

(* Some natural numbers have a least one. *)
LEMMA LeastNatural ==
    ASSUME NEW T, T \subseteq Nat, T # {}
    PROVE  \E n \in T : \A m \in T : n <= m
<1> DEFINE Smaller == {p \in Nat \X Nat : p[1] < p[2]}
<1>1. Smaller = OpToRel(<, Nat)
    BY DEF OpToRel
<1>2. IsWellFoundedOn(Smaller, Nat)
    BY <1>1, NatLessThanWellFounded
<1>3. \A m, n \in Nat : m < n => <<m, n>> \in Smaller
    OBVIOUS
<1> HIDE DEF Smaller
<1>4. PICK n \in T : \A m \in T : <<m, n>> \notin Smaller
    BY <1>2, WFMin
<1>5. \A m \in T : ~(m < n)
    BY <1>3, <1>4
<1>6. \A m \in T : n <= m
    BY <1>5
<1> QED BY <1>6

(* The units of a finite set of natural quantities are finitely many. *)
LEMMA UnitsFinite ==
    ASSUME NEW S, IsFiniteSet(S), NEW q, \A x \in S : q[x] \in Nat
    PROVE  IsFiniteSet(Units(S, q))
<1> DEFINE Part == [x \in S |-> {x} \X (1 .. q[x])]
           Parts == {{x} \X (1 .. q[x]) : x \in S}
<1>1. Part \in Surjection(S, Parts)
    BY DEF Surjection
<1>2. IsFiniteSet(Parts)
    BY <1>1, FS_Surjection
<1>3. ASSUME NEW x \in S PROVE IsFiniteSet({x} \X (1 .. q[x]))
    <2>1. IsFiniteSet({x})
        BY FS_Singleton
    <2>2. q[x] \in Int
        OBVIOUS
    <2>3. IsFiniteSet(1 .. q[x])
        BY <2>2, FS_Interval
    <2> QED BY <2>1, <2>3, FS_Product
<1>4. \A P \in Parts : IsFiniteSet(P)
    BY <1>3
<1> QED BY <1>2, <1>4, FS_UNION DEF Units

(* A total of natural quantities over a finite set is a natural number. *)
LEMMA TotalType ==
    ASSUME NEW S, IsFiniteSet(S), NEW q, \A x \in S : q[x] \in Nat
    PROVE  Total(S, q) \in Nat
BY UnitsFinite, FS_CardinalityType DEF Total

(* The total over no entries is zero. *)
LEMMA TotalEmpty == ASSUME NEW q PROVE Total({}, q) = 0
<1>1. Units({}, q) = {}
    BY DEF Units
<1> QED BY <1>1, FS_EmptySet DEF Total

(* The total over one entry is its quantity. *)
LEMMA TotalSingleton ==
    ASSUME NEW x, NEW q, q[x] \in Nat
    PROVE  Total({x}, q) = q[x]
<1>1. Units({x}, q) = {x} \X (1 .. q[x])
    BY DEF Units
<1>2. IsFiniteSet({x}) /\ Cardinality({x}) = 1
    BY FS_Singleton
<1>3. IsFiniteSet(1 .. q[x]) /\ Cardinality(1 .. q[x]) = q[x]
    <2>1. q[x] \in Int /\ 1 \in Int
        OBVIOUS
    <2>2. IsFiniteSet(1 .. q[x])
            /\ Cardinality(1 .. q[x]) = IF 1 > q[x] THEN 0 ELSE q[x] - 1 + 1
        BY <2>1, FS_Interval
    <2> QED BY <2>2
<1>4. Cardinality({x} \X (1 .. q[x])) = Cardinality({x}) * Cardinality(1 .. q[x])
    BY <1>2, <1>3, FS_Product
<1>5. Total({x}, q) = 1 * q[x]
    BY <1>1, <1>2, <1>3, <1>4 DEF Total
<1> QED BY <1>5

(* Totals over disjoint sets add up. *)
LEMMA TotalUnion ==
    ASSUME NEW S, IsFiniteSet(S), NEW T, IsFiniteSet(T), S \cap T = {},
           NEW q, \A x \in S \cup T : q[x] \in Nat
    PROVE  Total(S \cup T, q) = Total(S, q) + Total(T, q)
<1>1. Units(S \cup T, q) = Units(S, q) \cup Units(T, q)
    BY DEF Units
<1>2. Units(S, q) \cap Units(T, q) = {}
    BY DEF Units
<1>3. IsFiniteSet(Units(S, q)) /\ IsFiniteSet(Units(T, q))
    BY UnitsFinite
<1>4. Cardinality(Units(S, q) \cup Units(T, q)) =
        Cardinality(Units(S, q)) + Cardinality(Units(T, q)) - Cardinality({})
    BY <1>2, <1>3, FS_Union
<1>5. Cardinality({}) = 0
    BY FS_EmptySet
<1>6. Cardinality(Units(S, q)) \in Nat /\ Cardinality(Units(T, q)) \in Nat
    BY <1>3, FS_CardinalityType
<1>7. Total(S \cup T, q) = Total(S, q) + Total(T, q) - 0
    BY <1>1, <1>4, <1>5, Zenon DEF Total
<1>8. Total(S, q) \in Nat /\ Total(T, q) \in Nat
    BY <1>6 DEF Total
<1> QED BY <1>7, <1>8

(* Taking a subset away takes its total away. *)
LEMMA TotalDifference ==
    ASSUME NEW S, IsFiniteSet(S), NEW T \in SUBSET S,
           NEW q, \A x \in S : q[x] \in Nat
    PROVE  Total(S \ T, q) = Total(S, q) - Total(T, q)
<1>1. IsFiniteSet(T) /\ IsFiniteSet(S \ T)
    BY FS_Subset, FS_Difference
<1>2. Total((S \ T) \cup T, q) = Total(S \ T, q) + Total(T, q)
    BY <1>1, TotalUnion
<1>3. (S \ T) \cup T = S
    OBVIOUS
<1>4. Total(S \ T, q) \in Nat /\ Total(T, q) \in Nat
    BY <1>1, TotalType
<1>5. Total(S, q) = Total(S \ T, q) + Total(T, q)
    BY <1>2, <1>3, Zenon
<1> QED BY <1>4, <1>5

(* A total depends only on the quantities of the entries it counts. *)
LEMMA TotalSame ==
    ASSUME NEW S, NEW p, NEW q, \A x \in S : p[x] = q[x]
    PROVE  Total(S, p) = Total(S, q)
<1>1. Units(S, p) = Units(S, q)
    BY DEF Units
<1> QED BY <1>1 DEF Total

(* What counts nothing totals nothing. *)
LEMMA TotalZero ==
    ASSUME NEW S, NEW q, \A x \in S : q[x] = 0
    PROVE  Total(S, q) = 0
<1>1. \A x \in S : 1 .. q[x] = {}
    OBVIOUS
<1>2. Units(S, q) = {}
    BY <1>1 DEF Units
<1> QED BY <1>2, FS_EmptySet DEF Total

(* The total of sums is the sum of the totals: the units of r above those   *)
(* of p correspond to the units of q.                                       *)
LEMMA TotalPlus ==
    ASSUME NEW S, IsFiniteSet(S), NEW p, NEW q, NEW r,
           \A x \in S : p[x] \in Nat /\ q[x] \in Nat /\ r[x] = p[x] + q[x]
    PROVE  Total(S, r) = Total(S, p) + Total(S, q)
<1> DEFINE High == UNION {{x} \X (p[x] + 1 .. r[x]) : x \in S}
           Lift == [u \in Units(S, q) |-> <<u[1], p[u[1]] + u[2]>>]
<1>1. \A u : u \in Units(S, q) <=> \E x \in S : \E i \in 1 .. q[x] : u = <<x, i>>
    <2>1. \A u : u \in Units(S, q) <=> \E x \in S : u \in {x} \X (1 .. q[x])
        BY Zenon DEF Units
    <2> QED BY <2>1
<1>2. \A u : u \in Units(S, p) <=> \E x \in S : \E i \in 1 .. p[x] : u = <<x, i>>
    BY DEF Units
<1>3. \A u : u \in Units(S, r) <=> \E x \in S : \E i \in 1 .. r[x] : u = <<x, i>>
    BY DEF Units
<1>4. \A u : u \in High <=> \E x \in S : \E i \in p[x] + 1 .. r[x] : u = <<x, i>>
    OBVIOUS
<1> HIDE DEF High
<1>5. Units(S, r) = Units(S, p) \cup High
    <2>1. ASSUME NEW u PROVE u \in Units(S, r) <=> u \in Units(S, p) \/ u \in High
        BY <1>2, <1>3, <1>4
    <2> QED BY <2>1
<1>6. Units(S, p) \cap High = {}
    BY <1>2, <1>4
<1>7. Lift \in Bijection(Units(S, q), High)
    <2>1. Lift \in [Units(S, q) -> High]
        <3>1. ASSUME NEW x \in S, NEW i \in 1 .. q[x] PROVE <<x, p[x] + i>> \in High
            BY <1>4
        <3>2. ASSUME NEW u \in Units(S, q) PROVE <<u[1], p[u[1]] + u[2]>> \in High
            BY <1>1, <3>1
        <3> QED BY <3>2
    <2>2. ASSUME NEW a \in Units(S, q), NEW b \in Units(S, q), Lift[a] = Lift[b] PROVE a = b
        <3>1. PICK x \in S : \E i \in 1 .. q[x] : a = <<x, i>>
            BY <1>1
        <3>2. PICK y \in S : \E j \in 1 .. q[y] : b = <<y, j>>
            BY <1>1
        <3>5. PICK i \in 1 .. q[x] : a = <<x, i>>
            BY <3>1
        <3>6. PICK j \in 1 .. q[y] : b = <<y, j>>
            BY <3>2
        <3>3. <<x, p[x] + i>> = <<y, p[y] + j>>
            BY <2>2, <3>5, <3>6
        <3>4. x = y /\ i = j
            BY <3>3
        <3> QED BY <3>4, <3>5, <3>6
    <2>3. ASSUME NEW h \in High PROVE \E u \in Units(S, q) : Lift[u] = h
        <3>1. PICK x \in S : \E i \in p[x] + 1 .. r[x] : h = <<x, i>>
            BY <1>4
        <3>4. PICK i \in p[x] + 1 .. r[x] : h = <<x, i>>
            BY <3>1
        <3>2. i - p[x] \in 1 .. q[x] /\ p[x] + (i - p[x]) = i
            OBVIOUS
        <3>3. <<x, i - p[x]>> \in Units(S, q)
            BY <1>1, <3>2
        <3> QED BY <3>2, <3>3, <3>4
    <2> HIDE DEF Lift
    <2> QED BY <2>1, <2>2, <2>3 DEF Bijection, Injection, Surjection, IsInjective
<1>8. IsFiniteSet(Units(S, p)) /\ IsFiniteSet(Units(S, q))
    BY UnitsFinite
<1>9. IsFiniteSet(High) /\ Cardinality(High) = Cardinality(Units(S, q))
    BY <1>7, <1>8, FS_Bijection DEF ExistsBijection
<1>10. Cardinality(Units(S, p) \cup High) =
          Cardinality(Units(S, p)) + Cardinality(High) - Cardinality({})
    BY <1>6, <1>8, <1>9, FS_Union
<1>11. Total(S, p) \in Nat /\ Total(S, q) \in Nat
    BY TotalType
<1>12. Total(S, r) = Total(S, p) + Total(S, q) - 0
    BY <1>5, <1>9, <1>10, FS_EmptySet, Zenon DEF Total
<1> QED BY <1>11, <1>12

(* A total changes by as much as the quantity of the one entry that does. *)
LEMMA TotalChange ==
    ASSUME NEW S, IsFiniteSet(S), NEW x \in S, NEW p, NEW q,
           \A y \in S : p[y] \in Nat /\ q[y] \in Nat,
           \A y \in S \ {x} : p[y] = q[y]
    PROVE  Total(S, q) = Total(S, p) + q[x] - p[x]
<1>1. IsFiniteSet(S \ {x}) /\ IsFiniteSet({x}) /\ (S \ {x}) \cup {x} = S
    BY FS_Subset, FS_Singleton
<1>2. /\ Total((S \ {x}) \cup {x}, p) = Total(S \ {x}, p) + Total({x}, p)
      /\ Total((S \ {x}) \cup {x}, q) = Total(S \ {x}, q) + Total({x}, q)
    BY <1>1, TotalUnion
<1>3. Total(S \ {x}, p) = Total(S \ {x}, q)
    BY TotalSame
<1>4. Total({x}, p) = p[x] /\ Total({x}, q) = q[x]
    BY TotalSingleton
<1>5. Total(S \ {x}, p) \in Nat
    BY <1>1, TotalType
<1>6. /\ Total(S, p) = Total(S \ {x}, p) + p[x]
      /\ Total(S, q) = Total(S \ {x}, p) + q[x]
    BY <1>1, <1>2, <1>3, <1>4, Zenon
<1> QED BY <1>5, <1>6

(* One entry that counts makes the total. *)
LEMMA TotalOfOne ==
    ASSUME NEW S, IsFiniteSet(S), NEW x \in S, NEW q, q[x] \in Nat,
           \A y \in S \ {x} : q[y] = 0
    PROVE  Total(S, q) = q[x]
<1> DEFINE zero == [y \in S |-> 0]
<1>1. \A y \in S : zero[y] = 0
    OBVIOUS
<1> HIDE DEF zero
<1>2. Total(S, zero) = 0
    BY <1>1, TotalZero
<1>3. Total(S, q) = Total(S, zero) + q[x] - zero[x]
    BY <1>1, TotalChange
<1> QED BY <1>1, <1>2, <1>3

(* Totals with one entry more, and one less. *)
LEMMA TotalAdd ==
    ASSUME NEW S, NEW x, NEW p, NEW q, IsFiniteSet(S), x \notin S, q[x] \in Nat,
           \A y \in S : p[y] \in Nat /\ q[y] = p[y]
    PROVE  Total(S \cup {x}, q) = Total(S, p) + q[x]
<1>1. IsFiniteSet({x}) /\ S \cap {x} = {} /\ \A y \in S \cup {x} : q[y] \in Nat
    BY FS_Singleton
<1>2. Total(S \cup {x}, q) = Total(S, q) + Total({x}, q)
    BY <1>1, TotalUnion
<1>3. Total(S, q) = Total(S, p) /\ Total({x}, q) = q[x]
    BY TotalSame, TotalSingleton
<1> QED BY <1>2, <1>3

LEMMA TotalRemove ==
    ASSUME NEW S, IsFiniteSet(S), NEW x \in S, NEW p, NEW q,
           \A y \in S : p[y] \in Nat, \A y \in S \ {x} : q[y] = p[y]
    PROVE  Total(S \ {x}, q) = Total(S, p) - p[x]
<1>1. Total(S \ {x}, p) = Total(S, p) - Total({x}, p)
    BY TotalDifference
<1>2. Total({x}, p) = p[x] /\ Total(S \ {x}, q) = Total(S \ {x}, p)
    BY TotalSame, TotalSingleton
<1> QED BY <1>1, <1>2

-----------------------------------------------------------------------------
(* Both parts of a quantity, and the quantity from them. *)
LEMMA NetParts ==
    ASSUME NEW S, NEW q, \A x \in S : q[x] \in Int
    PROVE  \A x \in S : /\ Above(S, q)[x] \in Nat /\ Below(S, q)[x] \in Nat
                        /\ q[x] = Above(S, q)[x] - Below(S, q)[x]
BY DEF Above, Below, Floor

LEMMA NetTotalType ==
    ASSUME NEW S, IsFiniteSet(S), NEW q, \A x \in S : q[x] \in Int
    PROVE  NetTotal(S, q) \in Int
<1>1. Total(S, Above(S, q)) \in Nat /\ Total(S, Below(S, q)) \in Nat
    BY NetParts, TotalType
<1> QED BY <1>1 DEF NetTotal

(* Two splits of a quantity into natural numbers total alike. *)
LEMMA NetOfParts ==
    ASSUME NEW S, IsFiniteSet(S), NEW q, \A x \in S : q[x] \in Int, NEW m, NEW n,
           \A x \in S : m[x] \in Nat /\ n[x] \in Nat /\ q[x] = m[x] - n[x]
    PROVE  NetTotal(S, q) = Total(S, m) - Total(S, n)
<1> DEFINE a == Above(S, q)
           b == Below(S, q)
           r == [x \in S |-> a[x] + n[x]]
<1>1. \A x \in S : a[x] \in Nat /\ b[x] \in Nat /\ q[x] = a[x] - b[x]
    BY NetParts
<1> HIDE DEF a, b
<1>2. \A x \in S : r[x] = a[x] + n[x] /\ r[x] = m[x] + b[x]
    BY <1>1
<1> HIDE DEF r
<1>3. Total(S, r) = Total(S, a) + Total(S, n)
    BY <1>1, <1>2, TotalPlus
<1>4. Total(S, r) = Total(S, m) + Total(S, b)
    BY <1>1, <1>2, TotalPlus
<1>5. /\ Total(S, a) \in Nat /\ Total(S, b) \in Nat
      /\ Total(S, m) \in Nat /\ Total(S, n) \in Nat
    BY <1>1, TotalType
<1>6. NetTotal(S, q) = Total(S, a) - Total(S, b)
    BY DEF NetTotal, a, b
<1> QED BY <1>3, <1>4, <1>5, <1>6

LEMMA NetTotalPlus ==
    ASSUME NEW S, IsFiniteSet(S), NEW p, NEW q, NEW r,
           \A x \in S : p[x] \in Int /\ q[x] \in Int /\ r[x] = p[x] + q[x]
    PROVE  NetTotal(S, r) = NetTotal(S, p) + NetTotal(S, q)
<1> DEFINE m == [x \in S |-> Above(S, p)[x] + Above(S, q)[x]]
           n == [x \in S |-> Below(S, p)[x] + Below(S, q)[x]]
<1>1. \A x \in S : /\ Above(S, p)[x] \in Nat /\ Below(S, p)[x] \in Nat
                   /\ p[x] = Above(S, p)[x] - Below(S, p)[x]
                   /\ Above(S, q)[x] \in Nat /\ Below(S, q)[x] \in Nat
                   /\ q[x] = Above(S, q)[x] - Below(S, q)[x]
    BY NetParts
<1>2. \A x \in S : /\ m[x] = Above(S, p)[x] + Above(S, q)[x]
                   /\ n[x] = Below(S, p)[x] + Below(S, q)[x]
    OBVIOUS
<1> HIDE DEF m, n
<1>3. /\ Total(S, m) = Total(S, Above(S, p)) + Total(S, Above(S, q))
      /\ Total(S, n) = Total(S, Below(S, p)) + Total(S, Below(S, q))
    BY <1>1, <1>2, TotalPlus
<1>4. \A x \in S : m[x] \in Nat /\ n[x] \in Nat /\ r[x] = m[x] - n[x] /\ r[x] \in Int
    BY <1>1, <1>2
<1>5. NetTotal(S, r) = Total(S, m) - Total(S, n)
    BY <1>4, NetOfParts
<1>6. /\ Total(S, Above(S, p)) \in Nat /\ Total(S, Above(S, q)) \in Nat
      /\ Total(S, Below(S, p)) \in Nat /\ Total(S, Below(S, q)) \in Nat
    BY <1>1, TotalType
<1> QED BY <1>3, <1>5, <1>6 DEF NetTotal

LEMMA NetTotalSame ==
    ASSUME NEW S, NEW p, NEW q, \A x \in S : p[x] = q[x]
    PROVE  NetTotal(S, p) = NetTotal(S, q)
<1>1. Above(S, p) = Above(S, q) /\ Below(S, p) = Below(S, q)
    BY DEF Above, Below
<1> QED BY <1>1 DEF NetTotal

LEMMA NetTotalNat ==
    ASSUME NEW S, IsFiniteSet(S), NEW q, \A x \in S : q[x] \in Nat
    PROVE  NetTotal(S, q) = Total(S, q)
<1> DEFINE zero == [x \in S |-> 0]
<1>1. Total(S, zero) = 0
    BY TotalZero
<1>2. NetTotal(S, q) = Total(S, q) - Total(S, zero)
    BY NetOfParts
<1>3. Total(S, q) \in Nat
    BY TotalType
<1> QED BY <1>1, <1>2, <1>3

LEMMA NetTotalSingleton ==
    ASSUME NEW x, NEW q, q[x] \in Int
    PROVE  NetTotal({x}, q) = q[x]
<1>1. Total({x}, Above({x}, q)) = Above({x}, q)[x] /\ Total({x}, Below({x}, q)) = Below({x}, q)[x]
    BY NetParts, TotalSingleton
<1> QED BY <1>1, NetParts DEF NetTotal

LEMMA NetTotalUnion ==
    ASSUME NEW S, IsFiniteSet(S), NEW T, IsFiniteSet(T), S \cap T = {},
           NEW q, \A x \in S \cup T : q[x] \in Int
    PROVE  NetTotal(S \cup T, q) = NetTotal(S, q) + NetTotal(T, q)
<1> DEFINE a == Above(S \cup T, q)
           b == Below(S \cup T, q)
<1>1. \A x \in S \cup T : a[x] \in Nat /\ b[x] \in Nat /\ q[x] = a[x] - b[x]
    BY NetParts
<1> HIDE DEF a, b
<1>2. /\ Total(S \cup T, a) = Total(S, a) + Total(T, a)
      /\ Total(S \cup T, b) = Total(S, b) + Total(T, b)
    BY <1>1, TotalUnion
<1>3. NetTotal(S, q) = Total(S, a) - Total(S, b)
    BY <1>1, NetOfParts
<1>4. NetTotal(T, q) = Total(T, a) - Total(T, b)
    BY <1>1, NetOfParts
<1>5. /\ Total(S, a) \in Nat /\ Total(T, a) \in Nat /\ Total(S, b) \in Nat /\ Total(T, b) \in Nat
    BY <1>1, TotalType
<1>6. NetTotal(S \cup T, q) = Total(S \cup T, a) - Total(S \cup T, b)
    BY DEF NetTotal, a, b
<1> QED BY <1>2, <1>3, <1>4, <1>5, <1>6

(* A net total changes by as much as the one entry that does. *)
LEMMA NetTotalChange ==
    ASSUME NEW S, IsFiniteSet(S), NEW x \in S, NEW p, NEW q,
           \A y \in S : p[y] \in Int /\ q[y] \in Int,
           \A y \in S \ {x} : p[y] = q[y]
    PROVE  NetTotal(S, q) = NetTotal(S, p) + q[x] - p[x]
<1>1. IsFiniteSet(S \ {x}) /\ IsFiniteSet({x}) /\ (S \ {x}) \cup {x} = S
    BY FS_Subset, FS_Singleton
<1>2. /\ NetTotal((S \ {x}) \cup {x}, p) = NetTotal(S \ {x}, p) + NetTotal({x}, p)
      /\ NetTotal((S \ {x}) \cup {x}, q) = NetTotal(S \ {x}, q) + NetTotal({x}, q)
    BY <1>1, NetTotalUnion
<1>3. NetTotal(S \ {x}, p) = NetTotal(S \ {x}, q)
    BY NetTotalSame
<1>4. NetTotal({x}, p) = p[x] /\ NetTotal({x}, q) = q[x]
    BY NetTotalSingleton
<1>5. NetTotal(S \ {x}, p) \in Int
    BY <1>1, NetTotalType
<1>6. /\ NetTotal(S, p) = NetTotal(S \ {x}, p) + p[x]
      /\ NetTotal(S, q) = NetTotal(S \ {x}, p) + q[x]
    BY <1>1, <1>2, <1>3, <1>4, Zenon
<1> QED BY <1>5, <1>6

(* Fewer entries of smaller quantities total less. *)
LEMMA TotalMonotone ==
    ASSUME NEW T, IsFiniteSet(T), NEW S \in SUBSET T, NEW p, NEW q,
           \A x \in T : q[x] \in Nat,
           \A x \in S : p[x] \in Nat /\ p[x] <= q[x]
    PROVE  Total(S, p) \in Nat /\ Total(T, q) \in Nat /\ Total(S, p) <= Total(T, q)
<1>1. IsFiniteSet(Units(T, q))
    BY UnitsFinite
<1>2. Units(S, p) \in SUBSET Units(T, q)
    <2>1. ASSUME NEW x \in S PROVE {x} \X (1 .. p[x]) \subseteq {x} \X (1 .. q[x])
        OBVIOUS
    <2> QED BY <2>1 DEF Units
<1>3. IsFiniteSet(Units(S, p)) /\ Cardinality(Units(S, p)) <= Cardinality(Units(T, q))
    BY <1>1, <1>2, FS_Subset
<1>4. Cardinality(Units(S, p)) \in Nat /\ Cardinality(Units(T, q)) \in Nat
    BY <1>1, <1>3, FS_CardinalityType
<1> QED BY <1>3, <1>4 DEF Total

(* Entries that count nothing can be left out. *)
LEMMA TotalOfPositive ==
    ASSUME NEW S, NEW q, \A x \in S : q[x] \in Nat
    PROVE  Total({x \in S : q[x] > 0}, q) = Total(S, q)
<1>1. ASSUME NEW x \in S, ~(q[x] > 0) PROVE {x} \X (1 .. q[x]) = {}
    BY <1>1
<1>2. Units({x \in S : q[x] > 0}, q) = Units(S, q)
    BY <1>1 DEF Units
<1> QED BY <1>2 DEF Total

-----------------------------------------------------------------------------
(* Orders.  before[w] are the members of S that come before w.              *)
Chain(S, before) ==
    /\ \A w \in S : before[w] \in SUBSET S /\ w \notin before[w]
    /\ \A v, w \in S : v # w => v \in before[w] \/ w \in before[v]
    /\ \A u, v, w \in S : u \in before[v] /\ v \in before[w] => u \in before[w]

(* Some members have a first one and a last one. *)
LEMMA FirstOfChain ==
    ASSUME NEW S, IsFiniteSet(S), NEW before, Chain(S, before), NEW T \in SUBSET S, T # {}
    PROVE  \E w \in T : \A v \in T : v \notin before[w]
<1> DEFINE Ahead(w) == T \cap before[w]
<1>1. \A w \in T : IsFiniteSet(Ahead(w)) /\ Cardinality(Ahead(w)) \in Nat
    <2> TAKE w \in T
    <2>1. Ahead(w) \in SUBSET S
        OBVIOUS
    <2>2. IsFiniteSet(Ahead(w))
        BY <2>1, FS_Subset
    <2> QED BY <2>2, FS_CardinalityType
<1>2. PICK w \in T : \A v \in T : Cardinality(Ahead(w)) <= Cardinality(Ahead(v))
    <2> DEFINE N == {Cardinality(Ahead(w)) : w \in T}
    <2> HIDE DEF Ahead
    <2>1. N \subseteq Nat /\ N # {}
        BY <1>1
    <2>2. PICK n \in N : \A m \in N : n <= m
        BY <2>1, LeastNatural
    <2> QED BY <2>2
<1>3. ASSUME NEW v \in T, v \in before[w] PROVE FALSE
    <2>1. v \in Ahead(w) /\ v \notin Ahead(v) /\ Ahead(v) \in SUBSET Ahead(w)
        BY <1>3 DEF Chain
    <2>2. IsFiniteSet(Ahead(w)) /\ Cardinality(Ahead(w)) \in Nat /\ Cardinality(Ahead(v)) \in Nat
        BY <1>1
    <2>3. Cardinality(Ahead(w)) <= Cardinality(Ahead(v))
        BY <1>2
    <2> HIDE DEF Ahead
    <2>4. /\ Cardinality(Ahead(v)) <= Cardinality(Ahead(w))
          /\ Cardinality(Ahead(w)) = Cardinality(Ahead(v)) => Ahead(w) = Ahead(v)
        BY <2>1, <2>2, FS_Subset
    <2> QED BY <2>1, <2>2, <2>3, <2>4
<1> QED BY <1>3

LEMMA LastOfChain ==
    ASSUME NEW S, IsFiniteSet(S), NEW before, Chain(S, before), NEW T \in SUBSET S, T # {}
    PROVE  \E w \in T : \A v \in T : v = w \/ v \in before[w]
<1> DEFINE Rest(w) == T \ before[w]
<1>1. \A w \in T : IsFiniteSet(Rest(w)) /\ Cardinality(Rest(w)) \in Nat
    <2> TAKE w \in T
    <2>1. Rest(w) \in SUBSET S
        OBVIOUS
    <2>2. IsFiniteSet(Rest(w))
        BY <2>1, FS_Subset
    <2> QED BY <2>2, FS_CardinalityType
<1>2. PICK w \in T : \A v \in T : Cardinality(Rest(w)) <= Cardinality(Rest(v))
    <2> DEFINE N == {Cardinality(Rest(w)) : w \in T}
    <2> HIDE DEF Rest
    <2>1. N \subseteq Nat /\ N # {}
        BY <1>1
    <2>2. PICK n \in N : \A m \in N : n <= m
        BY <2>1, LeastNatural
    <2> QED BY <2>2
<1>3. ASSUME NEW v \in T, v # w, v \notin before[w] PROVE FALSE
    <2>0. w \in before[v]
        BY <1>3 DEF Chain
    <2>1. w \in Rest(w) /\ w \notin Rest(v) /\ Rest(v) \in SUBSET Rest(w)
        BY <2>0 DEF Chain
    <2>2. IsFiniteSet(Rest(w)) /\ Cardinality(Rest(w)) \in Nat /\ Cardinality(Rest(v)) \in Nat
        BY <1>1
    <2>3. Cardinality(Rest(w)) <= Cardinality(Rest(v))
        BY <1>2
    <2> HIDE DEF Rest
    <2>4. /\ Cardinality(Rest(v)) <= Cardinality(Rest(w))
          /\ Cardinality(Rest(w)) = Cardinality(Rest(v)) => Rest(w) = Rest(v)
        BY <2>1, <2>2, FS_Subset
    <2> QED BY <2>1, <2>2, <2>3, <2>4
<1> QED BY <1>3

(* A walk along a chain that takes what each has of what is left to take    *)
(* takes all that is asked for, or all there is.                            *)
LEMMA WalkTakes ==
    ASSUME NEW S, IsFiniteSet(S), NEW before, Chain(S, before),
           NEW q, \A w \in S : q[w] \in Nat, NEW n \in Nat,
           NEW plan, \A w \in S : plan[w] = Least(q[w], Floor(n - Total(before[w], q)))
    PROVE  /\ \A w \in S : plan[w] \in Nat /\ plan[w] <= q[w]
           /\ Total(S, q) \in Nat /\ Total(S, plan) = Least(n, Total(S, q))
           /\ Total(S, plan) < n => \A w \in S : plan[w] = q[w]
<1>1. \A w \in S : before[w] \in SUBSET S /\ IsFiniteSet(before[w]) /\ Total(before[w], q) \in Nat
    <2> TAKE w \in S
    <2>1. before[w] \in SUBSET S /\ IsFiniteSet(before[w])
        BY FS_Subset DEF Chain
    <2>2. \A v \in before[w] : q[v] \in Nat
        BY <2>1
    <2> QED BY <2>1, <2>2, TotalType
<1>2. \A w \in S : plan[w] \in Nat /\ plan[w] <= q[w]
    BY <1>1 DEF Least, Floor
<1>3. Total(S, q) \in Nat /\ Total(S, plan) \in Nat /\ Total(S, plan) <= Total(S, q)
    BY <1>2, TotalType, TotalMonotone
<1>4. Total(S, plan) <= n
    <2> DEFINE used == {w \in S : plan[w] > 0}
    <2>1. used \in SUBSET S /\ IsFiniteSet(used) /\ Total(used, plan) = Total(S, plan)
        BY <1>2, FS_Subset, TotalOfPositive
    <2>2. CASE used = {}
        BY <2>1, <2>2, TotalEmpty
    <2>3. CASE used # {}
        <3>1. PICK m \in used : \A v \in used : v = m \/ v \in before[m]
            <4> HIDE DEF used
            <4> QED BY <2>1, <2>3, LastOfChain
        <3> DEFINE rest == used \ {m}
        <3>2. rest \in SUBSET before[m] /\ m \in S
            BY <3>1
        <3>3. plan[m] > 0 /\ plan[m] <= n - Total(before[m], q)
            BY <1>1, <1>2, <3>2 DEF Least, Floor
        <3> HIDE DEF used
        <3>4. Total(rest, plan) = Total(used, plan) - plan[m]
            <4>1. /\ \A v \in used : plan[v] \in Nat
                  /\ plan[m] \in Nat /\ {m} \in SUBSET used
                BY <1>2, <2>1
            <4>2. Total(used \ {m}, plan) = Total(used, plan) - Total({m}, plan)
                BY <2>1, <4>1, TotalDifference
            <4>3. Total({m}, plan) = plan[m]
                BY <4>1, TotalSingleton
            <4> QED BY <4>2, <4>3
        <3> HIDE DEF rest
        <3>5. Total(rest, plan) \in Nat /\ Total(rest, plan) <= Total(before[m], q)
            <4>1. \A v \in before[m] : q[v] \in Nat
                BY <1>1, <3>2
            <4>2. \A v \in rest : plan[v] \in Nat /\ plan[v] <= q[v]
                BY <1>1, <1>2, <3>2
            <4> QED BY <1>1, <3>2, <4>1, <4>2, TotalMonotone
        <3> QED BY <1>1, <1>2, <1>3, <2>1, <3>2, <3>3, <3>4, <3>5
    <2> QED BY <2>2, <2>3
<1>5. ASSUME Total(S, plan) < n, NEW w \in S, plan[w] # q[w] PROVE FALSE
    <2> DEFINE T == {v \in S : plan[v] < q[v]}
    <2>1. PICK f \in T : \A v \in T : v \notin before[f]
        <3>1. w \in T /\ T \in SUBSET S
            BY <1>2, <1>5
        <3> HIDE DEF T
        <3> QED BY <3>1, FirstOfChain
    <2> DEFINE B == before[f]
    <2>2. f \in S /\ plan[f] < q[f] /\ B \in SUBSET S /\ f \notin B /\ IsFiniteSet(B)
        BY <1>1 DEF Chain
    <2>3. \A v \in B : plan[v] = q[v]
        BY <1>2, <2>1, <2>2
    <2>4. Total(B, plan) = Total(B, q) /\ Total(B, q) \in Nat
        BY <1>1, <2>2, <2>3, TotalSame
    <2>5. n - Total(B, q) <= plan[f]
        BY <2>2, <2>4 DEF Least, Floor
    <2> HIDE DEF B, T
    <2>6. Total(B \cup {f}, plan) = Total(B, plan) + plan[f]
        <3>1. \A v \in B : plan[v] \in Nat /\ plan[v] = plan[v]
            BY <1>2, <2>2
        <3>2. plan[f] \in Nat
            BY <1>2, <2>2
        <3> QED BY <2>2, <3>1, <3>2, TotalAdd
    <2>7. Total(B \cup {f}, plan) <= Total(S, plan)
        <3>1. B \cup {f} \in SUBSET S
            BY <2>2
        <3>2. \A v \in S : plan[v] \in Nat
            BY <1>2
        <3>3. \A v \in B \cup {f} : plan[v] \in Nat /\ plan[v] <= plan[v]
            BY <3>1, <3>2
        <3> QED BY <3>1, <3>2, <3>3, TotalMonotone
    <2> QED BY <1>2, <1>3, <1>5, <2>2, <2>4, <2>5, <2>6, <2>7
<1>6. Total(S, plan) < n => Total(S, plan) = Total(S, q)
    BY <1>5, TotalSame
<1> QED BY <1>2, <1>3, <1>4, <1>5, <1>6 DEF Least
-----------------------------------------------------------------------------
(* Loops.  What holds at the start of a loop and is kept by its turns holds *)
(* after every turn.                                                        *)
LEMMA EveryTurn ==
    ASSUME NEW n \in Nat, NEW P, 0 \in P, \A i \in 1 .. n : i - 1 \in P => i \in P
    PROVE  \A i \in 0 .. n : i \in P
<1> DEFINE T == {i \in 0 .. n : i \notin P}
<1> SUFFICES ASSUME T # {} PROVE FALSE
    OBVIOUS
<1>1. T \subseteq Nat
    OBVIOUS
<1>2. PICK m \in T : \A i \in T : m <= i
    BY <1>1, LeastNatural
<1>3. m \in 1 .. n /\ m - 1 \in 0 .. n /\ m - 1 \notin T
    BY <1>2
<1> QED BY <1>2, <1>3
=============================================================================
