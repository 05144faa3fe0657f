----------------------- MODULE FulfillmentPlanningProofs -----------------------
(***************************************************************************)
(* Proofs about FulfillmentPlanning, for any orders, warehouses and bounds. *)
(***************************************************************************)
EXTENDS FulfillmentPlanning, TotalTheorems

-----------------------------------------------------------------------------
(* Each loop of the planner has its sequence of intermediate states. *)
LEMMA LinesLoop ==
    ASSUME NEW t, NEW o, NEW pref, Len(Lines[o]) \in Nat
    PROVE  \E after :
              /\ after[0] = t
              /\ \A l \in 1 .. Len(Lines[o]) : after[l] = AllocateLine(after[l - 1], o, l, pref)
              /\ AllocateLines(t, o, pref) = after[Len(Lines[o])]
<1> DEFINE n == Len(Lines[o])
           Unfolds(f, m) == f = [l \in 0 .. m |->
                IF l = 0 THEN t ELSE AllocateLine(f[l - 1], o, l, pref)]
           P == {m \in 0 .. n : \E f : Unfolds(f, m)}
<1>n. n \in Nat
    OBVIOUS
<1>0. \A m : m \in P <=> m \in 0 .. n /\ \E f : Unfolds(f, m)
    BY Zenon
<1>l. AllocateLines(t, o, pref) = (CHOOSE f : Unfolds(f, n))[n]
    BY DEF AllocateLines
<1> HIDE DEF n, P
<1>1. 0 \in P
    <2> DEFINE f == [l \in 0 .. 0 |-> t]
    <2>1. Unfolds(f, 0)
        OBVIOUS
    <2> HIDE DEF f, Unfolds
    <2>2. \E g : Unfolds(g, 0)
        BY <2>1
    <2>3. 0 \in 0 .. n
        BY <1>n
    <2> QED BY <1>0, <2>2, <2>3
<1>2. ASSUME NEW m \in 1 .. n, m - 1 \in P PROVE m \in P
    <2>1. PICK f : Unfolds(f, m - 1)
        BY <1>0, <1>2, Zenon
    <2> DEFINE g == [l \in 0 .. m |-> IF l = m THEN AllocateLine(f[m - 1], o, m, pref) ELSE f[l]]
    <2>m. m \in 0 .. n /\ m \in Nat
        BY <1>n
    <2>2. ASSUME NEW l \in 0 .. m
          PROVE  g[l] = IF l = 0 THEN t ELSE AllocateLine(g[l - 1], o, l, pref)
        <3>1. CASE l = m
            <4>1. g[l - 1] = f[m - 1] /\ l # 0
                BY <3>1, <2>m
            <4> QED BY <3>1, <4>1
        <3>2. CASE l = 0
            <4>1. 0 \in 0 .. m - 1 /\ g[0] = f[0]
                BY <3>2, <2>m
            <4>2. f[0] = t
                BY <2>1, <4>1
            <4> QED BY <3>2, <4>1, <4>2
        <3>3. CASE l # m /\ l # 0
            <4>1. l \in 0 .. m - 1 /\ g[l] = f[l] /\ g[l - 1] = f[l - 1]
                BY <3>3, <2>m
            <4>2. f[l] = AllocateLine(f[l - 1], o, l, pref)
                BY <2>1, <3>3, <4>1
            <4> QED BY <3>3, <4>1, <4>2
        <3> QED BY <3>1, <3>2, <3>3
    <2>3. g = [l \in 0 .. m |-> g[l]]
        OBVIOUS
    <2> HIDE DEF g
    <2>4. Unfolds(g, m)
        BY <2>2, <2>3
    <2> HIDE DEF Unfolds
    <2>5. \E h : Unfolds(h, m)
        BY <2>4, Zenon
    <2> QED BY <1>0, <2>m, <2>5, Zenon
<1>3. \E f : Unfolds(f, n)
    <2> HIDE DEF Unfolds
    <2>1. \A i \in 0 .. n : i \in P
        BY <1>n, <1>1, <1>2, EveryTurn
    <2>2. n \in P
        BY <1>n, <2>1
    <2> QED BY <1>0, <2>2, Zenon
<1> DEFINE after == CHOOSE f : Unfolds(f, n)
<1>4. Unfolds(after, n)
    <2> HIDE DEF Unfolds
    <2> QED BY <1>3, Zenon
<1> HIDE DEF after
<1>5. after[0] = t
    BY <1>n, <1>4
<1>6. \A l \in 1 .. n : after[l] = AllocateLine(after[l - 1], o, l, pref)
    BY <1>n, <1>4
<1>7. AllocateLines(t, o, pref) = after[n]
    BY <1>l DEF after
<1> QED BY <1>5, <1>6, <1>7 DEF n

LEMMA InventoryLoop ==
    ASSUME NEW t, NEW o, NEW selected, Len(selected) \in Nat
    PROVE  \E after :
              /\ after[0] = t
              /\ \A l \in 1 .. Len(selected) : after[l] = AllocateLines(after[l - 1], o, selected[l])
              /\ AllocateInventory(t, o, selected) = after[Len(selected)]
<1> DEFINE n == Len(selected)
           Unfolds(f, m) == f = [l \in 0 .. m |->
                IF l = 0 THEN t ELSE AllocateLines(f[l - 1], o, selected[l])]
           P == {m \in 0 .. n : \E f : Unfolds(f, m)}
<1>n. n \in Nat
    OBVIOUS
<1>0. \A m : m \in P <=> m \in 0 .. n /\ \E f : Unfolds(f, m)
    BY Zenon
<1>l. AllocateInventory(t, o, selected) = (CHOOSE f : Unfolds(f, n))[n]
    BY DEF AllocateInventory
<1> HIDE DEF n, P
<1>1. 0 \in P
    <2> DEFINE f == [l \in 0 .. 0 |-> t]
    <2>1. Unfolds(f, 0)
        OBVIOUS
    <2> HIDE DEF f, Unfolds
    <2>2. \E g : Unfolds(g, 0)
        BY <2>1
    <2>3. 0 \in 0 .. n
        BY <1>n
    <2> QED BY <1>0, <2>2, <2>3
<1>2. ASSUME NEW m \in 1 .. n, m - 1 \in P PROVE m \in P
    <2>1. PICK f : Unfolds(f, m - 1)
        BY <1>0, <1>2, Zenon
    <2> DEFINE g == [l \in 0 .. m |-> IF l = m THEN AllocateLines(f[m - 1], o, selected[m]) ELSE f[l]]
    <2>m. m \in 0 .. n /\ m \in Nat
        BY <1>n
    <2>2. ASSUME NEW l \in 0 .. m
          PROVE  g[l] = IF l = 0 THEN t ELSE AllocateLines(g[l - 1], o, selected[l])
        <3>1. CASE l = m
            <4>1. g[l - 1] = f[m - 1] /\ l # 0
                BY <3>1, <2>m
            <4> QED BY <3>1, <4>1
        <3>2. CASE l = 0
            <4>1. 0 \in 0 .. m - 1 /\ g[0] = f[0]
                BY <3>2, <2>m
            <4>2. f[0] = t
                BY <2>1, <4>1
            <4> QED BY <3>2, <4>1, <4>2
        <3>3. CASE l # m /\ l # 0
            <4>1. l \in 0 .. m - 1 /\ g[l] = f[l] /\ g[l - 1] = f[l - 1]
                BY <3>3, <2>m
            <4>2. f[l] = AllocateLines(f[l - 1], o, selected[l])
                BY <2>1, <3>3, <4>1
            <4> QED BY <3>3, <4>1, <4>2
        <3> QED BY <3>1, <3>2, <3>3
    <2>3. g = [l \in 0 .. m |-> g[l]]
        OBVIOUS
    <2> HIDE DEF g
    <2>4. Unfolds(g, m)
        BY <2>2, <2>3
    <2> HIDE DEF Unfolds
    <2>5. \E h : Unfolds(h, m)
        BY <2>4, Zenon
    <2> QED BY <1>0, <2>m, <2>5, Zenon
<1>3. \E f : Unfolds(f, n)
    <2> HIDE DEF Unfolds
    <2>1. \A i \in 0 .. n : i \in P
        BY <1>n, <1>1, <1>2, EveryTurn
    <2>2. n \in P
        BY <1>n, <2>1
    <2> QED BY <1>0, <2>2, Zenon
<1> DEFINE after == CHOOSE f : Unfolds(f, n)
<1>4. Unfolds(after, n)
    <2> HIDE DEF Unfolds
    <2> QED BY <1>3, Zenon
<1> HIDE DEF after
<1>5. after[0] = t
    BY <1>n, <1>4
<1>6. \A l \in 1 .. n : after[l] = AllocateLines(after[l - 1], o, selected[l])
    BY <1>n, <1>4
<1>7. AllocateInventory(t, o, selected) = after[n]
    BY <1>l DEF after
<1> QED BY <1>5, <1>6, <1>7 DEF n

LEMMA OrdersLoop ==
    ASSUME NEW t, NEW queue, Len(queue) \in Nat
    PROVE  \E after :
              /\ after[0] = t
              /\ \A l \in 1 .. Len(queue) : after[l] = PlanFulfillment(after[l - 1], queue[l])
              /\ PlanOrders(t, queue) = after[Len(queue)]
<1> DEFINE n == Len(queue)
           Unfolds(f, m) == f = [l \in 0 .. m |->
                IF l = 0 THEN t ELSE PlanFulfillment(f[l - 1], queue[l])]
           P == {m \in 0 .. n : \E f : Unfolds(f, m)}
<1>n. n \in Nat
    OBVIOUS
<1>0. \A m : m \in P <=> m \in 0 .. n /\ \E f : Unfolds(f, m)
    BY Zenon
<1>l. PlanOrders(t, queue) = (CHOOSE f : Unfolds(f, n))[n]
    BY DEF PlanOrders
<1> HIDE DEF n, P
<1>1. 0 \in P
    <2> DEFINE f == [l \in 0 .. 0 |-> t]
    <2>1. Unfolds(f, 0)
        OBVIOUS
    <2> HIDE DEF f, Unfolds
    <2>2. \E g : Unfolds(g, 0)
        BY <2>1
    <2>3. 0 \in 0 .. n
        BY <1>n
    <2> QED BY <1>0, <2>2, <2>3
<1>2. ASSUME NEW m \in 1 .. n, m - 1 \in P PROVE m \in P
    <2>1. PICK f : Unfolds(f, m - 1)
        BY <1>0, <1>2, Zenon
    <2> DEFINE g == [l \in 0 .. m |-> IF l = m THEN PlanFulfillment(f[m - 1], queue[m]) ELSE f[l]]
    <2>m. m \in 0 .. n /\ m \in Nat
        BY <1>n
    <2>2. ASSUME NEW l \in 0 .. m
          PROVE  g[l] = IF l = 0 THEN t ELSE PlanFulfillment(g[l - 1], queue[l])
        <3>1. CASE l = m
            <4>1. g[l - 1] = f[m - 1] /\ l # 0
                BY <3>1, <2>m
            <4> QED BY <3>1, <4>1
        <3>2. CASE l = 0
            <4>1. 0 \in 0 .. m - 1 /\ g[0] = f[0]
                BY <3>2, <2>m
            <4>2. f[0] = t
                BY <2>1, <4>1
            <4> QED BY <3>2, <4>1, <4>2
        <3>3. CASE l # m /\ l # 0
            <4>1. l \in 0 .. m - 1 /\ g[l] = f[l] /\ g[l - 1] = f[l - 1]
                BY <3>3, <2>m
            <4>2. f[l] = PlanFulfillment(f[l - 1], queue[l])
                BY <2>1, <3>3, <4>1
            <4> QED BY <3>3, <4>1, <4>2
        <3> QED BY <3>1, <3>2, <3>3
    <2>3. g = [l \in 0 .. m |-> g[l]]
        OBVIOUS
    <2> HIDE DEF g
    <2>4. Unfolds(g, m)
        BY <2>2, <2>3
    <2> HIDE DEF Unfolds
    <2>5. \E h : Unfolds(h, m)
        BY <2>4, Zenon
    <2> QED BY <1>0, <2>m, <2>5, Zenon
<1>3. \E f : Unfolds(f, n)
    <2> HIDE DEF Unfolds
    <2>1. \A i \in 0 .. n : i \in P
        BY <1>n, <1>1, <1>2, EveryTurn
    <2>2. n \in P
        BY <1>n, <2>1
    <2> QED BY <1>0, <2>2, Zenon
<1> DEFINE after == CHOOSE f : Unfolds(f, n)
<1>4. Unfolds(after, n)
    <2> HIDE DEF Unfolds
    <2> QED BY <1>3, Zenon
<1> HIDE DEF after
<1>5. after[0] = t
    BY <1>n, <1>4
<1>6. \A l \in 1 .. n : after[l] = PlanFulfillment(after[l - 1], queue[l])
    BY <1>n, <1>4
<1>7. PlanOrders(t, queue) = after[n]
    BY <1>l DEF after
<1> QED BY <1>5, <1>6, <1>7 DEF n
-----------------------------------------------------------------------------
(* Orders.  Ordered lists every member of a finite set once. *)
LEMMA OrderedLists ==
    ASSUME NEW S, IsFiniteSet(S), NEW before,
           \A x \in S : x \notin before[x],
           \A x, y \in S : x # y => x \in before[y] \/ y \in before[x],
           \A x, y, z \in S : x \in before[y] /\ y \in before[z] => x \in before[z]
    PROVE  /\ Cardinality(S) \in Nat
           /\ Ordered(S, before) \in [1 .. Cardinality(S) -> S]
           /\ \A i, j \in 1 .. Cardinality(S) :
                 Ordered(S, before)[i] = Ordered(S, before)[j] => i = j
           /\ \A x \in S : \E i \in 1 .. Cardinality(S) : Ordered(S, before)[i] = x
<1> DEFINE n == Cardinality(S)
           Ahead(x) == S \cap before[x]
           place == [x \in S |-> Cardinality(Ahead(x)) + 1]
<1>1. n \in Nat
    BY FS_CardinalityType
<1>2. ASSUME NEW x \in S PROVE IsFiniteSet(Ahead(x)) /\ Cardinality(Ahead(x)) \in 0 .. n - 1
    <2>1. Ahead(x) \in SUBSET (S \ {x})
        OBVIOUS
    <2>2. IsFiniteSet(S \ {x}) /\ Cardinality(S \ {x}) = n - 1
        BY FS_RemoveElement
    <2>3. IsFiniteSet(Ahead(x)) /\ Cardinality(Ahead(x)) <= n - 1
        BY <2>1, <2>2, FS_Subset
    <2>4. Cardinality(Ahead(x)) \in Nat
        BY <2>3, FS_CardinalityType
    <2> QED BY <1>1, <2>3, <2>4
<1>3. ASSUME NEW x \in S, NEW y \in S, x \in before[y]
      PROVE  Cardinality(Ahead(x)) < Cardinality(Ahead(y))
    <2>1. Ahead(x) \in SUBSET Ahead(y) /\ x \in Ahead(y) /\ x \notin Ahead(x)
        BY <1>3
    <2>2. IsFiniteSet(Ahead(y))
        BY <1>2
    <2>3. Ahead(x) # Ahead(y)
        BY <2>1
    <2>4. Cardinality(Ahead(x)) \in 0 .. n - 1 /\ Cardinality(Ahead(y)) \in 0 .. n - 1
        BY <1>2
    <2> HIDE DEF Ahead
    <2>5. /\ Cardinality(Ahead(x)) <= Cardinality(Ahead(y))
          /\ Cardinality(Ahead(y)) = Cardinality(Ahead(x)) => Ahead(y) = Ahead(x)
        BY <2>1, <2>2, FS_Subset
    <2> QED BY <1>1, <2>3, <2>4, <2>5
<1>o. \A i \in 1 .. n : Ordered(S, before)[i] = CHOOSE x \in S : Cardinality(Ahead(x)) = i - 1
    BY DEF Ordered
<1>p. Ordered(S, before) = [i \in 1 .. n |-> Ordered(S, before)[i]]
    <2> DEFINE s == [i \in 1 .. n |-> CHOOSE x \in S : Cardinality(Ahead(x)) = i - 1]
    <2>1. Ordered(S, before) = s
        BY DEF Ordered
    <2>2. s = [i \in 1 .. n |-> s[i]]
        <3> HIDE DEF Ahead
        <3> QED OBVIOUS
    <2> HIDE DEF s
    <2> QED BY <2>1, <2>2
<1> HIDE DEF Ahead, n
<1>4. place \in Injection(S, 1 .. n)
    <2>1. ASSUME NEW x \in S PROVE Cardinality(Ahead(x)) + 1 \in 1 .. n
        BY <1>1, <1>2
    <2>2. place \in [S -> 1 .. n]
        BY <2>1
    <2>3. ASSUME NEW x \in S, NEW y \in S, place[x] = place[y] PROVE x = y
        <3>1. Cardinality(Ahead(x)) \in 0 .. n - 1 /\ Cardinality(Ahead(y)) \in 0 .. n - 1
            BY <1>2
        <3>2. Cardinality(Ahead(x)) = Cardinality(Ahead(y))
            BY <1>1, <2>3, <3>1
        <3> QED BY <1>1, <1>3, <3>1, <3>2
    <2> HIDE DEF place
    <2> QED BY <2>2, <2>3 DEF Injection, IsInjective
<1>5. IsFiniteSet(1 .. n) /\ Cardinality(1 .. n) = n
    BY <1>1, FS_Interval
<1>6. place \in Surjection(S, 1 .. n)
    BY <1>4, <1>5, FS_Injection DEF n
<1>7. \A i \in 1 .. n : \E x \in S : Cardinality(Ahead(x)) = i - 1
    <2> TAKE i \in 1 .. n
    <2>1. \E x \in S : place[x] = i
        BY <1>6 DEF Surjection
    <2>2. PICK x \in S : place[x] = i
        BY <2>1
    <2>3. Cardinality(Ahead(x)) \in 0 .. n - 1
        BY <1>2
    <2>4. Cardinality(Ahead(x)) + 1 = i
        BY <2>2
    <2> QED BY <1>1, <2>3, <2>4
<1>8. ASSUME NEW i \in 1 .. n
      PROVE  /\ Ordered(S, before)[i] \in S
             /\ Cardinality(Ahead(Ordered(S, before)[i])) = i - 1
    BY <1>7, <1>o
<1>9. Ordered(S, before) \in [1 .. n -> S]
    BY <1>8, <1>p
<1>10. \A i, j \in 1 .. n : Ordered(S, before)[i] = Ordered(S, before)[j] => i = j
    <2> TAKE i, j \in 1 .. n
    <2> HAVE Ordered(S, before)[i] = Ordered(S, before)[j]
    <2>1. i - 1 = j - 1
        BY <1>8, Zenon
    <2> QED BY <1>1, <2>1
<1>11. \A x \in S : \E i \in 1 .. n : Ordered(S, before)[i] = x
    <2> TAKE x \in S
    <2>1. PICK i \in 1 .. n : i = Cardinality(Ahead(x)) + 1
        BY <1>1, <1>2
    <2>2. Cardinality(Ahead(x)) = i - 1
        BY <1>1, <1>2, <2>1
    <2>3. Ordered(S, before)[i] \in S /\ Cardinality(Ahead(Ordered(S, before)[i])) = i - 1
        BY <1>8
    <2>4. place[Ordered(S, before)[i]] = place[x]
        BY <2>2, <2>3
    <2>5. Ordered(S, before)[i] = x
        BY <1>4, <2>3, <2>4 DEF Injection, IsInjective
    <2> QED BY <2>5
<1> QED BY <1>1, <1>9, <1>10, <1>11 DEF n

(* The engine's ranking orders the warehouses. *)
LEMMA RankingIsOrder ==
    ASSUME NEW pref
    PROVE  /\ \A w \in Warehouse : w \notin Before(w, pref)
           /\ \A v, w \in Warehouse : v # w => v \in Before(w, pref) \/ w \in Before(v, pref)
           /\ \A u, v, w \in Warehouse :
                 u \in Before(v, pref) /\ v \in Before(w, pref) => u \in Before(w, pref)
           /\ \A v, w \in Warehouse : v \in Before(w, pref) <=> Precedes(v, w, pref)
           /\ \A w \in Warehouse : Before(w, pref) \in SUBSET Warehouse
                                   /\ IsFiniteSet(Before(w, pref))
<1>1. \A w \in Warehouse : Rank[w] \in Nat
    BY RankIsOrder
<1>2. ASSUME NEW w \in Warehouse
      PROVE  Before(w, pref) \in SUBSET Warehouse /\ IsFiniteSet(Before(w, pref))
    <2>1. Before(w, pref) \in SUBSET Warehouse
        BY DEF Before
    <2> QED BY <2>1, WarehouseFinite, FS_Subset
<1> QED BY <1>1, <1>2, RankIsOrder DEF Before, Precedes

LEMMA RankingIsChain ==
    ASSUME NEW pref PROVE Chain(Warehouse, [w \in Warehouse |-> Before(w, pref)])
<1> DEFINE before == [w \in Warehouse |-> Before(w, pref)]
<1>1. \A w \in Warehouse : before[w] = Before(w, pref)
    OBVIOUS
<1> HIDE DEF before
<1>2. Chain(Warehouse, before)
    BY <1>1, RankingIsOrder DEF Chain
<1> QED BY <1>2 DEF before

-----------------------------------------------------------------------------
(* Renaming the entries leaves a total as it is. *)
LEMMA TotalRenamed ==
    ASSUME NEW K, IsFiniteSet(K), NEW S, NEW f \in [K -> S], NEW p, NEW q,
           \A j, k \in K : f[j] = f[k] => j = k,
           \A x \in S : \E k \in K : f[k] = x,
           \A k \in K : p[k] \in Nat /\ q[f[k]] = p[k]
    PROVE  Total(S, q) = Total(K, p)
<1> DEFINE Rename == [u \in Units(K, p) |-> <<f[u[1]], u[2]>>]
<1>1. \A u : u \in Units(K, p) <=> \E k \in K : \E i \in 1 .. p[k] : u = <<k, i>>
    BY DEF Units
<1>2. \A u : u \in Units(S, q) <=> \E x \in S : \E i \in 1 .. q[x] : u = <<x, i>>
    BY DEF Units
<1>3. Rename \in [Units(K, p) -> Units(S, q)]
    <2>1. ASSUME NEW k \in K, NEW i \in 1 .. p[k] PROVE <<f[k], i>> \in Units(S, q)
        BY <1>2
    <2>2. ASSUME NEW u \in Units(K, p) PROVE <<f[u[1]], u[2]>> \in Units(S, q)
        BY <1>1, <2>1
    <2> QED BY <2>2
<1>4. ASSUME NEW a \in Units(K, p), NEW b \in Units(K, p), Rename[a] = Rename[b] PROVE a = b
    <2>1. PICK j \in K : \E i \in 1 .. p[j] : a = <<j, i>>
        BY <1>1
    <2>2. PICK k \in K : \E i \in 1 .. p[k] : b = <<k, i>>
        BY <1>1
    <2>3. PICK i \in 1 .. p[j] : a = <<j, i>>
        BY <2>1
    <2>4. PICK h \in 1 .. p[k] : b = <<k, h>>
        BY <2>2
    <2>5. <<f[j], i>> = <<f[k], h>>
        BY <1>4, <2>3, <2>4
    <2>6. j = k /\ i = h
        BY <2>5
    <2> QED BY <2>3, <2>4, <2>6
<1>5. ASSUME NEW v \in Units(S, q) PROVE \E u \in Units(K, p) : Rename[u] = v
    <2>1. PICK x \in S : \E i \in 1 .. q[x] : v = <<x, i>>
        BY <1>2
    <2>2. PICK i \in 1 .. q[x] : v = <<x, i>>
        BY <2>1
    <2>3. PICK k \in K : f[k] = x
        OBVIOUS
    <2>4. <<k, i>> \in Units(K, p)
        BY <1>1, <2>3
    <2> QED BY <2>2, <2>3, <2>4
<1> HIDE DEF Rename
<1>6. Rename \in Bijection(Units(K, p), Units(S, q))
    BY <1>3, <1>4, <1>5 DEF Bijection, Injection, Surjection, IsInjective
<1>7. IsFiniteSet(Units(K, p))
    BY UnitsFinite
<1> QED BY <1>6, <1>7, FS_Bijection DEF ExistsBijection, Total

-----------------------------------------------------------------------------
(* The warehouses that give something. *)
Giving(plan) == {w \in Warehouse : plan[w] > 0}

(* What the engine takes for a line: no more than each warehouse offers and *)
(* the line needs; all of it if it must not be split; and if it finds too   *)
(* little, all that is on offer.                                            *)
LEMMA PlansFit ==
    ASSUME NEW offer \in [Warehouse -> Nat], NEW need \in Nat \ {0}, NEW pref,
           NEW split \in BOOLEAN
    PROVE  LET plan == Plan(offer, need, pref, split)
               used == Giving(plan)
           IN  /\ plan \in [Warehouse -> Nat]
               /\ \A w \in Warehouse : plan[w] <= offer[w]
               /\ IsFiniteSet(used)
               /\ Total(used, plan) \in Nat /\ Total(used, plan) <= need
               /\ ~split /\ used # {} => Total(used, plan) = need
               /\ Total(used, plan) < need /\ used # {} =>
                     \A w \in Warehouse : plan[w] = offer[w]
<1> DEFINE plan == Plan(offer, need, pref, split)
           used == Giving(plan)
<1>u. used \in SUBSET Warehouse /\ used = {w \in Warehouse : plan[w] > 0}
    BY DEF Giving
<1>1. \A w \in Warehouse : /\ Before(w, pref) \in SUBSET Warehouse
                           /\ IsFiniteSet(Before(w, pref))
                           /\ Total(Before(w, pref), offer) \in Nat
    BY RankingIsOrder, TotalType
<1>2. IsFiniteSet(used) /\ used \in SUBSET Warehouse
    BY <1>u, WarehouseFinite, FS_Subset
<1>3. plan = IF split THEN SplitPlan(offer, need, pref) ELSE WholePlan(offer, need, pref)
    BY DEF Plan
<1> HIDE DEF plan, used
<1>4. CASE split
    <2>1. /\ plan = [w \in Warehouse |-> plan[w]]
          /\ \A w \in Warehouse :
                plan[w] = Least(offer[w], Floor(need - Total(Before(w, pref), offer)))
        BY <1>3, <1>4 DEF SplitPlan
    <2>2. \A w \in Warehouse : plan[w] \in Nat /\ plan[w] <= offer[w]
        BY <1>1, <2>1 DEF Least, Floor
    <2>3. Total(used, plan) \in Nat /\ Total(used, plan) = Total(Warehouse, plan)
        BY <1>2, <1>u, <2>2, TotalType, TotalOfPositive
    <2> DEFINE before == [w \in Warehouse |-> Before(w, pref)]
    <2>4. /\ Total(Warehouse, offer) \in Nat
          /\ Total(Warehouse, plan) = Least(need, Total(Warehouse, offer))
          /\ Total(Warehouse, plan) < need => \A w \in Warehouse : plan[w] = offer[w]
        <3>1. Chain(Warehouse, before)
            BY RankingIsChain
        <3>2. \A w \in Warehouse : before[w] = Before(w, pref)
            OBVIOUS
        <3>3. need \in Nat /\ \A w \in Warehouse : offer[w] \in Nat
            OBVIOUS
        <3> HIDE DEF before
        <3> QED BY <2>1, <3>1, <3>2, <3>3, WarehouseFinite, WalkTakes
    <2>5. Total(used, plan) <= need
        BY <2>3, <2>4 DEF Least
    <2> QED BY <1>2, <1>4, <2>1, <2>2, <2>3, <2>4, <2>5 DEF plan, used
<1>5. CASE ~split
    <2>1. /\ plan = [w \in Warehouse |-> plan[w]]
          /\ \A w \in Warehouse :
                plan[w] = IF /\ offer[w] >= need
                             /\ \A v \in Before(w, pref) : offer[v] < need
                          THEN need ELSE 0
        BY <1>3, <1>5 DEF WholePlan
    <2>2. \A w \in Warehouse : plan[w] \in Nat /\ plan[w] <= offer[w]
        BY <2>1
    <2>3. ASSUME NEW w \in used PROVE used = {w} /\ plan[w] = need
        <3>1. plan[w] = need
            BY <1>u, <2>1
        <3>2. ASSUME NEW v \in used, v # w PROVE FALSE
            <4>1. v \in Warehouse /\ w \in Warehouse /\ offer[v] >= need /\ offer[w] >= need
                BY <1>u, <2>1
            <4>2. /\ \A u \in Before(v, pref) : offer[u] < need
                  /\ \A u \in Before(w, pref) : offer[u] < need
                BY <1>u, <2>1
            <4>3. v \in Before(w, pref) \/ w \in Before(v, pref)
                BY <3>2, <4>1, RankingIsOrder
            <4> QED BY <4>1, <4>2, <4>3
        <3> QED BY <3>1, <3>2
    <2>4. used = {} \/ Total(used, plan) = need
        BY <2>3, TotalSingleton
    <2>5. used = {} => Total(used, plan) = 0
        BY TotalEmpty
    <2> QED BY <1>2, <1>5, <2>1, <2>2, <2>4, <2>5 DEF plan, used
<1> QED BY <1>4, <1>5
-----------------------------------------------------------------------------
(* The session of a call.  What its tables hold: *)
Strategy == {"cost_optimized", "speed_optimized", "single_warehouse", "balanced"}
OrderStatus == Live \cup {"none", "cancelled"}
Reservation ==
    [order : Order, warehouse : Warehouse, quantity : Nat \ {0}, active : BOOLEAN, fate : Fate]
OrderRow(o) ==
    [status : OrderStatus, partial : BOOLEAN, strategy : Strategy,
     allocated : [DOMAIN Lines[o] -> Nat], backorder : [DOMAIN Lines[o] -> Nat],
     plan : [Warehouse -> {"none", "planned", "executing"}],
     shipments : [Warehouse -> Nat], by : Author]
Transaction ==
    [flushed : [Warehouse -> Nat], reserved : [Warehouse -> Nat], res : Seq(Reservation),
     order : [Order -> UNION {OrderRow(o) : o \in Order}], unmet : SUBSET (Order \X Nat),
     raised : BOOLEAN, short : BOOLEAN]
Shaped(t) == t \in Transaction /\ \A o \in Order : t.order[o] \in OrderRow(o)

(* An allocation by its parts: what it takes, from whom, where too little   *)
(* is left, and for whom it inserts a reservation.                          *)
Taken(t, o, l, pref) == Plan(Offer(t.flushed), Needed(t, o, l), pref, t.order[o].partial)
Used(t, o, l, pref) == {w \in Warehouse : Taken(t, o, l, pref)[w] > 0}
Scarce(t, o, l, pref) ==
    {w \in Used(t, o, l, pref) : Offer(t.reserved)[w] < Taken(t, o, l, pref)[w]}
Made(t, o, l, pref) ==
    {w \in Used(t, o, l, pref) : \A v \in Scarce(t, o, l, pref) : ~Precedes(v, w, pref)}
Raises(t, o, l, pref) == Used(t, o, l, pref) = {} \/ Scarce(t, o, l, pref) # {}

Inserted(t, o, l, pref) ==
    LET sorted == Ordered(Made(t, o, l, pref), [w \in Made(t, o, l, pref) |-> Before(w, pref)])
    IN  [i \in DOMAIN sorted |->
            [order |-> o, warehouse |-> sorted[i], quantity |-> Taken(t, o, l, pref)[sorted[i]],
             active |-> TRUE,
             fate |-> IF sorted[i] \in Scarce(t, o, l, pref) THEN "uncounted"
                      ELSE IF Raises(t, o, l, pref) THEN "taken" ELSE "booked"]]

(* The row of the order after an allocation that does not raise. *)
Filled(row, l, m, n) == [row EXCEPT !.allocated[l] = @ + m, !.backorder[l] = n]

(* Its effect on the session. *)
LineEffect(s, t, o, l, pref) ==
    LET plan == Taken(t, o, l, pref)
        used == Used(t, o, l, pref)
        total == Total(used, plan)
    IN  /\ s = [flushed |-> s.flushed, reserved |-> s.reserved, res |-> s.res,
                order |-> s.order, unmet |-> s.unmet, raised |-> s.raised, short |-> s.short]
        /\ s.reserved = [w \in Warehouse |-> s.reserved[w]]
        /\ \A w \in Warehouse :
              s.reserved[w] = t.reserved[w] +
                 IF w \in Made(t, o, l, pref) \ Scarce(t, o, l, pref) THEN plan[w] ELSE 0
        /\ s.flushed = [w \in Warehouse |-> s.flushed[w]]
        /\ \A w \in Warehouse :
              \/ s.flushed[w] = s.reserved[w]
              \/ s.flushed[w] = t.reserved[w] /\ ~Raises(t, o, l, pref)
              \/ s.flushed[w] = t.flushed[w] /\ used = {}
        /\ s.res = t.res \o Inserted(t, o, l, pref)
        /\ s.order = [q \in Order |-> s.order[q]]
        /\ \A q \in Order \ {o} : s.order[q] = t.order[q]
        /\ Raises(t, o, l, pref) =>
              /\ s.order[o] = t.order[o]
              /\ s.unmet = t.unmet \cup {<<o, l>>} /\ s.raised = TRUE /\ s.short = t.short
        /\ ~Raises(t, o, l, pref) =>
              /\ s.order[o] = Filled(t.order[o], l, total, Needed(t, o, l) - total)
              /\ s.unmet = t.unmet \ {<<o, l>>} /\ s.raised = t.raised
              /\ s.short = (t.short \/ total < Needed(t, o, l))

LEMMA LineFields ==
    ASSUME NEW t, Shaped(t), NEW o \in Order, NEW l, NEW pref, Needed(t, o, l) # 0
    PROVE  LineEffect(AllocateLine(t, o, l, pref), t, o, l, pref)
<1> DEFINE z == AllocateLine(t, o, l, pref)
           give == Taken(t, o, l, pref)
           givers == Used(t, o, l, pref)
           sum == Total(givers, give)
           scarce == Scarce(t, o, l, pref)
           made == Made(t, o, l, pref)
           raises == Raises(t, o, l, pref)
           sorted == Ordered(made, [w \in made |-> Before(w, pref)])
           fate(w) == IF w \in scarce THEN "uncounted" ELSE IF raises THEN "taken" ELSE "booked"
           after == [w \in Warehouse |-> t.reserved[w] + IF w \in made \ scarce THEN give[w] ELSE 0]
           last(w) == w \in givers /\ \A v \in givers : v = w \/ Precedes(v, w, pref)
           flushed == [w \in Warehouse |->
                IF givers = {} THEN t.flushed[w]
                ELSE IF last(w) /\ ~raises THEN t.reserved[w] ELSE after[w]]
           added == [i \in DOMAIN sorted |->
                    [order |-> o, warehouse |-> sorted[i], quantity |-> give[sorted[i]],
                     active |-> TRUE, fate |-> fate(sorted[i])]]
           claimed == [t.order EXCEPT
                    ![o].allocated[l] = IF raises THEN @ ELSE @ + sum,
                    ![o].backorder[l] = IF raises THEN @ ELSE Needed(t, o, l) - sum]
           unfilled == IF raises THEN t.unmet \cup {<<o, l>>} ELSE t.unmet \ {<<o, l>>}
<1>1. z = [t EXCEPT
            !.reserved = after,
            !.flushed = [w \in Warehouse |->
                IF givers = {} THEN @[w]
                ELSE IF last(w) /\ ~raises THEN t.reserved[w] ELSE after[w]],
            !.res = @ \o added,
            !.order[o].allocated[l] = IF raises THEN @ ELSE @ + sum,
            !.order[o].backorder[l] = IF raises THEN @ ELSE Needed(t, o, l) - sum,
            !.unmet = IF raises THEN @ \cup {<<o, l>>} ELSE @ \ {<<o, l>>},
            !.raised = @ \/ raises,
            !.short = @ \/ (~raises /\ sum < Needed(t, o, l))]
    BY Zenon DEF AllocateLine, Taken, Used, Scarce, Made, Raises
<1> HIDE DEF z, give, givers, scarce, made, raises, sorted
<1>2. z = [flushed |-> flushed, reserved |-> after, res |-> t.res \o added, order |-> claimed,
           unmet |-> unfilled, raised |-> (t.raised \/ raises),
           short |-> (t.short \/ (~raises /\ sum < Needed(t, o, l)))]
    <2> HIDE DEF after, last, fate, added, sum
    <2> QED BY <1>1 DEF Shaped, Transaction
<1>3. \A w \in Warehouse :
            \/ flushed[w] = after[w]
            \/ flushed[w] = t.reserved[w] /\ ~raises
            \/ flushed[w] = t.flushed[w] /\ givers = {}
    OBVIOUS
<1>4. flushed = [w \in Warehouse |-> flushed[w]]
    <2> HIDE DEF last, after
    <2> QED OBVIOUS
<1> HIDE DEF flushed, after, added, claimed, unfilled, sum
<1>5. /\ z.flushed = flushed /\ z.reserved = after /\ z.res = t.res \o added /\ z.order = claimed
      /\ z.unmet = unfilled /\ z.raised = (t.raised \/ raises)
      /\ z.short = (t.short \/ (~raises /\ sum < Needed(t, o, l)))
    BY <1>2
<1>6. z = [flushed |-> z.flushed, reserved |-> z.reserved, res |-> z.res, order |-> z.order,
           unmet |-> z.unmet, raised |-> z.raised, short |-> z.short]
    BY <1>2, <1>5
<1>7. z.reserved = [w \in Warehouse |-> z.reserved[w]]
      /\ \A w \in Warehouse :
            z.reserved[w] = t.reserved[w] + IF w \in made \ scarce THEN give[w] ELSE 0
    BY <1>5 DEF after
<1>8. /\ z.flushed = [w \in Warehouse |-> z.flushed[w]]
      /\ \A w \in Warehouse :
            \/ z.flushed[w] = z.reserved[w]
            \/ z.flushed[w] = t.reserved[w] /\ ~raises
            \/ z.flushed[w] = t.flushed[w] /\ givers = {}
    BY <1>3, <1>4, <1>5
<1>9. z.res = t.res \o Inserted(t, o, l, pref)
    <2>1. added = Inserted(t, o, l, pref)
        BY DEF added, Inserted, give, scarce, made, raises, sorted
    <2> QED BY <1>5, <2>1
<1>10. /\ z.order = [q \in Order |-> z.order[q]]
       /\ \A q \in Order \ {o} : z.order[q] = t.order[q]
       /\ z.order[o] = [t.order[o] EXCEPT
            !.allocated[l] = IF raises THEN @ ELSE @ + sum,
            !.backorder[l] = IF raises THEN @ ELSE Needed(t, o, l) - sum]
    <2>1. t.order = [q \in Order |-> t.order[q]]
        BY DEF Shaped, Transaction
    <2> HIDE DEF sum
    <2>2. claimed = [t.order EXCEPT ![o] = [t.order[o] EXCEPT
            !.allocated[l] = IF raises THEN @ ELSE @ + sum,
            !.backorder[l] = IF raises THEN @ ELSE Needed(t, o, l) - sum]]
        BY <2>1 DEF claimed, Shaped, OrderRow
    <2> QED BY <1>5, <2>1, <2>2
<1>11. /\ z.unmet = IF raises THEN t.unmet \cup {<<o, l>>} ELSE t.unmet \ {<<o, l>>}
       /\ z.raised = (t.raised \/ raises)
       /\ z.short = (t.short \/ (~raises /\ sum < Needed(t, o, l)))
    BY <1>5 DEF unfilled
<1>12. raises => /\ z.order[o] = t.order[o]
                 /\ z.unmet = t.unmet \cup {<<o, l>>} /\ z.raised = TRUE /\ z.short = t.short
    <2> DEFINE row == t.order[o]
    <2>1. row \in OrderRow(o)
        BY DEF Shaped
    <2> HIDE DEF row
    <2>2. [row EXCEPT !.allocated[l] = @, !.backorder[l] = @] = row
        <3>1. [row.allocated EXCEPT ![l] = @] = row.allocated
            BY <2>1 DEF OrderRow
        <3>2. [row.backorder EXCEPT ![l] = @] = row.backorder
            BY <2>1 DEF OrderRow
        <3>3. [row EXCEPT !.allocated[l] = @, !.backorder[l] = @] =
                [row EXCEPT !.allocated = [row.allocated EXCEPT ![l] = @],
                            !.backorder = [row.backorder EXCEPT ![l] = @]]
            BY <2>1 DEF OrderRow
        <3>4. [row EXCEPT !.allocated = row.allocated, !.backorder = row.backorder] = row
            BY <2>1 DEF OrderRow
        <3> QED BY <3>1, <3>2, <3>3, <3>4
    <2>3. raises => z.order[o] = row
        BY <1>10, <2>2 DEF row
    <2> QED BY <1>11, <2>3 DEF row, Shaped, Transaction
<1>13. ~raises => /\ z.order[o] = [t.order[o] EXCEPT
                        !.allocated[l] = @ + sum, !.backorder[l] = Needed(t, o, l) - sum]
                  /\ z.unmet = t.unmet \ {<<o, l>>} /\ z.raised = t.raised
                  /\ z.short = (t.short \/ sum < Needed(t, o, l))
    BY <1>10, <1>11 DEF Shaped, Transaction
<1> QED BY <1>6, <1>7, <1>8, <1>9, <1>10, <1>12, <1>13
        DEF LineEffect, Filled, z, give, givers, sum, scarce, made, raises

(* What an allocation can take, given a session in shape. *)
LEMMA LineTakes ==
    ASSUME stock \in [Warehouse -> Nat], NEW t, Shaped(t), NEW o \in Order, NEW l,
           NEW pref, Needed(t, o, l) \in Nat \ {0}
    PROVE  LET plan == Taken(t, o, l, pref)
               used == Used(t, o, l, pref)
           IN  /\ Offer(t.flushed) \in [Warehouse -> Nat] /\ Offer(t.reserved) \in [Warehouse -> Nat]
               /\ plan \in [Warehouse -> Nat]
               /\ \A w \in Warehouse : plan[w] <= Offer(t.flushed)[w]
               /\ IsFiniteSet(used) /\ used \in SUBSET Warehouse
               /\ Total(used, plan) \in Nat /\ Total(used, plan) <= Needed(t, o, l)
               /\ ~t.order[o].partial /\ used # {} => Total(used, plan) = Needed(t, o, l)
               /\ Total(used, plan) < Needed(t, o, l) /\ used # {} =>
                     \A w \in Warehouse : plan[w] = Offer(t.flushed)[w]
<1> DEFINE offer == Offer(t.flushed)
           plan == Taken(t, o, l, pref)
           used == Used(t, o, l, pref)
           need == Needed(t, o, l)
<1>1. t.flushed \in [Warehouse -> Nat] /\ t.reserved \in [Warehouse -> Nat]
      /\ t.order[o].partial \in BOOLEAN
    BY DEF Shaped, Transaction, OrderRow
<1>2. offer \in [Warehouse -> Nat] /\ Offer(t.reserved) \in [Warehouse -> Nat]
    BY <1>1 DEF Offer, Floor
<1>3. plan = Plan(offer, need, pref, t.order[o].partial)
    BY DEF Taken
<1>4. used = Giving(plan)
    BY DEF Used, Giving
<1>5. need \in Nat \ {0}
    OBVIOUS
<1>6. /\ plan \in [Warehouse -> Nat]
      /\ \A w \in Warehouse : plan[w] <= offer[w]
      /\ IsFiniteSet(used)
      /\ Total(used, plan) \in Nat /\ Total(used, plan) <= need
      /\ ~t.order[o].partial /\ used # {} => Total(used, plan) = need
      /\ Total(used, plan) < need /\ used # {} => \A w \in Warehouse : plan[w] = offer[w]
    <2> HIDE DEF offer, need
    <2> HIDE DEF plan, used
    <2> QED BY <1>1, <1>2, <1>3, <1>4, <1>5, PlansFit
<1> HIDE DEF offer, plan, used, need
<1>7. used \in SUBSET Warehouse
    BY <1>4 DEF Giving
<1> QED BY <1>2, <1>6, <1>7 DEF offer, plan, used, need

(* The reservations it inserts: one for each warehouse in Made. *)
Inserts(s, t, o, l, pref) ==
    LET new == DOMAIN s.res \ DOMAIN t.res
    IN  /\ s.res \in Seq(Reservation) /\ IsFiniteSet(new) /\ DOMAIN t.res \subseteq DOMAIN s.res
        /\ \A i \in DOMAIN t.res : s.res[i] = t.res[i]
        /\ \A i \in new :
              /\ s.res[i].warehouse \in Made(t, o, l, pref)
              /\ s.res[i].order = o /\ s.res[i].active = TRUE
              /\ s.res[i].quantity = Taken(t, o, l, pref)[s.res[i].warehouse]
              /\ s.res[i].fate = IF s.res[i].warehouse \in Scarce(t, o, l, pref) THEN "uncounted"
                                 ELSE IF Raises(t, o, l, pref) THEN "taken" ELSE "booked"
        /\ \A i, j \in new : s.res[i].warehouse = s.res[j].warehouse => i = j
        /\ \A w \in Made(t, o, l, pref) : \E i \in new : s.res[i].warehouse = w

LEMMA LineTable ==
    ASSUME stock \in [Warehouse -> Nat], NEW t, Shaped(t), NEW o \in Order, NEW l,
           NEW pref, Needed(t, o, l) \in Nat \ {0}
    PROVE  Inserts(AllocateLine(t, o, l, pref), t, o, l, pref)
<1> DEFINE s == AllocateLine(t, o, l, pref)
           plan == Taken(t, o, l, pref)
           used == Used(t, o, l, pref)
           scarce == Scarce(t, o, l, pref)
           made == Made(t, o, l, pref)
           raises == Raises(t, o, l, pref)
           sorted == Ordered(made, [w \in made |-> Before(w, pref)])
           k == Cardinality(made)
           n == Len(t.res)
           added == [i \in DOMAIN sorted |->
                    [order |-> o, warehouse |-> sorted[i], quantity |-> plan[sorted[i]],
                     active |-> TRUE,
                     fate |-> IF sorted[i] \in scarce THEN "uncounted"
                              ELSE IF raises THEN "taken" ELSE "booked"]]
           new == n + 1 .. n + k
<1>1. t \in Transaction /\ t.res \in Seq(Reservation)
    BY DEF Shaped, Transaction
<1>2. s.res = t.res \o added
    <2>1. Needed(t, o, l) # 0
        OBVIOUS
    <2>2. s.res = t.res \o Inserted(t, o, l, pref)
        <3>1. LineEffect(s, t, o, l, pref)
            BY <2>1, LineFields
        <3> QED BY <3>1 DEF LineEffect
    <2>3. added = Inserted(t, o, l, pref)
        BY DEF Inserted
    <2> QED BY <2>2, <2>3
<1>3. plan \in [Warehouse -> Nat] /\ IsFiniteSet(used) /\ used \in SUBSET Warehouse
    BY LineTakes
<1>4. made \in SUBSET used /\ \A w \in made : plan[w] > 0
    BY DEF Made, Used
<1>5. IsFiniteSet(made)
    BY <1>3, <1>4, FS_Subset
<1> HIDE DEF s, plan, used, scarce, made, raises
<1>6. /\ k \in Nat
      /\ sorted \in [1 .. k -> made]
      /\ \A i, j \in 1 .. k : sorted[i] = sorted[j] => i = j
      /\ \A w \in made : \E i \in 1 .. k : sorted[i] = w
    <2> DEFINE before == [w \in made |-> Before(w, pref)]
    <2>1. made \in SUBSET Warehouse /\ \A w \in made : before[w] = Before(w, pref)
        BY <1>3, <1>4
    <2>2. \A x \in made : x \notin before[x]
        BY <2>1, RankingIsOrder
    <2>3. \A x, y \in made : x # y => x \in before[y] \/ y \in before[x]
        BY <2>1, RankingIsOrder
    <2>4. \A x, y, z \in made : x \in before[y] /\ y \in before[z] => x \in before[z]
        BY <2>1, RankingIsOrder
    <2> HIDE DEF before
    <2>5. /\ Cardinality(made) \in Nat
          /\ Ordered(made, before) \in [1 .. Cardinality(made) -> made]
          /\ \A i, j \in 1 .. Cardinality(made) :
                Ordered(made, before)[i] = Ordered(made, before)[j] => i = j
          /\ \A x \in made : \E i \in 1 .. Cardinality(made) : Ordered(made, before)[i] = x
        BY <1>5, <2>2, <2>3, <2>4, OrderedLists
    <2> QED BY <2>5 DEF before
<1> HIDE DEF sorted, k
<1>7. DOMAIN sorted = 1 .. k
    BY <1>6
<1>8. \A i \in 1 .. k : added[i] \in Reservation
    <2> TAKE i \in 1 .. k
    <2>1. sorted[i] \in made /\ sorted[i] \in Warehouse
        BY <1>3, <1>4, <1>6
    <2>2. plan[sorted[i]] \in Nat \ {0}
        BY <1>3, <1>4, <2>1
    <2> QED BY <1>7, <2>1, <2>2 DEF Reservation, Fate
<1>9. added \in Seq(Reservation) /\ Len(added) = k
    <2>1. added = [i \in 1 .. k |-> added[i]]
        BY <1>7
    <2> HIDE DEF added
    <2> QED BY <1>6, <1>8, <2>1
<1>10. /\ \A i \in 1 .. k : added[i].warehouse \in made
       /\ \A i \in 1 .. k : added[i].order = o /\ added[i].active = TRUE
                            /\ added[i].quantity = plan[added[i].warehouse]
       /\ \A i \in 1 .. k : added[i].fate = IF added[i].warehouse \in scarce THEN "uncounted"
                                            ELSE IF raises THEN "taken" ELSE "booked"
       /\ \A i, j \in 1 .. k : added[i].warehouse = added[j].warehouse => i = j
       /\ \A w \in made : \E i \in 1 .. k : added[i].warehouse = w
    BY <1>6, <1>7
<1> HIDE DEF added
<1>11. n \in Nat /\ DOMAIN t.res = 1 .. n
    BY <1>1
<1>12. /\ s.res \in Seq(Reservation) /\ Len(s.res) = n + k
       /\ \A i \in 1 .. n : s.res[i] = t.res[i]
       /\ \A i \in new : s.res[i] = added[i - n]
    BY <1>1, <1>2, <1>6, <1>9, <1>11
<1>13. DOMAIN s.res = 1 .. n + k
    BY <1>12
<1> HIDE DEF n
<1>14. \A i \in new : i - n \in 1 .. k
    BY <1>6, <1>11
<1>15. \A i \in 1 .. k : n + i \in new /\ (n + i) - n = i
    BY <1>6, <1>11
<1>16. IsFiniteSet(new) /\ new \cap (1 .. n) = {} /\ 1 .. n + k = (1 .. n) \cup new
    <2>1. n + 1 \in Int /\ n + k \in Int
        BY <1>6, <1>11
    <2>2. IsFiniteSet(n + 1 .. n + k)
        BY <2>1, FS_Interval
    <2> QED BY <1>6, <1>11, <2>2
<1>17. \A i \in new : /\ s.res[i].warehouse \in made
                      /\ s.res[i].order = o /\ s.res[i].active = TRUE
                      /\ s.res[i].quantity = plan[s.res[i].warehouse]
                      /\ s.res[i].fate = IF s.res[i].warehouse \in scarce THEN "uncounted"
                                         ELSE IF raises THEN "taken" ELSE "booked"
    BY <1>10, <1>12, <1>14
<1>18. \A i, j \in new : s.res[i].warehouse = s.res[j].warehouse => i = j
    <2> TAKE i, j \in new
    <2> HAVE s.res[i].warehouse = s.res[j].warehouse
    <2>1. i - n = j - n
        BY <1>10, <1>12, <1>14
    <2> QED BY <1>6, <1>11, <2>1
<1>19. \A w \in made : \E i \in new : s.res[i].warehouse = w
    <2> TAKE w \in made
    <2>1. PICK i \in 1 .. k : added[i].warehouse = w
        BY <1>10
    <2>2. n + i \in new /\ s.res[n + i] = added[i]
        BY <1>12, <1>15
    <2> QED BY <2>1, <2>2
<1> HIDE DEF new
<1>20. IsFiniteSet(new) /\ new = DOMAIN s.res \ DOMAIN t.res /\ DOMAIN t.res \subseteq DOMAIN s.res
    BY <1>11, <1>13, <1>16
<1>21. s.res \in Seq(Reservation) /\ \A i \in DOMAIN t.res : s.res[i] = t.res[i]
    BY <1>11, <1>12
<1> QED BY <1>17, <1>18, <1>19, <1>20, <1>21, Zenon
        DEF Inserts, s, plan, scarce, made, raises

-----------------------------------------------------------------------------
(* What reservations hold.  A table that grows holds what it held, and what *)
(* the new reservations hold.                                               *)
ActiveIn(table, w) == {i \in DOMAIN table : table[i].active /\ table[i].warehouse = w}
LostIn(table, w) == {i \in DOMAIN table : table[i].warehouse = w /\ table[i].fate = "uncounted"}
BookedIn(table, o) == {i \in DOMAIN table : table[i].order = o /\ table[i].fate = "booked"}

LEMMA HeldNatural ==
    ASSUME NEW table \in Seq(Reservation), NEW T \in SUBSET DOMAIN table
    PROVE  /\ IsFiniteSet(T) /\ HeldIn(table, T) \in Nat
           /\ \A i \in DOMAIN table : /\ table[i].quantity \in Nat
                                      /\ [j \in DOMAIN table |-> table[j].quantity][i] \in Nat
<1>1. DOMAIN table = 1 .. Len(table) /\ Len(table) \in Nat
    OBVIOUS
<1>2. IsFiniteSet(1 .. Len(table))
    BY <1>1, FS_Interval
<1>3. IsFiniteSet(T)
    BY <1>1, <1>2, FS_Subset
<1>4. \A i \in DOMAIN table : table[i] \in Reservation
    BY <1>1
<1>5. \A i \in DOMAIN table : table[i].quantity \in Nat
    BY <1>4 DEF Reservation
<1> QED BY <1>3, <1>5, TotalType DEF HeldIn

Grown(old, table) ==
    /\ old \in Seq(Reservation) /\ table \in Seq(Reservation)
    /\ DOMAIN old \subseteq DOMAIN table /\ \A i \in DOMAIN old : table[i] = old[i]

LEMMA HeldGrows ==
    ASSUME NEW old, NEW table, Grown(old, table),
           NEW T \in SUBSET DOMAIN old, NEW K \in SUBSET (DOMAIN table \ DOMAIN old)
    PROVE  HeldIn(table, T \cup K) = HeldIn(old, T) + HeldIn(table, K)
<1> DEFINE p == [i \in DOMAIN old |-> old[i].quantity]
           q == [i \in DOMAIN table |-> table[i].quantity]
<1>1. T \in SUBSET DOMAIN table /\ K \in SUBSET DOMAIN table /\ T \cap K = {}
    BY DEF Grown
<1>2. IsFiniteSet(T) /\ IsFiniteSet(K) /\ \A i \in DOMAIN table : q[i] \in Nat
    BY <1>1, HeldNatural DEF Grown
<1>3. \A i \in T : p[i] = q[i]
    BY <1>1 DEF Grown
<1> HIDE DEF p, q
<1>4. Total(T \cup K, q) = Total(T, q) + Total(K, q)
    BY <1>1, <1>2, TotalUnion
<1>5. Total(T, p) = Total(T, q)
    BY <1>3, TotalSame
<1> QED BY <1>4, <1>5 DEF HeldIn, p, q
(* What an allocation adds to the units held at each warehouse and booked   *)
(* for each order.                                                          *)
Holds(s, t, o, l, pref) ==
    LET plan == Taken(t, o, l, pref)
        made == Made(t, o, l, pref)
    IN  /\ \A w \in Warehouse :
              /\ HeldIn(s.res, ActiveIn(s.res, w)) =
                    HeldIn(t.res, ActiveIn(t.res, w)) + IF w \in made THEN plan[w] ELSE 0
              /\ HeldIn(s.res, LostIn(s.res, w)) =
                    HeldIn(t.res, LostIn(t.res, w)) +
                        IF w \in made \cap Scarce(t, o, l, pref) THEN plan[w] ELSE 0
        /\ HeldIn(s.res, BookedIn(s.res, o)) =
              HeldIn(t.res, BookedIn(t.res, o)) +
                 IF Raises(t, o, l, pref) THEN 0 ELSE Total(Used(t, o, l, pref), plan)
        /\ \A p \in Order \ {o} :
              HeldIn(s.res, BookedIn(s.res, p)) = HeldIn(t.res, BookedIn(t.res, p))

LEMMA HeldByOne ==
    ASSUME NEW table \in Seq(Reservation), NEW K \in SUBSET DOMAIN table,
           NEW i \in DOMAIN table, K = {i}
    PROVE  HeldIn(table, K) = table[i].quantity
<1> DEFINE q == [j \in DOMAIN table |-> table[j].quantity]
<1>1. q[i] \in Nat /\ q[i] = table[i].quantity
    BY HeldNatural
<1> HIDE DEF q
<1>2. Total({i}, q) = q[i]
    BY <1>1, TotalSingleton
<1> QED BY <1>1, <1>2 DEF HeldIn, q

LEMMA HeldSame ==
    ASSUME NEW old, NEW table, DOMAIN old \subseteq DOMAIN table,
           \A i \in DOMAIN old : table[i] = old[i], NEW T \in SUBSET DOMAIN old
    PROVE  HeldIn(table, T) = HeldIn(old, T)
<1> DEFINE p == [i \in DOMAIN old |-> old[i].quantity]
           q == [i \in DOMAIN table |-> table[i].quantity]
<1>1. \A i \in T : p[i] = q[i]
    OBVIOUS
<1> HIDE DEF p, q
<1>2. Total(T, p) = Total(T, q)
    BY <1>1, TotalSame
<1> QED BY <1>2 DEF HeldIn, p, q

LEMMA HeldByNone == ASSUME NEW table PROVE HeldIn(table, {}) = 0
BY TotalEmpty DEF HeldIn

LEMMA LineHolds ==
    ASSUME stock \in [Warehouse -> Nat], NEW t, Shaped(t), NEW o \in Order, NEW l,
           NEW pref, Needed(t, o, l) \in Nat \ {0}
    PROVE  Holds(AllocateLine(t, o, l, pref), t, o, l, pref)
<1> DEFINE s == AllocateLine(t, o, l, pref)
           plan == Taken(t, o, l, pref)
           used == Used(t, o, l, pref)
           scarce == Scarce(t, o, l, pref)
           made == Made(t, o, l, pref)
           raises == Raises(t, o, l, pref)
           old == t.res
           table == s.res
           new == DOMAIN table \ DOMAIN old
           At(w) == {i \in new : table[i].warehouse = w}
<1>1. old \in Seq(Reservation)
    BY DEF Shaped, Transaction
<1>2. Inserts(s, t, o, l, pref)
    BY LineTable
<1>3. /\ table \in Seq(Reservation) /\ IsFiniteSet(new) /\ DOMAIN old \subseteq DOMAIN table
      /\ \A i \in DOMAIN old : table[i] = old[i]
      /\ \A i \in new :
              /\ table[i].warehouse \in made
              /\ table[i].order = o /\ table[i].active = TRUE
              /\ table[i].quantity = plan[table[i].warehouse]
              /\ table[i].fate = IF table[i].warehouse \in scarce THEN "uncounted"
                                 ELSE IF raises THEN "taken" ELSE "booked"
      /\ \A i, j \in new : table[i].warehouse = table[j].warehouse => i = j
      /\ \A w \in made : \E i \in new : table[i].warehouse = w
    BY <1>2, Zenon DEF Inserts
<1>4. made \in SUBSET used /\ (~raises => scarce = {} /\ made = used)
    BY DEF Made, Raises
<1>5. plan \in [Warehouse -> Nat] /\ IsFiniteSet(used) /\ used \in SUBSET Warehouse
    BY LineTakes
<1>a. \A i \in new : table[i].warehouse \in made
    BY <1>3
<1>b. \A i, j \in new : table[i].warehouse = table[j].warehouse => i = j
    BY <1>3
<1>c. \A w \in made : \E i \in new : table[i].warehouse = w
    BY <1>3
<1>d. \A i \in new : table[i].active = TRUE /\ table[i].quantity = plan[table[i].warehouse]
    BY <1>3
<1>g. Grown(old, table)
    BY <1>1, <1>3 DEF Grown
<1>h. ASSUME NEW T \in SUBSET DOMAIN old, NEW K \in SUBSET (DOMAIN table \ DOMAIN old)
      PROVE  HeldIn(table, T \cup K) = HeldIn(old, T) + HeldIn(table, K)
    <2> HIDE DEF old, table
    <2> QED BY <1>g, HeldGrows
<1>n. new \in SUBSET (DOMAIN table \ DOMAIN old) /\ new \in SUBSET DOMAIN table
      /\ \A i : i \in DOMAIN table <=> i \in DOMAIN old \/ i \in new
    BY <1>3
<1> HIDE DEF s, plan, used, scarce, made, raises, old, table, new
<1>6. ASSUME NEW w \in Warehouse
      PROVE  /\ At(w) \in SUBSET new
             /\ HeldIn(table, At(w)) = IF w \in made THEN plan[w] ELSE 0
    <2>1. CASE w \in made
        <3>1. PICK i \in new : table[i].warehouse = w
            BY <1>c, <2>1
        <3>2. At(w) = {i}
            BY <1>b, <3>1
        <3>3. i \in DOMAIN table /\ At(w) \in SUBSET DOMAIN table
            BY <1>n, <3>1
        <3>4. HeldIn(table, At(w)) = table[i].quantity
            <4> HIDE DEF At
            <4> QED BY <1>3, <3>2, <3>3, HeldByOne
        <3>5. table[i].quantity = plan[w]
            BY <1>3, <3>1
        <3> QED BY <2>1, <3>4, <3>5
    <2>2. CASE w \notin made
        <3>1. At(w) = {}
            BY <1>a, <2>2
        <3>2. HeldIn(table, At(w)) = 0
            <4> HIDE DEF At
            <4> QED BY <3>1, HeldByNone
        <3> QED BY <2>2, <3>2
    <2> QED BY <2>1, <2>2
<1>7. ASSUME NEW w \in Warehouse
      PROVE  HeldIn(table, ActiveIn(table, w)) =
                HeldIn(old, ActiveIn(old, w)) + IF w \in made THEN plan[w] ELSE 0
    <2> DEFINE here == At(w)
    <2>1. ActiveIn(table, w) = ActiveIn(old, w) \cup here
        <3>1. ASSUME NEW i \in new
              PROVE  i \in ActiveIn(table, w) <=> i \in here
            BY <1>d, <1>n DEF ActiveIn
        <3>2. ASSUME NEW i \in DOMAIN old
              PROVE  i \in ActiveIn(table, w) <=> i \in ActiveIn(old, w)
            BY <1>3 DEF ActiveIn
        <3>3. ActiveIn(table, w) \subseteq DOMAIN table /\ ActiveIn(old, w) \subseteq DOMAIN old
              /\ here \subseteq new /\ new \cap DOMAIN old = {}
            BY <1>n DEF ActiveIn
        <3> HIDE DEF here
        <3> QED BY <1>n, <3>1, <3>2, <3>3
    <2>2. ActiveIn(old, w) \in SUBSET DOMAIN old /\ here \in SUBSET (DOMAIN table \ DOMAIN old)
        BY <1>n DEF ActiveIn
    <2>3. HeldIn(table, here) = IF w \in made THEN plan[w] ELSE 0
        BY <1>6
    <2> HIDE DEF here
    <2>4. HeldIn(table, ActiveIn(old, w) \cup here) =
                HeldIn(old, ActiveIn(old, w)) + HeldIn(table, here)
        BY <1>h, <2>2
    <2> QED BY <2>1, <2>3, <2>4
<1>8. ASSUME NEW w \in Warehouse
      PROVE  HeldIn(table, LostIn(table, w)) =
                HeldIn(old, LostIn(old, w)) + IF w \in made \cap scarce THEN plan[w] ELSE 0
    <2> DEFINE lost == IF w \in scarce THEN At(w) ELSE {}
    <2>1. LostIn(table, w) = LostIn(old, w) \cup lost
        <3>1. ASSUME NEW i \in new
              PROVE  i \in LostIn(table, w) <=> i \in lost
            <4>1. i \in LostIn(table, w) <=>
                        table[i].warehouse = w /\ table[i].fate = "uncounted"
                BY <1>n DEF LostIn
            <4>2. table[i].fate = "uncounted" <=> table[i].warehouse \in scarce
                BY <1>3
            <4>3. i \in lost <=> table[i].warehouse = w /\ w \in scarce
                OBVIOUS
            <4> HIDE DEF lost
            <4> QED BY <4>1, <4>2, <4>3
        <3>2. ASSUME NEW i \in DOMAIN old
              PROVE  i \in LostIn(table, w) <=> i \in LostIn(old, w)
            BY <1>3 DEF LostIn
        <3>3. LostIn(table, w) \subseteq DOMAIN table /\ LostIn(old, w) \subseteq DOMAIN old
              /\ lost \subseteq new /\ new \cap DOMAIN old = {}
            BY <1>n DEF LostIn
        <3> HIDE DEF lost
        <3> QED BY <1>n, <3>1, <3>2, <3>3
    <2>2. LostIn(old, w) \in SUBSET DOMAIN old /\ lost \in SUBSET (DOMAIN table \ DOMAIN old)
        BY <1>n DEF LostIn
    <2>3. HeldIn(table, lost) = IF w \in made \cap scarce THEN plan[w] ELSE 0
        BY <1>6, HeldByNone
    <2> HIDE DEF lost
    <2>4. HeldIn(table, LostIn(old, w) \cup lost) = HeldIn(old, LostIn(old, w)) + HeldIn(table, lost)
        BY <1>h, <2>2
    <2> QED BY <2>1, <2>3, <2>4
<1>9. ASSUME ~raises PROVE HeldIn(table, new) = Total(used, plan)
    <2> DEFINE place == [i \in new |-> table[i].warehouse]
               q == [i \in DOMAIN table |-> table[i].quantity]
    <2>1. place \in [new -> used]
        BY <1>3, <1>4
    <2>2. \A i, j \in new : place[i] = place[j] => i = j
        BY <1>3
    <2>3. \A w \in used : \E i \in new : place[i] = w
        BY <1>3, <1>4, <1>9
    <2>4. \A i \in new : q[i] \in Nat /\ plan[place[i]] = q[i]
        <3>1. \A i \in new : q[i] \in Nat /\ q[i] = table[i].quantity
            BY <1>3, <1>n, HeldNatural
        <3> QED BY <1>3, <3>1
    <2>5. IsFiniteSet(new)
        BY <1>3
    <2> HIDE DEF place, q
    <2>6. Total(used, plan) = Total(new, q)
        BY <2>1, <2>2, <2>3, <2>4, <2>5, TotalRenamed
    <2> QED BY <2>6 DEF HeldIn, q
<1>10. HeldIn(table, BookedIn(table, o)) =
            HeldIn(old, BookedIn(old, o)) + IF raises THEN 0 ELSE Total(used, plan)
    <2> DEFINE claimed == IF raises THEN {} ELSE new
    <2>1. BookedIn(table, o) = BookedIn(old, o) \cup claimed
        <3>1. ASSUME NEW i \in new
              PROVE  i \in BookedIn(table, o) <=> i \in claimed
            <4>1. i \in BookedIn(table, o) <=> table[i].fate = "booked"
                BY <1>3, <1>n DEF BookedIn
            <4>2. table[i].fate = "booked" <=> ~raises
                BY <1>3, <1>4
            <4> QED BY <4>1, <4>2
        <3>2. ASSUME NEW i \in DOMAIN old
              PROVE  i \in BookedIn(table, o) <=> i \in BookedIn(old, o)
            BY <1>3 DEF BookedIn
        <3>3. BookedIn(table, o) \subseteq DOMAIN table /\ BookedIn(old, o) \subseteq DOMAIN old
              /\ claimed \subseteq new /\ new \cap DOMAIN old = {}
            BY <1>n DEF BookedIn
        <3> HIDE DEF claimed
        <3> QED BY <1>n, <3>1, <3>2, <3>3
    <2>2. BookedIn(old, o) \in SUBSET DOMAIN old /\ claimed \in SUBSET (DOMAIN table \ DOMAIN old)
        BY <1>n DEF BookedIn
    <2>3. HeldIn(table, claimed) = IF raises THEN 0 ELSE Total(used, plan)
        BY <1>9, HeldByNone
    <2> HIDE DEF claimed
    <2>4. HeldIn(table, BookedIn(old, o) \cup claimed) =
                HeldIn(old, BookedIn(old, o)) + HeldIn(table, claimed)
        BY <1>h, <2>2
    <2> QED BY <2>1, <2>3, <2>4
<1>11. ASSUME NEW p \in Order \ {o}
       PROVE  HeldIn(table, BookedIn(table, p)) = HeldIn(old, BookedIn(old, p))
    <2>1. BookedIn(table, p) = BookedIn(old, p)
        <3>1. ASSUME NEW i \in new PROVE i \notin BookedIn(table, p)
            BY <1>3 DEF BookedIn
        <3>2. ASSUME NEW i \in DOMAIN old
              PROVE  i \in BookedIn(table, p) <=> i \in BookedIn(old, p)
            BY <1>3 DEF BookedIn
        <3>3. BookedIn(table, p) \subseteq DOMAIN table /\ BookedIn(old, p) \subseteq DOMAIN old
            BY DEF BookedIn
        <3> QED BY <1>n, <3>1, <3>2, <3>3
    <2>2. BookedIn(old, p) \in SUBSET DOMAIN old
        BY DEF BookedIn
    <2>3. DOMAIN old \subseteq DOMAIN table /\ \A i \in DOMAIN old : table[i] = old[i]
        BY <1>g DEF Grown
    <2> HIDE DEF old, table
    <2> QED BY <2>1, <2>2, <2>3, HeldSame
<1> QED BY <1>7, <1>8, <1>10, <1>11, Zenon
        DEF Holds, table, old, s, plan, used, scarce, made, raises
-----------------------------------------------------------------------------
(* What every step of a call keeps of its session: the counters known to    *)
(* the ranking lag behind, no unit is counted that is not held and none but *)
(* the uncounted ones is missed, and the lines agree with the reservations. *)
Lag(t) == \A w \in Warehouse : t.flushed[w] <= t.reserved[w]

Counted(t) ==
    \A w \in Warehouse :
        LET drift == HeldIn(t.res, ActiveIn(t.res, w)) - t.reserved[w]
        IN  0 <= drift /\ drift <= HeldIn(t.res, LostIn(t.res, w))

LinesFit(t, o) ==
    /\ Total(DOMAIN Lines[o], t.order[o].allocated) = HeldIn(t.res, BookedIn(t.res, o))
    /\ \A l \in DOMAIN Lines[o] :
          /\ t.order[o].allocated[l] + t.order[o].backorder[l] \in {0, Lines[o][l]}
          /\ ~t.order[o].partial => t.order[o].allocated[l] \in {0, Lines[o][l]}

Balanced(t) == Shaped(t) /\ Counted(t) /\ \A o \in Order : LinesFit(t, o)
Sound(t) == Shaped(t) /\ Lag(t) /\ Counted(t) /\ \A o \in Order : LinesFit(t, o)

(* The lines of an order. *)
LEMMA LinesOf ==
    ASSUME NEW o \in Order
    PROVE  /\ Lines[o] \in Seq(Nat \ {0}) /\ Len(Lines[o]) \in Nat
           /\ DOMAIN Lines[o] = 1 .. Len(Lines[o]) /\ IsFiniteSet(DOMAIN Lines[o])
           /\ \A l \in DOMAIN Lines[o] : l \in Nat /\ Lines[o][l] \in Nat \ {0}
<1>1. Lines[o] \in Seq(Nat \ {0})
    BY OrderLinesOK
<1>2. Len(Lines[o]) \in Nat /\ DOMAIN Lines[o] = 1 .. Len(Lines[o])
    BY <1>1
<1>3. IsFiniteSet(1 .. Len(Lines[o]))
    BY <1>2, FS_Interval
<1> QED BY <1>1, <1>2, <1>3

LEMMA RowOf ==
    ASSUME NEW t, Shaped(t), NEW o \in Order
    PROVE  /\ t.order[o].allocated \in [DOMAIN Lines[o] -> Nat]
           /\ t.order[o].backorder \in [DOMAIN Lines[o] -> Nat]
           /\ t.order[o].partial \in BOOLEAN
           /\ t.order[o].plan \in [Warehouse -> {"none", "planned", "executing"}]
           /\ t.order[o].shipments \in [Warehouse -> Nat]
           /\ t.order[o].status \in OrderStatus /\ t.order[o].by \in Author
BY DEF Shaped, OrderRow

(* What a line lacks. *)
LEMMA LineNeeds ==
    ASSUME NEW t, Shaped(t), NEW o \in Order, LinesFit(t, o), NEW l \in DOMAIN Lines[o]
    PROVE  /\ Needed(t, o, l) \in Nat /\ Needed(t, o, l) = Lines[o][l] - t.order[o].allocated[l]
           /\ t.order[o].allocated[l] \in Nat /\ t.order[o].backorder[l] \in Nat
           /\ Lines[o][l] \in Nat \ {0}
<1>1. t.order[o].allocated[l] \in Nat /\ t.order[o].backorder[l] \in Nat
    BY RowOf
<1>2. Lines[o][l] \in Nat \ {0}
    BY LinesOf
<1>3. t.order[o].allocated[l] + t.order[o].backorder[l] \in {0, Lines[o][l]}
    BY DEF LinesFit
<1> QED BY <1>1, <1>2, <1>3 DEF Needed

(* What that row says of the line, and of the others. *)
Fills(new, row, o, l, m, n) ==
    /\ new \in OrderRow(o)
    /\ new.status = row.status /\ new.partial = row.partial /\ new.by = row.by
    /\ new.allocated[l] = row.allocated[l] + m /\ new.backorder[l] = n
    /\ \A k \in DOMAIN Lines[o] \ {l} : /\ new.allocated[k] = row.allocated[k]
                                        /\ new.backorder[k] = row.backorder[k]

LEMMA LineRow ==
    ASSUME NEW row, NEW o \in Order, row \in OrderRow(o), NEW l \in DOMAIN Lines[o],
           NEW m \in Nat, NEW n \in Nat
    PROVE  Fills(Filled(row, l, m, n), row, o, l, m, n)
<1>1. row.allocated \in [DOMAIN Lines[o] -> Nat] /\ row.backorder \in [DOMAIN Lines[o] -> Nat]
    BY DEF OrderRow
<1> DEFINE allocated == [row.allocated EXCEPT ![l] = @ + m]
           backorder == [row.backorder EXCEPT ![l] = n]
<1>2. /\ allocated \in [DOMAIN Lines[o] -> Nat] /\ backorder \in [DOMAIN Lines[o] -> Nat]
      /\ allocated[l] = row.allocated[l] + m /\ backorder[l] = n
      /\ \A k \in DOMAIN Lines[o] \ {l} : /\ allocated[k] = row.allocated[k]
                                          /\ backorder[k] = row.backorder[k]
    BY <1>1
<1>3. Filled(row, l, m, n) = [row EXCEPT !.allocated = allocated, !.backorder = backorder]
    BY DEF OrderRow, Filled
<1> HIDE DEF allocated, backorder
<1>4. [row EXCEPT !.allocated = allocated, !.backorder = backorder] \in OrderRow(o)
    BY <1>2 DEF OrderRow
<1> QED BY <1>2, <1>3, <1>4 DEF OrderRow, Fills

LEMMA LineShaped ==
    ASSUME stock \in [Warehouse -> Nat], NEW t, Shaped(t), NEW o \in Order,
           NEW l \in DOMAIN Lines[o], NEW pref, Needed(t, o, l) \in Nat \ {0}
    PROVE  Shaped(AllocateLine(t, o, l, pref))
<1> DEFINE s == AllocateLine(t, o, l, pref)
           plan == Taken(t, o, l, pref)
           used == Used(t, o, l, pref)
           made == Made(t, o, l, pref)
           scarce == Scarce(t, o, l, pref)
           raises == Raises(t, o, l, pref)
           sum == Total(used, plan)
           need == Needed(t, o, l)
<1>1. /\ plan \in [Warehouse -> Nat] /\ sum \in Nat /\ sum <= need /\ need \in Nat
    BY LineTakes
<1>2. t.reserved \in [Warehouse -> Nat] /\ t.flushed \in [Warehouse -> Nat]
      /\ t.order \in [Order -> UNION {OrderRow(p) : p \in Order}]
      /\ \A p \in Order : t.order[p] \in OrderRow(p)
      /\ t.unmet \in SUBSET (Order \X Nat) /\ t.raised \in BOOLEAN /\ t.short \in BOOLEAN
    BY DEF Shaped, Transaction
<1>3. LineEffect(s, t, o, l, pref)
    <2>1. need # 0
        OBVIOUS
    <2> QED BY <2>1, LineFields
<1>4. s.res \in Seq(Reservation)
    <2>1. Inserts(s, t, o, l, pref)
        BY LineTable
    <2> QED BY <2>1 DEF Inserts
<1>5. /\ s = [flushed |-> s.flushed, reserved |-> s.reserved, res |-> s.res,
              order |-> s.order, unmet |-> s.unmet, raised |-> s.raised, short |-> s.short]
      /\ s.reserved = [w \in Warehouse |-> s.reserved[w]]
      /\ \A w \in Warehouse :
              s.reserved[w] = t.reserved[w] + IF w \in made \ scarce THEN plan[w] ELSE 0
      /\ s.flushed = [w \in Warehouse |-> s.flushed[w]]
      /\ \A w \in Warehouse :
              \/ s.flushed[w] = s.reserved[w]
              \/ s.flushed[w] = t.reserved[w] /\ ~raises
              \/ s.flushed[w] = t.flushed[w] /\ used = {}
      /\ s.order = [q \in Order |-> s.order[q]]
      /\ \A q \in Order \ {o} : s.order[q] = t.order[q]
    BY <1>3 DEF LineEffect
<1>6. raises => /\ s.order[o] = t.order[o]
                /\ s.unmet = t.unmet \cup {<<o, l>>} /\ s.raised = TRUE /\ s.short = t.short
    BY <1>3 DEF LineEffect
<1>7. ~raises =>
              /\ s.order[o] = Filled(t.order[o], l, sum, need - sum)
              /\ s.unmet = t.unmet \ {<<o, l>>} /\ s.raised = t.raised
              /\ s.short = (t.short \/ sum < need)
    BY <1>3, Zenon DEF LineEffect, Filled
<1> HIDE DEF s, plan, used, made, scarce, raises, sum, need
<1>8. \A w \in Warehouse : s.reserved[w] \in Nat /\ s.flushed[w] \in Nat
    BY <1>1, <1>2, <1>5
<1>9. s.reserved \in [Warehouse -> Nat] /\ s.flushed \in [Warehouse -> Nat]
    BY <1>5, <1>8
<1>10. need - sum \in Nat
    BY <1>1
<1>11. s.order[o] \in OrderRow(o)
    <2>1. CASE raises
        BY <1>2, <1>6, <2>1
    <2>2. CASE ~raises
        <3>1. Fills(Filled(t.order[o], l, sum, need - sum), t.order[o], o, l, sum, need - sum)
            BY <1>1, <1>2, <1>10, LineRow
        <3> QED BY <1>7, <2>2, <3>1 DEF Fills
    <2> QED BY <2>1, <2>2
<1>12. \A p \in Order : s.order[p] \in OrderRow(p)
    BY <1>2, <1>5, <1>11
<1>13. s.order \in [Order -> UNION {OrderRow(p) : p \in Order}]
    BY <1>5, <1>12
<1>14. l \in Nat
    BY LinesOf
<1>15. s.unmet \in SUBSET (Order \X Nat) /\ s.raised \in BOOLEAN /\ s.short \in BOOLEAN
    <2>1. t.unmet \cup {<<o, l>>} \in SUBSET (Order \X Nat)
          /\ t.unmet \ {<<o, l>>} \in SUBSET (Order \X Nat)
        BY <1>2, <1>14
    <2>2. CASE raises
        BY <1>2, <1>6, <2>1, <2>2
    <2>3. CASE ~raises
        <3>1. s.unmet \in SUBSET (Order \X Nat)
            BY <1>7, <2>1, <2>3, Zenon
        <3>2. s.raised \in BOOLEAN
            BY <1>2, <1>7, <2>3, Zenon
        <3>3. s.short \in BOOLEAN
            BY <1>7, <2>3
        <3> QED BY <3>1, <3>2, <3>3
    <2> QED BY <2>2, <2>3
<1>16. s \in Transaction
    BY <1>4, <1>5, <1>9, <1>13, <1>15 DEF Transaction
<1> QED BY <1>12, <1>16 DEF Shaped, s
LEMMA LineCounts ==
    ASSUME stock \in [Warehouse -> Nat], NEW t, Shaped(t), Lag(t), Counted(t),
           NEW o \in Order, NEW l \in DOMAIN Lines[o], NEW pref,
           Needed(t, o, l) \in Nat \ {0}
    PROVE  Lag(AllocateLine(t, o, l, pref)) /\ Counted(AllocateLine(t, o, l, pref))
<1> DEFINE s == AllocateLine(t, o, l, pref)
           plan == Taken(t, o, l, pref)
           used == Used(t, o, l, pref)
           made == Made(t, o, l, pref)
           scarce == Scarce(t, o, l, pref)
           raises == Raises(t, o, l, pref)
           standing(w) == HeldIn(t.res, ActiveIn(t.res, w))
           lost(w) == HeldIn(t.res, LostIn(t.res, w))
<1>0. LineEffect(s, t, o, l, pref)
    <2>1. Needed(t, o, l) # 0
        OBVIOUS
    <2> QED BY <2>1, LineFields
<1>1. plan \in [Warehouse -> Nat]
    BY LineTakes
<1>2. /\ t.reserved \in [Warehouse -> Nat] /\ t.flushed \in [Warehouse -> Nat]
      /\ t.res \in Seq(Reservation)
    BY DEF Shaped, Transaction
<1>3. /\ \A w \in Warehouse :
              s.reserved[w] = t.reserved[w] + IF w \in made \ scarce THEN plan[w] ELSE 0
      /\ \A w \in Warehouse :
              \/ s.flushed[w] = s.reserved[w]
              \/ s.flushed[w] = t.reserved[w] /\ ~raises
              \/ s.flushed[w] = t.flushed[w] /\ used = {}
    BY <1>0, Zenon DEF LineEffect
<1>4. Holds(s, t, o, l, pref)
    BY LineHolds
<1>5. \A w \in Warehouse :
        /\ HeldIn(s.res, ActiveIn(s.res, w)) = standing(w) + IF w \in made THEN plan[w] ELSE 0
        /\ HeldIn(s.res, LostIn(s.res, w)) = lost(w) + IF w \in made \cap scarce THEN plan[w] ELSE 0
    BY <1>4, Zenon DEF Holds
<1>6. \A w \in Warehouse : standing(w) \in Nat /\ lost(w) \in Nat
    <2> TAKE w \in Warehouse
    <2>1. ActiveIn(t.res, w) \in SUBSET DOMAIN t.res /\ LostIn(t.res, w) \in SUBSET DOMAIN t.res
        BY DEF ActiveIn, LostIn
    <2> QED BY <1>2, <2>1, HeldNatural
<1>7. \A w \in Warehouse : 0 <= standing(w) - t.reserved[w] /\ standing(w) - t.reserved[w] <= lost(w)
    BY DEF Counted
<1>8. \A w \in Warehouse : t.flushed[w] <= t.reserved[w]
    BY DEF Lag
<1> HIDE DEF s, plan, used, made, scarce, raises, standing, lost
<1>9. ASSUME NEW w \in Warehouse PROVE s.flushed[w] <= s.reserved[w]
    <2>1. /\ plan[w] \in Nat /\ t.reserved[w] \in Nat /\ t.flushed[w] \in Nat
          /\ t.flushed[w] <= t.reserved[w]
        BY <1>1, <1>2, <1>8
    <2>2. t.reserved[w] <= s.reserved[w] /\ s.reserved[w] \in Nat
        BY <1>3, <2>1
    <2>3. s.flushed[w] \in {s.reserved[w], t.reserved[w], t.flushed[w]}
        BY <1>3
    <2> QED BY <2>1, <2>2, <2>3
<1>10. ASSUME NEW w \in Warehouse
       PROVE  LET drift == HeldIn(s.res, ActiveIn(s.res, w)) - s.reserved[w]
              IN  0 <= drift /\ drift <= HeldIn(s.res, LostIn(s.res, w))
    <2>1. plan[w] \in Nat /\ t.reserved[w] \in Nat
        BY <1>1, <1>2
    <2> QED BY <1>3, <1>5, <1>6, <1>7, <2>1
<1> QED BY <1>9, <1>10 DEF Lag, Counted, s

LEMMA LineFits ==
    ASSUME stock \in [Warehouse -> Nat], NEW t, Shaped(t), \A p \in Order : LinesFit(t, p),
           NEW o \in Order, NEW l \in DOMAIN Lines[o], NEW pref,
           Needed(t, o, l) \in Nat \ {0}
    PROVE  \A p \in Order : LinesFit(AllocateLine(t, o, l, pref), p)
<1> DEFINE s == AllocateLine(t, o, l, pref)
           plan == Taken(t, o, l, pref)
           used == Used(t, o, l, pref)
           raises == Raises(t, o, l, pref)
           sum == Total(used, plan)
           need == Needed(t, o, l)
           lines == DOMAIN Lines[o]
<1> SUFFICES \A p \in Order : LinesFit(s, p)
    OBVIOUS
<1>0. LineEffect(s, t, o, l, pref)
    <2>1. Needed(t, o, l) # 0
        OBVIOUS
    <2> QED BY <2>1, LineFields
<1>1. /\ sum \in Nat /\ sum <= need /\ need \in Nat \ {0}
      /\ ~t.order[o].partial /\ used # {} => sum = need
    BY LineTakes
<1>2. /\ \A q \in Order \ {o} : s.order[q] = t.order[q]
      /\ raises => s.order[o] = t.order[o]
      /\ ~raises => s.order[o] = Filled(t.order[o], l, sum, need - sum)
    BY <1>0, Zenon DEF LineEffect
<1>3. Holds(s, t, o, l, pref)
    BY LineHolds
<1>4. /\ HeldIn(s.res, BookedIn(s.res, o)) =
              HeldIn(t.res, BookedIn(t.res, o)) + IF raises THEN 0 ELSE sum
      /\ \A p \in Order \ {o} :
              HeldIn(s.res, BookedIn(s.res, p)) = HeldIn(t.res, BookedIn(t.res, p))
    BY <1>3, Zenon DEF Holds
<1>5. ASSUME NEW p \in Order \ {o} PROVE LinesFit(s, p)
    <2>1. s.order[p] = t.order[p]
            /\ HeldIn(s.res, BookedIn(s.res, p)) = HeldIn(t.res, BookedIn(t.res, p))
        BY <1>2, <1>4, Zenon
    <2>2. LinesFit(t, p)
        OBVIOUS
    <2> QED BY <2>1, <2>2, Zenon DEF LinesFit
<1>6. HeldIn(t.res, BookedIn(t.res, o)) \in Nat
    <2>1. t.res \in Seq(Reservation) /\ BookedIn(t.res, o) \in SUBSET DOMAIN t.res
        BY DEF Shaped, Transaction, BookedIn
    <2> QED BY <2>1, HeldNatural
<1>7. LinesFit(t, o)
    OBVIOUS
<1>8. t.order[o] \in OrderRow(o) /\ t.order[o].allocated \in [lines -> Nat]
    BY RowOf DEF Shaped
<1>9. need = Lines[o][l] - t.order[o].allocated[l] /\ Lines[o][l] \in Nat \ {0}
    BY <1>7, LineNeeds
<1>10. ~raises => used # {}
    BY DEF Raises
<1> HIDE DEF s, plan, used, raises, sum, need
<1>11. CASE raises
    <2>1. s.order[o] = t.order[o] /\
            HeldIn(s.res, BookedIn(s.res, o)) = HeldIn(t.res, BookedIn(t.res, o))
        BY <1>2, <1>4, <1>6, <1>11
    <2>2. LinesFit(s, o)
        BY <1>7, <2>1, Zenon DEF LinesFit
    <2> QED BY <1>5, <2>2
<1>12. CASE ~raises
    <2> DEFINE row == s.order[o]
    <2>0. need - sum \in Nat
        BY <1>1
    <2>1. row = Filled(t.order[o], l, sum, need - sum)
        BY <1>2, <1>12
    <2>7. Fills(row, t.order[o], o, l, sum, need - sum)
        BY <1>1, <1>8, <2>0, <2>1, LineRow
    <2>8. /\ row \in OrderRow(o)
          /\ row.partial = t.order[o].partial
          /\ row.allocated[l] = t.order[o].allocated[l] + sum /\ row.backorder[l] = need - sum
          /\ \A k \in lines \ {l} : /\ row.allocated[k] = t.order[o].allocated[k]
                                    /\ row.backorder[k] = t.order[o].backorder[k]
        BY <2>7 DEF Fills
    <2> HIDE DEF row
    <2>2. row.allocated \in [lines -> Nat]
        BY <2>8 DEF OrderRow
    <2>3. Total(lines, row.allocated) = Total(lines, t.order[o].allocated) + sum
        <3>1. IsFiniteSet(lines)
            BY LinesOf
        <3>2. /\ \A k \in lines : t.order[o].allocated[k] \in Nat /\ row.allocated[k] \in Nat
              /\ \A k \in lines \ {l} : t.order[o].allocated[k] = row.allocated[k]
            BY <1>8, <2>8, <2>2
        <3>3. Total(lines, row.allocated) =
                Total(lines, t.order[o].allocated) + row.allocated[l] - t.order[o].allocated[l]
            <4> DEFINE p == t.order[o].allocated
                       q == row.allocated
            <4>1. /\ \A k \in lines : p[k] \in Nat /\ q[k] \in Nat
                  /\ \A k \in lines \ {l} : p[k] = q[k]
                BY <3>2
            <4> HIDE DEF p, q
            <4>2. Total(lines, q) = Total(lines, p) + q[l] - p[l]
                BY <3>1, <4>1, TotalChange
            <4> QED BY <4>2 DEF p, q
        <3>4. Total(lines, t.order[o].allocated) \in Nat
            BY <3>1, <3>2, TotalType
        <3> QED BY <1>1, <2>8, <3>2, <3>3, <3>4
    <2>4. Total(lines, row.allocated) = HeldIn(s.res, BookedIn(s.res, o))
        BY <1>4, <1>7, <1>12, <2>3 DEF LinesFit
    <2>5. ASSUME NEW k \in lines
          PROVE  /\ row.allocated[k] + row.backorder[k] \in {0, Lines[o][k]}
                 /\ ~row.partial => row.allocated[k] \in {0, Lines[o][k]}
        <3>1. CASE k = l
            <4>1. row.allocated[l] + row.backorder[l] = Lines[o][l]
                BY <1>1, <1>8, <1>9, <2>8
            <4>2. ~row.partial => row.allocated[l] = Lines[o][l]
                BY <1>1, <1>8, <1>9, <1>10, <1>12, <2>8
            <4> QED BY <3>1, <4>1, <4>2
        <3>2. CASE k # l
            BY <1>7, <2>8, <3>2 DEF LinesFit
        <3> QED BY <3>1, <3>2
    <2>6. LinesFit(s, o)
        BY <2>4, <2>5 DEF LinesFit, row
    <2> QED BY <1>5, <2>6
<1> QED BY <1>11, <1>12
-----------------------------------------------------------------------------
(* An allocation that finds too little takes all there is: what follows in  *)
(* the same call can only raise, and the back-order stays.                  *)
Drained(t, o) ==
    t.short => /\ \E l \in DOMAIN Lines[o] : t.order[o].backorder[l] > 0
               /\ \A w \in Warehouse : Offer(t.reserved)[w] = 0

LEMMA LineDrains ==
    ASSUME stock \in [Warehouse -> Nat], NEW t, Shaped(t), Lag(t), NEW o \in Order,
           Drained(t, o), NEW l \in DOMAIN Lines[o], NEW pref, Needed(t, o, l) \in Nat \ {0}
    PROVE  Drained(AllocateLine(t, o, l, pref), o)
<1> DEFINE s == AllocateLine(t, o, l, pref)
           plan == Taken(t, o, l, pref)
           used == Used(t, o, l, pref)
           made == Made(t, o, l, pref)
           scarce == Scarce(t, o, l, pref)
           raises == Raises(t, o, l, pref)
           sum == Total(used, plan)
           need == Needed(t, o, l)
           offer == Offer(t.reserved)
           seen == Offer(t.flushed)
<1> SUFFICES ASSUME s.short PROVE Drained(s, o)
    BY DEF Drained
<1>0. LineEffect(s, t, o, l, pref)
    <2>1. need # 0
        OBVIOUS
    <2> QED BY <2>1, LineFields
<1>1. /\ plan \in [Warehouse -> Nat] /\ offer \in [Warehouse -> Nat] /\ seen \in [Warehouse -> Nat]
      /\ sum \in Nat /\ sum <= need /\ need \in Nat \ {0}
      /\ sum < need /\ used # {} => \A w \in Warehouse : plan[w] = seen[w]
    BY LineTakes
<1>2. /\ t.reserved \in [Warehouse -> Nat] /\ t.flushed \in [Warehouse -> Nat]
      /\ t.order[o] \in OrderRow(o)
    BY DEF Shaped, Transaction
<1>3. \A w \in Warehouse : t.flushed[w] <= t.reserved[w]
    BY DEF Lag
<1>4. \A w \in Warehouse : offer[w] = Floor(stock[w] - t.reserved[w])
                           /\ seen[w] = Floor(stock[w] - t.flushed[w])
                           /\ Offer(s.reserved)[w] = Floor(stock[w] - s.reserved[w])
    BY DEF Offer
<1>5. \A w \in Warehouse :
          s.reserved[w] = t.reserved[w] + IF w \in made \ scarce THEN plan[w] ELSE 0
    BY <1>0, Zenon DEF LineEffect
<1>6. raises => s.order[o] = t.order[o] /\ s.short = t.short
    BY <1>0, Zenon DEF LineEffect
<1>7. ~raises => /\ s.order[o] = Filled(t.order[o], l, sum, need - sum)
                 /\ s.short = (t.short \/ sum < need)
    BY <1>0, Zenon DEF LineEffect
<1>8. /\ used = {w \in Warehouse : plan[w] > 0}
      /\ scarce = {w \in used : offer[w] < plan[w]}
      /\ made \subseteq used
    BY Zenon DEF Used, Scarce, Made
<1>9. ~raises => used # {} /\ scarce = {} /\ made = used
    BY DEF Raises, Made
<1>10. t.short => /\ \E k \in DOMAIN Lines[o] : t.order[o].backorder[k] > 0
                  /\ \A w \in Warehouse : offer[w] = 0
    BY DEF Drained
<1> HIDE DEF s, plan, used, made, scarce, raises, sum, need, offer, seen
<1>11. t.short => used = scarce
    BY <1>1, <1>8, <1>10
<1>12. CASE raises
    <2>1. t.short
        BY <1>6, <1>12
    <2>2. made \ scarce = {}
        BY <1>8, <1>11, <2>1
    <2>3. \A w \in Warehouse : s.reserved[w] = t.reserved[w]
        BY <1>2, <1>5, <2>2
    <2>4. \A w \in Warehouse : Offer(s.reserved)[w] = 0
        BY <1>4, <1>10, <2>1, <2>3
    <2>5. \E k \in DOMAIN Lines[o] : s.order[o].backorder[k] > 0
        BY <1>6, <1>10, <1>12, <2>1
    <2> QED BY <2>4, <2>5 DEF Drained
<1>13. CASE ~raises
    <2>1. ~t.short
        BY <1>9, <1>11, <1>13
    <2>2. sum < need
        BY <1>7, <1>13, <2>1
    <2>3. \A w \in Warehouse : plan[w] = seen[w]
        BY <1>1, <1>9, <1>13, <2>2
    <2>4. ASSUME NEW w \in Warehouse PROVE Offer(s.reserved)[w] = 0
        <3>1. /\ t.reserved[w] \in Nat /\ t.flushed[w] \in Nat /\ plan[w] \in Nat
              /\ stock[w] \in Nat /\ t.flushed[w] <= t.reserved[w]
            BY <1>1, <1>2, <1>3
        <3>2. plan[w] = Floor(stock[w] - t.flushed[w])
            BY <1>4, <2>3
        <3>3. s.reserved[w] = t.reserved[w] + plan[w]
            BY <1>1, <1>5, <1>8, <1>9, <1>13, <3>1
        <3>4. stock[w] - s.reserved[w] <= 0
            BY <3>1, <3>2, <3>3 DEF Floor
        <3>5. s.reserved[w] \in Nat
            BY <3>1, <3>3
        <3> QED BY <1>4, <3>1, <3>4, <3>5 DEF Floor
    <2>5. need - sum \in Nat /\ need - sum > 0
        BY <1>1, <2>2
    <2>6. Fills(s.order[o], t.order[o], o, l, sum, need - sum)
        BY <1>1, <1>2, <1>7, <1>13, <2>5, LineRow
    <2>7. s.order[o].backorder[l] > 0
        BY <2>5, <2>6 DEF Fills
    <2> QED BY <2>4, <2>7 DEF Drained
<1> QED BY <1>12, <1>13

(* Where an allocation leaves a line: covered, raised on, or short. *)
Settled(t, o, l) ==
    \/ t.order[o].allocated[l] = Lines[o][l]
    \/ <<o, l>> \in t.unmet
    \/ t.short

LEMMA LineSettles ==
    ASSUME stock \in [Warehouse -> Nat], NEW t, Shaped(t), NEW o \in Order, LinesFit(t, o),
           NEW l \in DOMAIN Lines[o], NEW pref, Needed(t, o, l) \in Nat \ {0}
    PROVE  LET s == AllocateLine(t, o, l, pref)
           IN  /\ Settled(s, o, l)
               /\ \A k \in DOMAIN Lines[o] : Settled(t, o, k) => Settled(s, o, k)
<1> DEFINE s == AllocateLine(t, o, l, pref)
           used == Used(t, o, l, pref)
           raises == Raises(t, o, l, pref)
           sum == Total(used, Taken(t, o, l, pref))
           need == Needed(t, o, l)
<1>0. LineEffect(s, t, o, l, pref)
    <2>1. need # 0
        OBVIOUS
    <2> QED BY <2>1, LineFields
<1>1. sum \in Nat /\ sum <= need /\ need \in Nat \ {0}
    BY LineTakes
<1>2. t.order[o] \in OrderRow(o)
    BY DEF Shaped
<1>3. raises => s.order[o] = t.order[o] /\ s.unmet = t.unmet \cup {<<o, l>>} /\ s.short = t.short
    BY <1>0, Zenon DEF LineEffect
<1>4. ~raises => /\ s.order[o] = Filled(t.order[o], l, sum, need - sum)
                 /\ s.unmet = t.unmet \ {<<o, l>>}
                 /\ s.short = (t.short \/ sum < need)
    BY <1>0, Zenon DEF LineEffect
<1>5. need = Lines[o][l] - t.order[o].allocated[l] /\ t.order[o].allocated[l] \in Nat
      /\ Lines[o][l] \in Nat
    BY LineNeeds
<1> HIDE DEF s, used, raises, sum, need
<1>6. CASE raises
    BY <1>3, <1>6 DEF Settled, s
<1>7. CASE ~raises
    <2>1. need - sum \in Nat
        BY <1>1
    <2>2. Fills(s.order[o], t.order[o], o, l, sum, need - sum)
        BY <1>1, <1>2, <1>4, <1>7, <2>1, LineRow
    <2>3. s.order[o].allocated[l] = t.order[o].allocated[l] + sum
          /\ \A k \in DOMAIN Lines[o] \ {l} : s.order[o].allocated[k] = t.order[o].allocated[k]
        BY <2>2 DEF Fills
    <2>4. s.order[o].allocated[l] = Lines[o][l] \/ s.short
        <3>1. CASE sum < need
            BY <1>4, <1>7, <3>1, Zenon
        <3>2. CASE ~(sum < need)
            BY <1>1, <1>5, <2>3, <3>2
        <3> QED BY <3>1, <3>2
    <2>5. Settled(s, o, l)
        BY <2>4 DEF Settled
    <2>6. ASSUME NEW k \in DOMAIN Lines[o] \ {l}, Settled(t, o, k) PROVE Settled(s, o, k)
        <3>1. <<o, k>> \in s.unmet <=> <<o, k>> \in t.unmet
            BY <1>4, <1>7
        <3>2. t.short => s.short
            BY <1>4, <1>7
        <3> QED BY <2>3, <2>6, <3>1, <3>2 DEF Settled
    <2> QED BY <2>5, <2>6 DEF s
<1> QED BY <1>6, <1>7
(* An allocation for o leaves the other orders alone. *)
Kept(s, t, o) ==
    /\ \A p \in Order \ {o} : s.order[p] = t.order[p]
    /\ \A p \in Order \ {o} : \A l \in DOMAIN Lines[p] :
          <<p, l>> \in s.unmet <=> <<p, l>> \in t.unmet
    /\ DOMAIN t.res \subseteq DOMAIN s.res
    /\ \A i \in DOMAIN t.res : s.res[i] = t.res[i]
    /\ \A i \in DOMAIN s.res \ DOMAIN t.res : s.res[i].order = o

LEMMA LineKeeps ==
    ASSUME stock \in [Warehouse -> Nat], NEW t, Shaped(t), NEW o \in Order,
           NEW l \in DOMAIN Lines[o], NEW pref, Needed(t, o, l) \in Nat \ {0}
    PROVE  Kept(AllocateLine(t, o, l, pref), t, o)
<1> DEFINE s == AllocateLine(t, o, l, pref)
<1>1. LineEffect(s, t, o, l, pref)
    <2>1. Needed(t, o, l) # 0
        OBVIOUS
    <2> QED BY <2>1, LineFields
<1>2. Inserts(s, t, o, l, pref)
    BY LineTable
<1>3. \A p \in Order \ {o} : s.order[p] = t.order[p]
    BY <1>1, Zenon DEF LineEffect
<1>4. s.unmet = t.unmet \cup {<<o, l>>} \/ s.unmet = t.unmet \ {<<o, l>>}
    BY <1>1, Zenon DEF LineEffect
<1>5. DOMAIN t.res \subseteq DOMAIN s.res /\ \A i \in DOMAIN t.res : s.res[i] = t.res[i]
    BY <1>2, Zenon DEF Inserts
<1>6. \A i \in DOMAIN s.res \ DOMAIN t.res : s.res[i].order = o
    BY <1>2, Zenon DEF Inserts
<1> HIDE DEF s
<1>7. ASSUME NEW p \in Order \ {o}, NEW k \in DOMAIN Lines[p]
      PROVE  <<p, k>> \in s.unmet <=> <<p, k>> \in t.unmet
    BY <1>4
<1> QED BY <1>3, <1>5, <1>6, <1>7 DEF Kept, s

LEMMA KeptSteps ==
    ASSUME NEW o, NEW r, NEW s, NEW t, Kept(s, t, o), Kept(r, s, o)
    PROVE  Kept(r, t, o)
<1>1. \A p \in Order \ {o} : r.order[p] = t.order[p]
    BY DEF Kept
<1>2. \A p \in Order \ {o} : \A l \in DOMAIN Lines[p] :
          <<p, l>> \in r.unmet <=> <<p, l>> \in t.unmet
    BY DEF Kept
<1>3. /\ DOMAIN t.res \subseteq DOMAIN s.res /\ DOMAIN s.res \subseteq DOMAIN r.res
      /\ \A i \in DOMAIN t.res : s.res[i] = t.res[i]
      /\ \A i \in DOMAIN s.res : r.res[i] = s.res[i]
      /\ \A i \in DOMAIN s.res \ DOMAIN t.res : s.res[i].order = o
      /\ \A i \in DOMAIN r.res \ DOMAIN s.res : r.res[i].order = o
    BY DEF Kept
<1>4. DOMAIN t.res \subseteq DOMAIN r.res /\ \A i \in DOMAIN t.res : r.res[i] = t.res[i]
    BY <1>3
<1>5. \A i \in DOMAIN r.res \ DOMAIN t.res : r.res[i].order = o
    BY <1>3
<1> QED BY <1>1, <1>2, <1>4, <1>5 DEF Kept

LEMMA KeptItself == ASSUME NEW t, NEW o PROVE Kept(t, t, o)
BY DEF Kept

(* A call that allocates for o, begun in t. *)
Allocating(s, t, o) == Sound(s) /\ Drained(s, o) /\ Kept(s, t, o)

LEMMA AllocatesLine ==
    ASSUME stock \in [Warehouse -> Nat], NEW o \in Order, NEW t, NEW s, Allocating(s, t, o),
           NEW l \in DOMAIN Lines[o], NEW pref
    PROVE  /\ Allocating(AllocateLine(s, o, l, pref), t, o)
           /\ Settled(AllocateLine(s, o, l, pref), o, l)
           /\ \A k \in DOMAIN Lines[o] :
                 Settled(s, o, k) => Settled(AllocateLine(s, o, l, pref), o, k)
<1> DEFINE r == AllocateLine(s, o, l, pref)
<1>1. /\ Shaped(s) /\ Lag(s) /\ Counted(s) /\ \A p \in Order : LinesFit(s, p)
      /\ Drained(s, o) /\ Kept(s, t, o)
    BY DEF Allocating, Sound
<1>2. /\ Needed(s, o, l) \in Nat /\ Needed(s, o, l) = Lines[o][l] - s.order[o].allocated[l]
      /\ s.order[o].allocated[l] \in Nat /\ Lines[o][l] \in Nat
    BY <1>1, LineNeeds
<1>3. CASE Needed(s, o, l) = 0
    <2>1. r = s
        BY <1>3, Zenon DEF AllocateLine
    <2>2. s.order[o].allocated[l] = Lines[o][l]
        BY <1>2, <1>3
    <2>3. Settled(s, o, l)
        BY <2>2 DEF Settled
    <2> HIDE DEF r
    <2>4. Allocating(r, t, o) /\ Settled(r, o, l)
          /\ \A k \in DOMAIN Lines[o] : Settled(s, o, k) => Settled(r, o, k)
        BY <2>1, <2>3, Zenon
    <2> QED BY <2>4 DEF r
<1>4. CASE Needed(s, o, l) # 0
    <2>1. Needed(s, o, l) \in Nat \ {0}
        BY <1>2, <1>4
    <2>2. Shaped(r)
        BY <1>1, <2>1, LineShaped
    <2>3. Lag(r) /\ Counted(r)
        BY <1>1, <2>1, LineCounts
    <2>4. \A p \in Order : LinesFit(r, p)
        BY <1>1, <2>1, LineFits
    <2>5. Drained(r, o)
        BY <1>1, <2>1, LineDrains
    <2>6. Kept(r, s, o)
        BY <1>1, <2>1, LineKeeps
    <2>7. Settled(r, o, l) /\ \A k \in DOMAIN Lines[o] : Settled(s, o, k) => Settled(r, o, k)
        BY <1>1, <2>1, LineSettles
    <2> HIDE DEF r
    <2>8. Kept(r, t, o)
        BY <1>1, <2>6, KeptSteps
    <2>9. Allocating(r, t, o)
        BY <2>2, <2>3, <2>4, <2>5, <2>8 DEF Allocating, Sound
    <2> QED BY <2>7, <2>9 DEF r
<1> QED BY <1>3, <1>4

(* One allocation after another, over the lines of the order. *)
LEMMA AllocatesLines ==
    ASSUME stock \in [Warehouse -> Nat], NEW o \in Order, NEW t, NEW s, Allocating(s, t, o),
           NEW pref
    PROVE  /\ Allocating(AllocateLines(s, o, pref), t, o)
           /\ \A l \in DOMAIN Lines[o] : Settled(AllocateLines(s, o, pref), o, l)
<1> DEFINE n == Len(Lines[o])
<1>1. n \in Nat /\ DOMAIN Lines[o] = 1 .. n
    BY LinesOf
<1>2. PICK after :
              /\ after[0] = s
              /\ \A l \in 1 .. Len(Lines[o]) : after[l] = AllocateLine(after[l - 1], o, l, pref)
              /\ AllocateLines(s, o, pref) = after[Len(Lines[o])]
    <2>1. Len(Lines[o]) \in Nat
        BY <1>1
    <2>2. \E after :
              /\ after[0] = s
              /\ \A l \in 1 .. Len(Lines[o]) : after[l] = AllocateLine(after[l - 1], o, l, pref)
              /\ AllocateLines(s, o, pref) = after[Len(Lines[o])]
        BY <2>1, LinesLoop
    <2> QED BY <2>2
<1> DEFINE Holding(i) == Allocating(after[i], t, o) /\ \A l \in 1 .. i : Settled(after[i], o, l)
           P == {i \in 0 .. n : Holding(i)}
<1>3. 0 \in P
    <2>1. after[0] = s
        BY <1>2
    <2>2. Allocating(after[0], t, o)
        BY <2>1
    <2>3. 1 .. 0 = {} /\ 0 \in 0 .. n
        BY <1>1
    <2> QED BY <2>2, <2>3
<1>4. ASSUME NEW i \in 1 .. n, i - 1 \in P PROVE i \in P
    <2>1. Allocating(after[i - 1], t, o) /\ \A l \in 1 .. i - 1 : Settled(after[i - 1], o, l)
        BY <1>4
    <2>2. after[i] = AllocateLine(after[i - 1], o, i, pref)
        BY <1>2
    <2>3. i \in DOMAIN Lines[o]
        BY <1>1
    <2>4. /\ Allocating(after[i], t, o) /\ Settled(after[i], o, i)
          /\ \A k \in DOMAIN Lines[o] : Settled(after[i - 1], o, k) => Settled(after[i], o, k)
        BY <2>1, <2>2, <2>3, AllocatesLine
    <2>5. \A l \in 1 .. i : Settled(after[i], o, l)
        <3> TAKE l \in 1 .. i
        <3>1. l = i \/ l \in 1 .. i - 1
            OBVIOUS
        <3>2. l \in DOMAIN Lines[o]
            BY <1>1
        <3> QED BY <2>1, <2>4, <3>1, <3>2
    <2>6. i \in 0 .. n
        OBVIOUS
    <2> QED BY <2>4, <2>5, <2>6
<1> HIDE DEF Holding
<1>5. \A i \in 0 .. n : i \in P
    <2> HIDE DEF P
    <2> QED BY <1>1, <1>3, <1>4, EveryTurn
<1>6. Holding(n)
    BY <1>1, <1>5
<1> QED BY <1>1, <1>2, <1>6 DEF Holding
(* ... and over the warehouses selected. *)
LEMMA AllocatesInventory ==
    ASSUME stock \in [Warehouse -> Nat], NEW o \in Order, NEW t, NEW s, Allocating(s, t, o),
           NEW selected, Len(selected) \in Nat \ {0}
    PROVE  /\ Allocating(AllocateInventory(s, o, selected), t, o)
           /\ \A l \in DOMAIN Lines[o] : Settled(AllocateInventory(s, o, selected), o, l)
<1> DEFINE n == Len(selected)
<1>1. n \in Nat \ {0} /\ Len(selected) \in Nat
    OBVIOUS
<1>2. PICK after :
              /\ after[0] = s
              /\ \A i \in 1 .. Len(selected) : after[i] = AllocateLines(after[i - 1], o, selected[i])
              /\ AllocateInventory(s, o, selected) = after[Len(selected)]
    <2>1. Len(selected) \in Nat
        OBVIOUS
    <2>2. \E after :
              /\ after[0] = s
              /\ \A i \in 1 .. Len(selected) : after[i] = AllocateLines(after[i - 1], o, selected[i])
              /\ AllocateInventory(s, o, selected) = after[Len(selected)]
        BY <2>1, InventoryLoop
    <2> QED BY <2>2
<1> DEFINE Done(i) == \A l \in DOMAIN Lines[o] : Settled(after[i], o, l)
           Holding(i) == Allocating(after[i], t, o) /\ (i # 0 => Done(i))
           P == {i \in 0 .. n : Holding(i)}
<1>3. 0 \in P
    BY <1>1, <1>2
<1>4. ASSUME NEW i \in 1 .. n, i - 1 \in P PROVE i \in P
    <2>1. Allocating(after[i - 1], t, o)
        BY <1>4
    <2>2. after[i] = AllocateLines(after[i - 1], o, selected[i])
        BY <1>2
    <2>3. Allocating(after[i], t, o) /\ Done(i)
        BY <2>1, <2>2, AllocatesLines
    <2>4. i \in 0 .. n
        OBVIOUS
    <2> HIDE DEF Done
    <2> QED BY <2>3, <2>4
<1> HIDE DEF Holding
<1>5. \A i \in 0 .. n : i \in P
    <2>1. n \in Nat
        BY <1>1
    <2> HIDE DEF P, n
    <2> QED BY <2>1, <1>3, <1>4, EveryTurn
<1>6. Holding(n)
    BY <1>1, <1>5
<1> QED BY <1>1, <1>2, <1>6 DEF Holding
-----------------------------------------------------------------------------
(* Steps of a call that only write the row of its order. *)
WithRow(t, o, row) == [t EXCEPT !.order = [t.order EXCEPT ![o] = row]]

HasRow(s, t, o, row) ==
    /\ Shaped(s)
    /\ s.flushed = t.flushed /\ s.reserved = t.reserved /\ s.res = t.res /\ s.unmet = t.unmet
    /\ s.raised = t.raised /\ s.short = t.short
    /\ \A p \in Order \ {o} : s.order[p] = t.order[p]
    /\ s.order[o] = row

LEMMA RowWritten ==
    ASSUME NEW t, Shaped(t), NEW o \in Order, NEW row, row \in OrderRow(o)
    PROVE  HasRow(WithRow(t, o, row), t, o, row)
<1> DEFINE rows == [t.order EXCEPT ![o] = row]
           s == WithRow(t, o, row)
<1>1. t \in Transaction /\ t.order \in [Order -> UNION {OrderRow(p) : p \in Order}]
      /\ \A p \in Order : t.order[p] \in OrderRow(p)
    BY DEF Shaped, Transaction
<1>2. /\ \A p \in Order \ {o} : rows[p] = t.order[p]
      /\ rows[o] = row
    BY <1>1
<1>3. \A p \in Order : rows[p] \in OrderRow(p)
    BY <1>1, <1>2
<1>4. rows \in [Order -> UNION {OrderRow(p) : p \in Order}]
    <2>1. rows = [p \in Order |-> rows[p]]
        BY <1>1
    <2> HIDE DEF rows
    <2> QED BY <1>3, <2>1
<1>5. s = [t EXCEPT !.order = rows]
    BY Zenon DEF WithRow
<1> HIDE DEF rows, s
<1>6. s \in Transaction /\ s.order = rows
      /\ s.flushed = t.flushed /\ s.reserved = t.reserved /\ s.res = t.res /\ s.unmet = t.unmet
      /\ s.raised = t.raised /\ s.short = t.short
    BY <1>1, <1>4, <1>5 DEF Transaction
<1> QED BY <1>2, <1>3, <1>6 DEF HasRow, Shaped, s

(* What such a step, or one that flushes, keeps. *)
Alike(s, t, o) ==
    /\ Shaped(s)
    /\ s.flushed = t.flushed \/ s.flushed = t.reserved
    /\ s.reserved = t.reserved /\ s.res = t.res /\ s.unmet = t.unmet
    /\ \A p \in Order \ {o} : s.order[p] = t.order[p]
    /\ s.order[o].allocated = t.order[o].allocated
    /\ s.order[o].backorder = t.order[o].backorder
    /\ s.order[o].partial = t.order[o].partial

LEMMA AlikeIsBalanced ==
    ASSUME NEW t, Balanced(t), NEW o \in Order, NEW s, Alike(s, t, o)
    PROVE  Balanced(s) /\ Kept(s, t, o)
<1>1. Shaped(t) /\ Counted(t) /\ \A p \in Order : LinesFit(t, p)
    BY DEF Balanced
<1>2. /\ Shaped(s) /\ s.reserved = t.reserved /\ s.res = t.res /\ s.unmet = t.unmet
      /\ \A p \in Order \ {o} : s.order[p] = t.order[p]
      /\ s.order[o].allocated = t.order[o].allocated
      /\ s.order[o].backorder = t.order[o].backorder
      /\ s.order[o].partial = t.order[o].partial
    BY DEF Alike
<1>3. Counted(s)
    BY <1>1, <1>2, Zenon DEF Counted
<1>4. \A p \in Order : LinesFit(s, p)
    <2> TAKE p \in Order
    <2>1. LinesFit(t, p)
        BY <1>1
    <2>2. /\ s.order[p].allocated = t.order[p].allocated
          /\ s.order[p].backorder = t.order[p].backorder
          /\ s.order[p].partial = t.order[p].partial
        <3>1. p = o \/ p \in Order \ {o}
            OBVIOUS
        <3> QED BY <1>2, <3>1, Zenon
    <2> QED BY <1>2, <2>1, <2>2, Zenon DEF LinesFit
<1>5. Kept(s, t, o)
    BY <1>2 DEF Kept
<1> QED BY <1>2, <1>3, <1>4, <1>5 DEF Balanced

LEMMA AlikeIsSound ==
    ASSUME NEW t, Sound(t), NEW o \in Order, NEW s, Alike(s, t, o)
    PROVE  Sound(s) /\ Kept(s, t, o)
<1>1. Balanced(t) /\ Shaped(t) /\ Lag(t)
    BY DEF Sound, Balanced
<1>2. Balanced(s) /\ Kept(s, t, o)
    BY <1>1, AlikeIsBalanced
<1>3. t.reserved \in [Warehouse -> Nat] /\ s.reserved = t.reserved
    BY <1>1 DEF Shaped, Transaction, Alike
<1>4. CASE s.flushed = t.flushed
    <2>1. Lag(s)
        BY <1>1, <1>3, <1>4, Zenon DEF Lag
    <2> QED BY <1>2, <2>1 DEF Sound, Balanced
<1>5. CASE s.flushed = t.reserved
    <2>1. Lag(s)
        BY <1>3, <1>5 DEF Lag
    <2> QED BY <1>2, <2>1 DEF Sound, Balanced
<1> QED BY <1>4, <1>5 DEF Alike

(* Setting the status of an order. *)
Marked(t, o, status, by) == [t EXCEPT !.order[o].status = status, !.order[o].by = by]

LEMMA MarkedAlike ==
    ASSUME NEW t, Shaped(t), NEW o \in Order, NEW status \in OrderStatus, NEW by \in Author
    PROVE  /\ Alike(Marked(t, o, status, by), t, o)
           /\ Marked(t, o, status, by).order[o].status = status
           /\ Marked(t, o, status, by).order[o].by = by
           /\ Marked(t, o, status, by).short = t.short
<1> DEFINE row == [t.order[o] EXCEPT !.status = status, !.by = by]
           s == Marked(t, o, status, by)
<1>1. t \in Transaction /\ t.order \in [Order -> UNION {OrderRow(p) : p \in Order}]
      /\ t.order[o] \in OrderRow(o)
    BY DEF Shaped, Transaction
<1>2. s = WithRow(t, o, row)
    BY <1>1 DEF Marked, WithRow, Transaction, OrderRow
<1>3. /\ row \in OrderRow(o) /\ row.status = status /\ row.by = by
      /\ row.allocated = t.order[o].allocated /\ row.backorder = t.order[o].backorder
      /\ row.partial = t.order[o].partial
    BY <1>1 DEF OrderRow
<1> HIDE DEF row, s
<1>4. HasRow(s, t, o, row)
    BY <1>2, <1>3, RowWritten
<1> QED BY <1>3, <1>4 DEF HasRow, Alike, s
(* A planning call starts afresh, plans where to ship from, and later ships. *)
LEMMA AfreshAlike ==
    ASSUME NEW t, Shaped(t), NEW o \in Order
    PROVE  Alike([t EXCEPT !.short = FALSE], t, o) /\ [t EXCEPT !.short = FALSE].short = FALSE
<1> DEFINE s == [t EXCEPT !.short = FALSE]
<1>1. t \in Transaction /\ \A p \in Order : t.order[p] \in OrderRow(p)
    BY DEF Shaped
<1>2. /\ s \in Transaction /\ s.flushed = t.flushed /\ s.reserved = t.reserved /\ s.res = t.res
      /\ s.unmet = t.unmet /\ s.order = t.order /\ s.short = FALSE
    BY <1>1 DEF Transaction
<1> HIDE DEF s
<1>3. Shaped(s)
    BY <1>1, <1>2 DEF Shaped
<1> QED BY <1>2, <1>3 DEF Alike, s

LEMMA PlansAlike ==
    ASSUME NEW t, Shaped(t), NEW o \in Order, NEW selected
    PROVE  /\ Alike(CreatePlans(t, o, selected), t, o)
           /\ CreatePlans(t, o, selected).short = t.short
<1> DEFINE new == {w \in {selected[i] : i \in DOMAIN selected} : t.order[o].plan[w] = "none"}
           plan == [w \in Warehouse |-> IF w \in new THEN "planned" ELSE t.order[o].plan[w]]
           flushed == IF new = {} THEN t.flushed ELSE t.reserved
           row == [t.order[o] EXCEPT !.plan = plan]
           r == WithRow(t, o, row)
           s == CreatePlans(t, o, selected)
<1>1. t \in Transaction /\ t.order \in [Order -> UNION {OrderRow(p) : p \in Order}]
      /\ t.order[o] \in OrderRow(o)
      /\ t.flushed \in [Warehouse -> Nat] /\ t.reserved \in [Warehouse -> Nat]
    BY DEF Shaped, Transaction
<1>2. s = [t EXCEPT !.order[o].plan = [w \in Warehouse |-> IF w \in new THEN "planned" ELSE @[w]],
                    !.flushed = IF new = {} THEN @ ELSE t.reserved]
    BY Zenon DEF CreatePlans
<1>3. plan \in [Warehouse -> {"none", "planned", "executing"}]
    <2>1. t.order[o].plan \in [Warehouse -> {"none", "planned", "executing"}]
        BY <1>1 DEF OrderRow
    <2> HIDE DEF new
    <2> QED BY <2>1
<1>4. flushed \in [Warehouse -> Nat] /\ flushed \in {t.flushed, t.reserved}
    BY <1>1
<1> HIDE DEF new, s
<1>5. s = [t EXCEPT !.order[o].plan = plan, !.flushed = flushed]
    BY <1>1, <1>2 DEF Transaction, OrderRow
<1> HIDE DEF plan, flushed
<1>6. /\ row \in OrderRow(o)
      /\ row.allocated = t.order[o].allocated /\ row.backorder = t.order[o].backorder
      /\ row.partial = t.order[o].partial
    BY <1>1, <1>3 DEF OrderRow
<1>7. s = [r EXCEPT !.flushed = flushed]
    BY <1>1, <1>5 DEF WithRow, Transaction, OrderRow
<1> HIDE DEF row, r
<1>8. HasRow(r, t, o, row)
    BY <1>6, RowWritten DEF r
<1>9. /\ Shaped(r) /\ r \in Transaction
      /\ r.reserved = t.reserved /\ r.res = t.res /\ r.unmet = t.unmet /\ r.short = t.short
      /\ \A p \in Order \ {o} : r.order[p] = t.order[p]
      /\ r.order[o] = row
      /\ \A p \in Order : r.order[p] \in OrderRow(p)
    BY <1>8 DEF HasRow, Shaped
<1>10. /\ s \in Transaction /\ s.flushed = flushed /\ s.reserved = r.reserved /\ s.res = r.res
       /\ s.unmet = r.unmet /\ s.order = r.order /\ s.short = r.short
    BY <1>4, <1>7, <1>9 DEF Transaction
<1>11. Shaped(s)
    BY <1>9, <1>10 DEF Shaped
<1>12. Alike(s, t, o)
    BY <1>4, <1>6, <1>9, <1>10, <1>11 DEF Alike
<1> QED BY <1>9, <1>10, <1>12 DEF s

LEMMA ShipmentsAlike ==
    ASSUME NEW t, Shaped(t), NEW o \in Order
    PROVE  /\ Alike(GenerateShipments(t, o), t, o)
           /\ GenerateShipments(t, o).order[o].status = t.order[o].status
           /\ GenerateShipments(t, o).order[o].by = t.order[o].by
           /\ GenerateShipments(t, o).short = t.short
<1> DEFINE Ships(w) == t.order[o].plan[w] \in {"planned", "executing"}
           shipments == [w \in Warehouse |-> t.order[o].shipments[w] + IF Ships(w) THEN 1 ELSE 0]
           plan == [w \in Warehouse |-> IF Ships(w) THEN "executing" ELSE t.order[o].plan[w]]
           row == [t.order[o] EXCEPT !.shipments = shipments, !.plan = plan]
           s == GenerateShipments(t, o)
<1>1. t \in Transaction /\ t.order \in [Order -> UNION {OrderRow(p) : p \in Order}]
      /\ t.order[o] \in OrderRow(o)
    BY DEF Shaped, Transaction
<1>2. s = [t EXCEPT
            !.order[o].shipments = [w \in Warehouse |-> @[w] + IF Ships(w) THEN 1 ELSE 0],
            !.order[o].plan = [w \in Warehouse |-> IF Ships(w) THEN "executing" ELSE @[w]]]
    BY Zenon DEF GenerateShipments
<1>3. /\ plan \in [Warehouse -> {"none", "planned", "executing"}]
      /\ shipments \in [Warehouse -> Nat]
    BY RowOf
<1> HIDE DEF s
<1>4. s = [t EXCEPT !.order[o].shipments = shipments, !.order[o].plan = plan]
    BY <1>1, <1>2 DEF Transaction, OrderRow
<1> HIDE DEF plan, shipments
<1>5. s = WithRow(t, o, row)
    BY <1>1, <1>4 DEF WithRow, Transaction, OrderRow
<1>6. /\ row \in OrderRow(o) /\ row.status = t.order[o].status /\ row.by = t.order[o].by
      /\ row.allocated = t.order[o].allocated /\ row.backorder = t.order[o].backorder
      /\ row.partial = t.order[o].partial
    BY <1>1, <1>3 DEF OrderRow
<1> HIDE DEF row
<1>7. HasRow(s, t, o, row)
    BY <1>5, <1>6, RowWritten
<1> QED BY <1>6, <1>7 DEF HasRow, Alike, s

-----------------------------------------------------------------------------
(* The warehouses selected come in a sequence. *)
IsSequence(s) == \E T : s \in Seq(T)

LEMMA OrderedIsSequence ==
    ASSUME NEW S, IsFiniteSet(S), NEW before
    PROVE  IsSequence(Ordered(S, before))
<1> DEFINE n == Cardinality(S)
           T == {Ordered(S, before)[i] : i \in 1 .. n}
           At(i) == CHOOSE x \in S : Cardinality(S \cap before[x]) = i - 1
           f == [i \in 1 .. n |-> At(i)]
<1>1. n \in Nat
    BY FS_CardinalityType
<1>2. Ordered(S, before) = f
    BY DEF Ordered
<1>3. DOMAIN f = 1 .. n /\ \A i \in 1 .. n : f[i] \in T
    <2>1. \A i \in 1 .. n : f[i] = Ordered(S, before)[i]
        BY <1>2
    <2> QED BY <2>1
<1>4. f = [i \in 1 .. n |-> f[i]]
    <2> HIDE DEF At
    <2> QED OBVIOUS
<1> HIDE DEF f, T, n
<1>5. f \in Seq(T)
    BY <1>1, <1>3, <1>4
<1> QED BY <1>2, <1>5 DEF IsSequence

LEMMA FirstIsSequence ==
    ASSUME NEW s, IsSequence(s), NEW n \in Nat
    PROVE  IsSequence(SubSeq(s, 1, Least(n, Len(s))))
<1>1. PICK T : s \in Seq(T)
    BY DEF IsSequence
<1>2. Len(s) \in Nat /\ Least(n, Len(s)) \in 0 .. Len(s)
    BY <1>1 DEF Least
<1>3. SubSeq(s, 1, Least(n, Len(s))) \in Seq(T)
    BY <1>1, <1>2
<1> QED BY <1>3 DEF IsSequence

LEMMA SelectedIsSequence ==
    ASSUME NEW t, NEW o
    PROVE  IsSequence(SelectWarehouses(t, o))
<1> DEFINE cover == Coverage(t, o)
           total == [w \in Warehouse |-> Total(DOMAIN Lines[o], cover[w])]
           candidates == {w \in Warehouse : total[w] > 0}
           full == {w \in candidates : \A l \in DOMAIN Lines[o] : cover[w][l] = Needed(t, o, l)}
           Cheaper(w) == {v \in Warehouse : Rank[v] < Rank[w]}
           Fuller(w) == {v \in Warehouse : \/ total[v] > total[w]
                                           \/ total[v] = total[w] /\ Rank[v] < Rank[w]}
           ByCost(S) == Ordered(S, [w \in S |-> Cheaper(w)])
           ByCoverage == Ordered(candidates, [w \in candidates |-> Fuller(w)])
           First(n, s) == SubSeq(s, 1, Least(n, Len(s)))
           strategy == t.order[o].strategy
<1>1. SelectWarehouses(t, o) =
        CASE strategy = "single_warehouse" /\ full # {} -> First(1, ByCost(full))
          [] strategy = "single_warehouse" /\ full = {} ->
                IF t.order[o].partial THEN First(1, ByCoverage) ELSE <<>>
          [] strategy = "balanced" -> First(2, ByCoverage)
          [] OTHER -> First(2, ByCost(candidates))
    BY Zenon DEF SelectWarehouses
<1>2. full \in SUBSET Warehouse /\ candidates \in SUBSET Warehouse
    OBVIOUS
<1> HIDE DEF full, candidates, strategy
<1>3. IsFiniteSet(full) /\ IsFiniteSet(candidates)
    BY <1>2, WarehouseFinite, FS_Subset
<1>4. IsSequence(ByCost(full)) /\ IsSequence(ByCost(candidates)) /\ IsSequence(ByCoverage)
    <2> HIDE DEF Cheaper, Fuller
    <2> QED BY <1>3, OrderedIsSequence
<1> HIDE DEF ByCost, ByCoverage
<1>5. IsSequence(First(1, ByCost(full))) /\ IsSequence(First(2, ByCost(candidates)))
      /\ IsSequence(First(1, ByCoverage)) /\ IsSequence(First(2, ByCoverage))
    BY <1>4, FirstIsSequence
<1> HIDE DEF First
<1>6. IsSequence(<<>>)
    <2>1. <<>> \in Seq({})
        OBVIOUS
    <2> QED BY <2>1 DEF IsSequence
<1>7. \/ SelectWarehouses(t, o) = First(1, ByCost(full))
      \/ SelectWarehouses(t, o) = First(1, ByCoverage)
      \/ SelectWarehouses(t, o) = First(2, ByCoverage)
      \/ SelectWarehouses(t, o) = First(2, ByCost(candidates))
      \/ SelectWarehouses(t, o) = <<>>
    BY <1>1
<1> QED BY <1>5, <1>6, <1>7, Zenon
-----------------------------------------------------------------------------
(* What a row says of an order, between two calls. *)
StatusFits(t, o) ==
    /\ t.order[o].status \in {"fulfillment_planned", "allocating"} =>
          \/ \A l \in DOMAIN Lines[o] :
                t.order[o].allocated[l] = Lines[o][l] \/ <<o, l>> \in t.unmet
          \/ t.order[o].by = "workflow"
    /\ t.order[o].status = "partially_allocated" =>
          \E l \in DOMAIN Lines[o] : t.order[o].backorder[l] > 0

StoppedFits(t, o) ==
    \/ t.order[o].status \in {"cancelled", "backordered"}
    \/ t.order[o].by = "compensation"
    => \A i \in DOMAIN t.res : t.res[i].order = o => ~t.res[i].active

NoneFits(t, o) == t.order[o].status = "none" => t.order[o] = NoOrder(o)

Fits(t, o) == StatusFits(t, o) /\ StoppedFits(t, o) /\ NoneFits(t, o)

Complete(t) == Sound(t) /\ \A o \in Order : Fits(t, o)

LEMMA KeptFits ==
    ASSUME NEW o \in Order, NEW s, NEW t, Kept(s, t, o), NEW p \in Order \ {o}, Fits(t, p)
    PROVE  Fits(s, p)
<1>1. s.order[p] = t.order[p] /\ \A l \in DOMAIN Lines[p] : <<p, l>> \in s.unmet <=> <<p, l>> \in t.unmet
    BY DEF Kept
<1>2. StatusFits(s, p)
    BY <1>1 DEF Fits, StatusFits
<1>3. \A i \in DOMAIN s.res : s.res[i].order = p => i \in DOMAIN t.res /\ t.res[i] = s.res[i]
    BY DEF Kept
<1>4. StoppedFits(s, p)
    BY <1>1, <1>3 DEF Fits, StoppedFits
<1>5. NoneFits(s, p)
    BY <1>1 DEF Fits, NoneFits
<1> QED BY <1>2, <1>4, <1>5 DEF Fits

(* A planning call. *)
Planned(s, t, o) ==
    /\ Sound(s) /\ Kept(s, t, o) /\ StatusFits(s, o)
    /\ s.order[o].status \in {"validating", "partially_allocated", "fulfillment_planned"}
    /\ s.order[o].by = "call"

LEMMA OrderIsPlanned ==
    ASSUME stock \in [Warehouse -> Nat], NEW t, Sound(t), NEW o \in Order
    PROVE  Planned(PlanFulfillment(t, o), t, o)
<1> DEFINE s == PlanFulfillment(t, o)
           selected == SelectWarehouses(t, o)
           afresh == [t EXCEPT !.short = FALSE]
           routed == CreatePlans(afresh, o, selected)
           done == AllocateInventory(routed, o, selected)
<1>1. s = IF selected = <<>> THEN Marked(t, o, "validating", "call")
          ELSE Marked(done, o, PlannedStatus(done), "call")
    BY Zenon DEF PlanFulfillment, Marked
<1>2. Shaped(t)
    BY DEF Sound
<1>3. {"validating", "partially_allocated", "fulfillment_planned"} \subseteq OrderStatus
      /\ "call" \in Author
    BY DEF OrderStatus, Live, Pending, Author
<1>4. CASE selected = <<>>
    <2> DEFINE r == Marked(t, o, "validating", "call")
    <2>1. /\ Alike(r, t, o)
          /\ r.order[o].status = "validating" /\ r.order[o].by = "call"
        BY <1>2, <1>3, MarkedAlike
    <2>2. s = r
        BY <1>1, <1>4, Zenon
    <2> HIDE DEF r, s
    <2>3. Sound(r) /\ Kept(r, t, o)
        BY <2>1, AlikeIsSound
    <2>4. StatusFits(r, o)
        BY <2>1 DEF StatusFits
    <2>5. Planned(s, t, o)
        BY <2>1, <2>2, <2>3, <2>4 DEF Planned
    <2> QED BY <2>5 DEF s
<1>5. CASE selected # <<>>
    <2> HIDE DEF s
    <2>1. Alike(afresh, t, o) /\ afresh.short = FALSE
        BY <1>2, AfreshAlike
    <2> HIDE DEF afresh
    <2>2. Sound(afresh) /\ Kept(afresh, t, o)
        BY <2>1, AlikeIsSound
    <2>3. Shaped(afresh)
        BY <2>2 DEF Sound
    <2>4. Alike(routed, afresh, o) /\ routed.short = FALSE
        BY <2>1, <2>3, PlansAlike
    <2> HIDE DEF routed
    <2>5. Sound(routed) /\ Kept(routed, afresh, o)
        BY <2>2, <2>4, AlikeIsSound
    <2>6. Kept(routed, t, o)
        BY <2>2, <2>5, KeptSteps
    <2>7. Allocating(routed, t, o)
        BY <2>4, <2>5, <2>6 DEF Allocating, Drained
    <2>8. Len(selected) \in Nat \ {0}
        <3>1. IsSequence(selected)
            BY SelectedIsSequence
        <3> HIDE DEF selected
        <3>2. PICK T : selected \in Seq(T)
            BY <3>1 DEF IsSequence
        <3> QED BY <1>5, <3>2
    <2>9. Allocating(done, t, o) /\ \A l \in DOMAIN Lines[o] : Settled(done, o, l)
        <3> HIDE DEF selected
        <3> QED BY <2>7, <2>8, AllocatesInventory
    <2> HIDE DEF done
    <2> DEFINE status == PlannedStatus(done)
               r == Marked(done, o, status, "call")
    <2>10. Sound(done) /\ Shaped(done) /\ Drained(done, o) /\ Kept(done, t, o)
        BY <2>9 DEF Allocating, Sound
    <2>11. status = IF done.short THEN "partially_allocated" ELSE "fulfillment_planned"
        BY DEF PlannedStatus
    <2> HIDE DEF status
    <2>12. status \in OrderStatus
        BY <1>3, <2>11
    <2>13. /\ Alike(r, done, o)
           /\ r.order[o].status = status /\ r.order[o].by = "call"
        BY <1>3, <2>10, <2>12, MarkedAlike
    <2>14. s = r
        BY <1>1, <1>5, Zenon DEF status
    <2> HIDE DEF r
    <2>15. Sound(r) /\ Kept(r, done, o)
        BY <2>10, <2>13, AlikeIsSound
    <2>16. Kept(r, t, o)
        BY <2>10, <2>15, KeptSteps
    <2>17. /\ r.order[o].allocated = done.order[o].allocated
           /\ r.order[o].backorder = done.order[o].backorder /\ r.unmet = done.unmet
        BY <2>13 DEF Alike
    <2>18. StatusFits(r, o)
        <3>1. CASE done.short
            <4>1. r.order[o].status = "partially_allocated"
                BY <2>11, <2>13, <3>1
            <4>2. \E l \in DOMAIN Lines[o] : r.order[o].backorder[l] > 0
                BY <2>10, <2>17, <3>1 DEF Drained
            <4> QED BY <4>1, <4>2 DEF StatusFits
        <3>2. CASE ~done.short
            <4>1. r.order[o].status = "fulfillment_planned"
                BY <2>11, <2>13, <3>2
            <4>2. \A l \in DOMAIN Lines[o] :
                        r.order[o].allocated[l] = Lines[o][l] \/ <<o, l>> \in r.unmet
                BY <2>9, <2>17, <3>2 DEF Settled
            <4> QED BY <4>1, <4>2 DEF StatusFits
        <3> QED BY <3>1, <3>2
    <2>19. r.order[o].status \in {"validating", "partially_allocated", "fulfillment_planned"}
        BY <2>11, <2>13
    <2>20. Planned(s, t, o)
        BY <2>13, <2>14, <2>15, <2>16, <2>18, <2>19 DEF Planned
    <2> QED BY <2>20 DEF s
<1> QED BY <1>4, <1>5

(* What it leaves is complete, and so is what a batch of them leaves. *)
LEMMA PlannedIsComplete ==
    ASSUME NEW t, Complete(t), NEW o \in Order, NEW s, Planned(s, t, o)
    PROVE  Complete(s)
<1>1. /\ Sound(s) /\ Kept(s, t, o) /\ StatusFits(s, o)
      /\ s.order[o].status \in {"validating", "partially_allocated", "fulfillment_planned"}
      /\ s.order[o].by = "call"
    BY DEF Planned
<1>2. Fits(s, o)
    BY <1>1 DEF Fits, StoppedFits, NoneFits
<1>3. \A p \in Order \ {o} : Fits(s, p)
    BY <1>1, KeptFits DEF Complete
<1> QED BY <1>1, <1>2, <1>3 DEF Complete

LEMMA OrdersArePlanned ==
    ASSUME stock \in [Warehouse -> Nat], NEW t, Complete(t),
           NEW queue, Len(queue) \in Nat, \A i \in 1 .. Len(queue) : queue[i] \in Order
    PROVE  Complete(PlanOrders(t, queue))
<1> DEFINE n == Len(queue)
<1>1. PICK after :
              /\ after[0] = t
              /\ \A i \in 1 .. Len(queue) : after[i] = PlanFulfillment(after[i - 1], queue[i])
              /\ PlanOrders(t, queue) = after[Len(queue)]
    <2>1. Len(queue) \in Nat
        OBVIOUS
    <2>2. \E after :
              /\ after[0] = t
              /\ \A i \in 1 .. Len(queue) : after[i] = PlanFulfillment(after[i - 1], queue[i])
              /\ PlanOrders(t, queue) = after[Len(queue)]
        BY <2>1, OrdersLoop
    <2> QED BY <2>2
<1> DEFINE P == {i \in 0 .. n : Complete(after[i])}
<1>2. 0 \in P
    BY <1>1
<1>3. ASSUME NEW i \in 1 .. n, i - 1 \in P PROVE i \in P
    <2>1. Complete(after[i - 1]) /\ Sound(after[i - 1])
        BY <1>3 DEF Complete
    <2>2. queue[i] \in Order /\ after[i] = PlanFulfillment(after[i - 1], queue[i])
        BY <1>1
    <2>3. Planned(after[i], after[i - 1], queue[i])
        BY <2>1, <2>2, OrderIsPlanned
    <2>4. Complete(after[i])
        BY <2>1, <2>2, <2>3, PlannedIsComplete
    <2> QED BY <2>4
<1>4. \A i \in 0 .. n : i \in P
    <2>1. n \in Nat
        OBVIOUS
    <2> HIDE DEF P, n
    <2> QED BY <2>1, <1>2, <1>3, EveryTurn
<1>5. Complete(after[n])
    BY <1>4
<1> QED BY <1>1, <1>5
-----------------------------------------------------------------------------
(* What a call may commit: all of that but the lag, which ends with it. *)
Committable(t) == Balanced(t) /\ \A o \in Order : Fits(t, o)

LEMMA CompleteIsCommittable ==
    ASSUME NEW t, Complete(t)
    PROVE  Committable(t)
BY DEF Complete, Sound, Committable, Balanced

(* Setting the status of an order once its reservations agree with it. *)
LEMMA MarkedIsCommittable ==
    ASSUME NEW t, Committable(t), NEW o \in Order, NEW status \in OrderStatus, NEW by \in Author,
           Fits(Marked(t, o, status, by), o)
    PROVE  Committable(Marked(t, o, status, by))
<1> DEFINE s == Marked(t, o, status, by)
<1>1. Balanced(t) /\ Shaped(t)
    BY DEF Committable, Balanced
<1>2. Alike(s, t, o)
    BY <1>1, MarkedAlike
<1>3. Fits(s, o)
    OBVIOUS
<1> HIDE DEF s
<1>4. Balanced(s) /\ Kept(s, t, o)
    BY <1>1, <1>2, AlikeIsBalanced
<1>5. \A p \in Order \ {o} : Fits(s, p)
    BY <1>4, KeptFits DEF Committable
<1>6. Committable(s)
    BY <1>3, <1>4, <1>5 DEF Committable
<1> QED BY <1>6 DEF s

(* A release takes as much from the counter as from the reservations, and   *)
(* stops at zero only where units are held that no counter knows of.        *)
Releases(s, t, T) ==
    /\ s.res \in Seq(Reservation) /\ DOMAIN s.res = DOMAIN t.res
    /\ \A i \in DOMAIN t.res :
          /\ s.res[i].order = t.res[i].order /\ s.res[i].warehouse = t.res[i].warehouse
          /\ s.res[i].quantity = t.res[i].quantity /\ s.res[i].fate = t.res[i].fate
          /\ s.res[i].active = IF i \in T THEN FALSE ELSE t.res[i].active
    /\ s.order = t.order /\ s.unmet = t.unmet /\ Shaped(s)

LEMMA ReleaseFields ==
    ASSUME NEW t, Shaped(t), NEW T \in SUBSET DOMAIN t.res
    PROVE  /\ Releases(Released(t, T), t, T)
           /\ \A w \in Warehouse :
                 Released(t, T).reserved[w] =
                    IF {i \in T : t.res[i].warehouse = w} = {} THEN t.reserved[w]
                    ELSE Floor(t.reserved[w] - HeldIn(t.res, {i \in T : t.res[i].warehouse = w}))
<1> DEFINE At(w) == {i \in T : t.res[i].warehouse = w}
           table == [i \in DOMAIN t.res |->
                        IF i \in T THEN [t.res[i] EXCEPT !.active = FALSE] ELSE t.res[i]]
           after == [w \in Warehouse |->
                        IF At(w) = {} THEN t.reserved[w]
                        ELSE Floor(t.reserved[w] - HeldIn(t.res, At(w)))]
           s == Released(t, T)
<1>1. /\ t \in Transaction /\ t.res \in Seq(Reservation) /\ t.reserved \in [Warehouse -> Nat]
      /\ \A p \in Order : t.order[p] \in OrderRow(p)
    BY DEF Shaped, Transaction
<1>2. s = [t EXCEPT
            !.res = [i \in DOMAIN @ |-> IF i \in T THEN [@[i] EXCEPT !.active = FALSE] ELSE @[i]],
            !.reserved = [w \in Warehouse |->
                IF At(w) = {} THEN @[w] ELSE Floor(@[w] - HeldIn(t.res, At(w)))]]
    BY Zenon DEF Released
<1> HIDE DEF s
<1>3. s = [t EXCEPT !.res = table, !.reserved = after]
    <2> HIDE DEF At
    <2> QED BY <1>1, <1>2 DEF Transaction
<1>4. after \in [Warehouse -> Nat]
    <2>1. \A w \in Warehouse : At(w) \in SUBSET DOMAIN t.res
        OBVIOUS
    <2> HIDE DEF At
    <2>2. \A w \in Warehouse : HeldIn(t.res, At(w)) \in Nat
        BY <1>1, <2>1, HeldNatural
    <2> QED BY <1>1, <2>2 DEF Floor
<1>5. \A i \in DOMAIN t.res :
          /\ table[i] \in Reservation
          /\ table[i].order = t.res[i].order /\ table[i].warehouse = t.res[i].warehouse
          /\ table[i].quantity = t.res[i].quantity /\ table[i].fate = t.res[i].fate
          /\ table[i].active = IF i \in T THEN FALSE ELSE t.res[i].active
    <2> TAKE i \in DOMAIN t.res
    <2>1. t.res[i] \in Reservation
        BY <1>1
    <2> QED BY <2>1 DEF Reservation
<1>6. table \in Seq(Reservation) /\ DOMAIN table = DOMAIN t.res
    <2>1. table = [i \in DOMAIN t.res |-> table[i]]
        OBVIOUS
    <2>2. DOMAIN t.res = 1 .. Len(t.res) /\ Len(t.res) \in Nat
        BY <1>1
    <2> HIDE DEF table
    <2>3. table \in [1 .. Len(t.res) -> Reservation]
        BY <1>5, <2>1, <2>2
    <2> QED BY <2>2, <2>3
<1>7. \A w \in Warehouse : after[w] = IF At(w) = {} THEN t.reserved[w]
                                      ELSE Floor(t.reserved[w] - HeldIn(t.res, At(w)))
    <2> HIDE DEF At
    <2> QED OBVIOUS
<1> HIDE DEF table, after
<1>8. /\ s \in Transaction /\ s.res = table /\ s.reserved = after /\ s.order = t.order
      /\ s.unmet = t.unmet
    BY <1>1, <1>3, <1>4, <1>6 DEF Transaction
<1>9. Shaped(s)
    BY <1>1, <1>8 DEF Shaped
<1>10. Releases(s, t, T)
    BY <1>5, <1>6, <1>8, <1>9 DEF Releases
<1> QED BY <1>7, <1>8, <1>10, Zenon DEF s
LEMMA HeldAlike ==
    ASSUME NEW old, NEW table, NEW T \in SUBSET DOMAIN old, DOMAIN table = DOMAIN old,
           \A i \in DOMAIN old : table[i].quantity = old[i].quantity
    PROVE  HeldIn(table, T) = HeldIn(old, T)
<1> DEFINE p == [i \in DOMAIN old |-> old[i].quantity]
           q == [i \in DOMAIN table |-> table[i].quantity]
<1>1. \A i \in T : p[i] = q[i]
    OBVIOUS
<1> HIDE DEF p, q
<1>2. Total(T, p) = Total(T, q)
    BY <1>1, TotalSame
<1> QED BY <1>2 DEF HeldIn, p, q

LEMMA ReleaseIsBalanced ==
    ASSUME NEW t, Balanced(t), NEW T \in SUBSET DOMAIN t.res, \A i \in T : t.res[i].active
    PROVE  Balanced(Released(t, T))
<1> DEFINE s == Released(t, T)
           At(w) == {i \in T : t.res[i].warehouse = w}
           held(w) == HeldIn(t.res, At(w))
           standing(w) == HeldIn(t.res, ActiveIn(t.res, w))
           lost(w) == HeldIn(t.res, LostIn(t.res, w))
<1>1. /\ Shaped(t) /\ Counted(t) /\ \A p \in Order : LinesFit(t, p)
      /\ t.res \in Seq(Reservation) /\ t.reserved \in [Warehouse -> Nat]
    BY DEF Balanced, Shaped, Transaction
<1>2. /\ Releases(s, t, T)
      /\ \A w \in Warehouse :
            s.reserved[w] = IF At(w) = {} THEN t.reserved[w] ELSE Floor(t.reserved[w] - held(w))
    BY <1>1, ReleaseFields
<1> HIDE DEF s
<1>3. /\ s.res \in Seq(Reservation) /\ DOMAIN s.res = DOMAIN t.res
      /\ \A i \in DOMAIN t.res :
            /\ s.res[i].order = t.res[i].order /\ s.res[i].warehouse = t.res[i].warehouse
            /\ s.res[i].quantity = t.res[i].quantity /\ s.res[i].fate = t.res[i].fate
            /\ s.res[i].active = IF i \in T THEN FALSE ELSE t.res[i].active
      /\ s.order = t.order /\ s.unmet = t.unmet /\ Shaped(s)
    BY <1>2, Zenon DEF Releases
<1>4. ASSUME NEW X \in SUBSET DOMAIN t.res PROVE HeldIn(s.res, X) = HeldIn(t.res, X)
    BY <1>3, HeldAlike
<1>5. ASSUME NEW w \in Warehouse
      PROVE  /\ ActiveIn(s.res, w) = ActiveIn(t.res, w) \ At(w)
             /\ LostIn(s.res, w) = LostIn(t.res, w)
             /\ At(w) \in SUBSET ActiveIn(t.res, w)
             /\ ActiveIn(t.res, w) \in SUBSET DOMAIN t.res /\ LostIn(t.res, w) \in SUBSET DOMAIN t.res
    BY <1>3 DEF ActiveIn, LostIn
<1>6. ASSUME NEW w \in Warehouse
      PROVE  /\ HeldIn(s.res, ActiveIn(s.res, w)) = standing(w) - held(w)
             /\ HeldIn(s.res, LostIn(s.res, w)) = lost(w)
             /\ standing(w) \in Nat /\ held(w) \in Nat /\ lost(w) \in Nat /\ held(w) <= standing(w)
    <2> DEFINE q == [i \in DOMAIN t.res |-> t.res[i].quantity]
               A == ActiveIn(t.res, w)
               L == LostIn(t.res, w)
               H == At(w)
    <2>1. /\ A \in SUBSET DOMAIN t.res /\ L \in SUBSET DOMAIN t.res /\ H \in SUBSET A
          /\ ActiveIn(s.res, w) = A \ H /\ LostIn(s.res, w) = L
        BY <1>5
    <2> HIDE DEF A, L, H
    <2>2. A \ H \in SUBSET DOMAIN t.res /\ H \in SUBSET DOMAIN t.res
        BY <2>1
    <2>3. IsFiniteSet(A) /\ IsFiniteSet(H) /\ (\A i \in DOMAIN t.res : q[i] \in Nat)
        BY <1>1, <2>1, <2>2, HeldNatural
    <2>4. HeldIn(t.res, A) \in Nat /\ HeldIn(t.res, L) \in Nat /\ HeldIn(t.res, H) \in Nat
          /\ HeldIn(t.res, A \ H) \in Nat
        BY <1>1, <2>1, <2>2, HeldNatural
    <2>5. HeldIn(t.res, A \ H) = HeldIn(t.res, A) - HeldIn(t.res, H)
        <3>1. \A i \in A : q[i] \in Nat
            BY <2>1, <2>3
        <3> HIDE DEF q
        <3>2. Total(A \ H, q) = Total(A, q) - Total(H, q)
            BY <2>1, <2>3, <3>1, TotalDifference
        <3> QED BY <3>2 DEF HeldIn, q
    <2>6. HeldIn(s.res, A \ H) = HeldIn(t.res, A \ H) /\ HeldIn(s.res, L) = HeldIn(t.res, L)
        BY <1>4, <2>1, <2>2
    <2>7. /\ HeldIn(s.res, ActiveIn(s.res, w)) = HeldIn(t.res, A) - HeldIn(t.res, H)
          /\ HeldIn(s.res, LostIn(s.res, w)) = HeldIn(t.res, L)
        BY <2>1, <2>5, <2>6
    <2>8. HeldIn(t.res, H) <= HeldIn(t.res, A)
        BY <2>4, <2>5
    <2> QED BY <2>4, <2>7, <2>8 DEF A, L, H
<1>7. \A w \in Warehouse : At(w) = {} => held(w) = 0
    <2> TAKE w \in Warehouse
    <2> HIDE DEF At
    <2> QED BY HeldByNone
<1>8. \A w \in Warehouse : 0 <= standing(w) - t.reserved[w] /\ standing(w) - t.reserved[w] <= lost(w)
    BY <1>1 DEF Counted
<1> HIDE DEF standing, lost, held
<1>9. ASSUME NEW w \in Warehouse
      PROVE  LET drift == HeldIn(s.res, ActiveIn(s.res, w)) - s.reserved[w]
             IN  0 <= drift /\ drift <= HeldIn(s.res, LostIn(s.res, w))
    <2>1. /\ HeldIn(s.res, ActiveIn(s.res, w)) = standing(w) - held(w)
          /\ HeldIn(s.res, LostIn(s.res, w)) = lost(w)
          /\ standing(w) \in Nat /\ held(w) \in Nat /\ lost(w) \in Nat /\ held(w) <= standing(w)
          /\ 0 <= standing(w) - t.reserved[w] /\ standing(w) - t.reserved[w] <= lost(w)
          /\ t.reserved[w] \in Nat
        BY <1>1, <1>6, <1>8
    <2>2. CASE At(w) = {}
        <3>1. held(w) = 0 /\ s.reserved[w] = t.reserved[w]
            BY <1>2, <1>7, <2>2
        <3> QED BY <2>1, <3>1
    <2>3. CASE At(w) # {}
        <3>1. s.reserved[w] = Floor(t.reserved[w] - held(w))
            BY <1>2, <2>3
        <3> QED BY <2>1, <3>1 DEF Floor
    <2> QED BY <2>2, <2>3
<1>10. ASSUME NEW p \in Order PROVE LinesFit(s, p)
    <2>1. BookedIn(s.res, p) = BookedIn(t.res, p) /\ BookedIn(t.res, p) \in SUBSET DOMAIN t.res
        BY <1>3 DEF BookedIn
    <2>2. HeldIn(s.res, BookedIn(s.res, p)) = HeldIn(t.res, BookedIn(t.res, p))
        BY <1>4, <2>1
    <2>3. LinesFit(t, p) /\ s.order = t.order
        BY <1>1, <1>3
    <2> QED BY <2>2, <2>3, Zenon DEF LinesFit
<1>11. Counted(s)
    BY <1>9 DEF Counted
<1>12. Balanced(s)
    BY <1>3, <1>10, <1>11 DEF Balanced
<1> QED BY <1>12 DEF s

LEMMA ReleaseIsCommittable ==
    ASSUME NEW t, Committable(t), NEW T \in SUBSET DOMAIN t.res, \A i \in T : t.res[i].active
    PROVE  Committable(Released(t, T))
<1> DEFINE s == Released(t, T)
<1>1. Balanced(t) /\ Shaped(t) /\ \A p \in Order : Fits(t, p)
    BY DEF Committable, Balanced
<1>2. Balanced(s)
    BY <1>1, ReleaseIsBalanced
<1>3. Releases(s, t, T)
    BY <1>1, ReleaseFields
<1> HIDE DEF s
<1>4. /\ DOMAIN s.res = DOMAIN t.res
      /\ \A i \in DOMAIN t.res :
            /\ s.res[i].order = t.res[i].order
            /\ s.res[i].active = IF i \in T THEN FALSE ELSE t.res[i].active
      /\ s.order = t.order /\ s.unmet = t.unmet
    BY <1>3, Zenon DEF Releases
<1>5. ASSUME NEW p \in Order PROVE Fits(s, p)
    <2>1. Fits(t, p)
        BY <1>1
    <2>2. StatusFits(s, p) /\ NoneFits(s, p)
        BY <1>4, <2>1, Zenon DEF Fits, StatusFits, NoneFits
    <2>3. StoppedFits(s, p)
        BY <1>4, <2>1 DEF Fits, StoppedFits
    <2> QED BY <2>2, <2>3 DEF Fits
<1>6. Committable(s)
    BY <1>2, <1>5 DEF Committable
<1> QED BY <1>6 DEF s

(* A release of all that an order holds, and of its status with it. *)
LEMMA OrderIsReleased ==
    ASSUME NEW t, Committable(t), NEW o \in Order
    PROVE  /\ Committable(ReleasedOrder(t, o))
           /\ \A i \in DOMAIN ReleasedOrder(t, o).res :
                 ReleasedOrder(t, o).res[i].order = o => ~ReleasedOrder(t, o).res[i].active
           /\ ReleasedOrder(t, o).order = t.order /\ ReleasedOrder(t, o).unmet = t.unmet
<1> DEFINE T == {i \in DOMAIN t.res : t.res[i].active /\ t.res[i].order = o}
           s == ReleasedOrder(t, o)
<1>1. s = Released(t, T)
    BY Zenon DEF ReleasedOrder
<1>2. T \in SUBSET DOMAIN t.res /\ \A i \in T : t.res[i].active
    OBVIOUS
<1>3. Shaped(t) /\ t.res \in Seq(Reservation)
    BY DEF Committable, Balanced, Shaped, Transaction
<1>t. \A i \in DOMAIN t.res : t.res[i].order = o /\ i \notin T => ~t.res[i].active
    OBVIOUS
<1> HIDE DEF T, s
<1>4. Committable(s)
    BY <1>1, <1>2, ReleaseIsCommittable
<1>5. Releases(s, t, T)
    BY <1>1, <1>2, <1>3, ReleaseFields
<1>6. /\ DOMAIN s.res = DOMAIN t.res
      /\ \A i \in DOMAIN t.res :
            /\ s.res[i].order = t.res[i].order
            /\ s.res[i].active = IF i \in T THEN FALSE ELSE t.res[i].active
      /\ s.order = t.order /\ s.unmet = t.unmet
    BY <1>5, Zenon DEF Releases
<1>7. \A i \in DOMAIN s.res : s.res[i].order = o => ~s.res[i].active
    BY <1>t, <1>6
<1> QED BY <1>4, <1>6, <1>7 DEF s
-----------------------------------------------------------------------------
(* The invariant of the planner: a call begins with a session of which all  *)
(* of the above holds.                                                      *)
PlanningInv == stock \in [Warehouse -> Nat] /\ Complete(Begun)

(* What holds of what a call commits holds of what the next one begins with. *)
LEMMA FreshIsComplete ==
    ASSUME NEW t, Committable(t), NEW s,
           s = [flushed |-> t.reserved, reserved |-> t.reserved, res |-> t.res, order |-> t.order,
                unmet |-> t.unmet, raised |-> FALSE, short |-> FALSE]
    PROVE  Complete(s)
<1>1. /\ Shaped(t) /\ Counted(t) /\ \A p \in Order : LinesFit(t, p) /\ Fits(t, p)
    BY DEF Committable, Balanced
<1>2. s.flushed = s.reserved /\ s.reserved = t.reserved /\ s.res = t.res /\ s.order = t.order
      /\ s.unmet = t.unmet
    OBVIOUS
<1>3. s \in Transaction /\ s.reserved \in [Warehouse -> Nat]
    BY <1>1 DEF Shaped, Transaction
<1>4. Shaped(s)
    BY <1>1, <1>2, <1>3, Zenon DEF Shaped
<1>5. Lag(s)
    BY <1>2, <1>3 DEF Lag
<1>6. Counted(s)
    BY <1>1, <1>2, Zenon DEF Counted
<1>7. ASSUME NEW p \in Order PROVE LinesFit(s, p) /\ Fits(s, p)
    <2>1. LinesFit(t, p) /\ Fits(t, p)
        BY <1>1
    <2>2. LinesFit(s, p)
        BY <1>2, <2>1, Zenon DEF LinesFit
    <2>3. Fits(s, p)
        BY <1>2, <2>1, Zenon DEF Fits, StatusFits, StoppedFits, NoneFits
    <2> QED BY <2>2, <2>3
<1> QED BY <1>4, <1>5, <1>6, <1>7 DEF Complete, Sound

LEMMA Continues ==
    ASSUME PlanningInv, NEW t, Committable(t), UNCHANGED stock,
           reserved' = t.reserved, res' = t.res, order' = t.order, unmet' = t.unmet
    PROVE  PlanningInv'
<1> DEFINE s == [flushed |-> t.reserved, reserved |-> t.reserved, res |-> t.res,
                 order |-> t.order, unmet |-> t.unmet, raised |-> FALSE, short |-> FALSE]
<1>1. Complete(s)
    BY FreshIsComplete
<1>2. Begun' = s
    BY DEF Begun
<1> HIDE DEF s
<1>3. Complete(Begun')
    BY <1>1, <1>2
<1>4. (stock \in [Warehouse -> Nat])'
    BY DEF PlanningInv
<1> QED BY <1>3, <1>4 DEF PlanningInv

LEMMA CallCommits ==
    ASSUME PlanningInv, NEW t, Committable(t), CommitCall(t), UNCHANGED stock
    PROVE  PlanningInv'
BY Continues DEF CommitCall

(* Each call keeps it. *)
LEMMA BegunIsCommittable ==
    ASSUME PlanningInv
    PROVE  Complete(Begun) /\ Sound(Begun) /\ Committable(Begun)
BY CompleteIsCommittable DEF PlanningInv, Complete

LEMMA ShippedIsPlanned ==
    ASSUME PlanningInv, NEW o \in Order
    PROVE  /\ Planned(PlanFulfillment(Begun, o), Begun, o)
           /\ Committable(PlanFulfillment(Begun, o))
           /\ Planned(GenerateShipments(PlanFulfillment(Begun, o), o), Begun, o)
           /\ Committable(GenerateShipments(PlanFulfillment(Begun, o), o))
<1> DEFINE t == Begun
           p == PlanFulfillment(t, o)
           s == GenerateShipments(p, o)
<1>1. Complete(t) /\ Sound(t) /\ stock \in [Warehouse -> Nat]
    BY BegunIsCommittable DEF PlanningInv
<1> HIDE DEF t
<1>2. Planned(p, t, o)
    BY <1>1, OrderIsPlanned
<1> HIDE DEF p
<1>3. Complete(p)
    BY <1>1, <1>2, PlannedIsComplete
<1>4. /\ Sound(p) /\ Shaped(p) /\ Kept(p, t, o) /\ StatusFits(p, o)
      /\ p.order[o].status \in {"validating", "partially_allocated", "fulfillment_planned"}
      /\ p.order[o].by = "call"
    BY <1>2 DEF Planned, Sound
<1>5. /\ Alike(s, p, o)
      /\ s.order[o].status = p.order[o].status /\ s.order[o].by = p.order[o].by
    BY <1>4, ShipmentsAlike
<1> HIDE DEF s
<1>6. Sound(s) /\ Kept(s, p, o)
    BY <1>4, <1>5, AlikeIsSound
<1>7. Kept(s, t, o)
    BY <1>4, <1>6, KeptSteps
<1>8. StatusFits(s, o)
    <2>1. /\ s.order[o].allocated = p.order[o].allocated
          /\ s.order[o].backorder = p.order[o].backorder /\ s.unmet = p.unmet
        BY <1>5 DEF Alike
    <2> QED BY <1>4, <1>5, <2>1, Zenon DEF StatusFits
<1>9. Planned(s, t, o)
    BY <1>4, <1>5, <1>6, <1>7, <1>8 DEF Planned
<1>10. Complete(s)
    BY <1>1, <1>9, PlannedIsComplete
<1>11. Committable(p) /\ Committable(s)
    BY <1>3, <1>10, CompleteIsCommittable
<1> QED BY <1>2, <1>9, <1>11 DEF s, p, t

LEMMA FulfillOrderSafe ==
    ASSUME PlanningInv, NEW o \in Order, FulfillOrder(o)
    PROVE  PlanningInv'
<1>1. Committable(GenerateShipments(PlanFulfillment(Begun, o), o))
    BY ShippedIsPlanned
<1> QED BY <1>1, CallCommits DEF FulfillOrder

(* The statuses that the calls set. *)
LEMMA StatusesSet ==
    /\ {"cancelled", "backordered", "fulfillment_planned", "partially_allocated", "allocating",
        "received", "validating"} \subseteq OrderStatus
    /\ {"call", "workflow", "compensation"} \subseteq Author
BY DEF OrderStatus, Live, Pending, Author

LEMMA MarkedFits ==
    ASSUME NEW t, Committable(t), NEW o \in Order, NEW status \in OrderStatus, NEW by \in Author,
           StatusFits(Marked(t, o, status, by), o), StoppedFits(Marked(t, o, status, by), o),
           status # "none"
    PROVE  Committable(Marked(t, o, status, by))
<1>1. Shaped(t)
    BY DEF Committable, Balanced
<1>2. Marked(t, o, status, by).order[o].status = status
    BY <1>1, MarkedAlike
<1>3. NoneFits(Marked(t, o, status, by), o)
    BY <1>2 DEF NoneFits
<1> QED BY <1>3, MarkedIsCommittable DEF Fits

LEMMA ExecuteWorkflowSafe ==
    ASSUME PlanningInv, NEW o \in Order, ExecuteWorkflow(o)
    PROVE  PlanningInv'
<1> DEFINE t == GenerateShipments(PlanFulfillment(Begun, o), o)
           s == Marked(t, o, "fulfillment_planned", "workflow")
<1>1. Committable(t) /\ Shaped(t)
    BY ShippedIsPlanned DEF Committable, Balanced
<1>2. CommitCall(s) /\ UNCHANGED stock
    BY Zenon DEF ExecuteWorkflow, Marked
<1> HIDE DEF t
<1>3. s.order[o].status = "fulfillment_planned" /\ s.order[o].by = "workflow"
    BY <1>1, StatusesSet, MarkedAlike
<1>4. StatusFits(s, o) /\ StoppedFits(s, o)
    BY <1>3 DEF StatusFits, StoppedFits
<1>5. Committable(s)
    BY <1>1, <1>4, StatusesSet, MarkedFits
<1> HIDE DEF s
<1> QED BY <1>2, <1>5, CallCommits

LEMMA ReserveOrderSafe ==
    ASSUME PlanningInv, NEW o \in Order, ReserveOrder(o)
    PROVE  PlanningInv'
<1> DEFINE t == Begun
           done == AllocateLines(t, o, NoPreference)
           backordered == \E l \in DOMAIN Lines[o] : done.order[o].backorder[l] > 0
           status == IF backordered THEN "partially_allocated" ELSE "allocating"
           s == Marked(done, o, status, "call")
<1>1. Complete(t) /\ Sound(t) /\ stock \in [Warehouse -> Nat] /\ ~t.short
    BY BegunIsCommittable DEF PlanningInv, Begun
<1>2. CommitCall(s) /\ UNCHANGED stock
    BY Zenon DEF ReserveOrder, Marked
<1> HIDE DEF t
<1>3. Allocating(t, t, o)
    BY <1>1, KeptItself DEF Allocating, Drained
<1>4. Allocating(done, t, o) /\ \A l \in DOMAIN Lines[o] : Settled(done, o, l)
    BY <1>1, <1>3, AllocatesLines
<1> HIDE DEF done
<1>5. Sound(done) /\ Balanced(done) /\ Shaped(done) /\ Drained(done, o) /\ Kept(done, t, o)
    BY <1>4 DEF Allocating, Sound, Balanced
<1>6. \A p \in Order \ {o} : Fits(done, p)
    BY <1>1, <1>5, KeptFits DEF Complete
<1>7. status \in OrderStatus /\ "call" \in Author
    BY StatusesSet
<1>8. backordered => status = "partially_allocated"
    OBVIOUS
<1>9. ~backordered => status = "allocating" /\ ~done.short
    BY <1>5 DEF Drained
<1> HIDE DEF status
<1>10. /\ Alike(s, done, o) /\ s.order[o].status = status /\ s.order[o].by = "call"
    BY <1>5, <1>7, MarkedAlike
<1> HIDE DEF s
<1>11. Balanced(s) /\ Kept(s, done, o)
    BY <1>5, <1>10, AlikeIsBalanced
<1>12. /\ s.order[o].allocated = done.order[o].allocated
       /\ s.order[o].backorder = done.order[o].backorder /\ s.unmet = done.unmet
    BY <1>10 DEF Alike
<1>13. StatusFits(s, o)
    <2>1. CASE backordered
        BY <1>8, <1>10, <1>12, <2>1 DEF StatusFits
    <2>2. CASE ~backordered
        <3>1. \A l \in DOMAIN Lines[o] :
                    s.order[o].allocated[l] = Lines[o][l] \/ <<o, l>> \in s.unmet
            BY <1>4, <1>9, <1>12, <2>2 DEF Settled
        <3>2. s.order[o].status = "allocating"
            BY <1>9, <1>10, <2>2
        <3> QED BY <3>1, <3>2 DEF StatusFits
    <2> QED BY <2>1, <2>2
<1>14. status \in {"partially_allocated", "allocating"}
    BY <1>8, <1>9
<1>15. Fits(s, o)
    BY <1>10, <1>13, <1>14 DEF Fits, StoppedFits, NoneFits
<1>16. \A p \in Order \ {o} : Fits(s, p)
    BY <1>6, <1>11, KeptFits
<1>17. Committable(s)
    BY <1>11, <1>15, <1>16 DEF Committable
<1> QED BY <1>2, <1>17, CallCommits

LEMMA CancelOrderSafe ==
    ASSUME PlanningInv, NEW o \in Order, CancelOrder(o)
    PROVE  PlanningInv'
<1> DEFINE t == ReleasedOrder(Begun, o)
           s == Marked(t, o, "cancelled", "call")
<1>1. /\ Committable(t) /\ Shaped(t)
      /\ \A i \in DOMAIN t.res : t.res[i].order = o => ~t.res[i].active
    BY BegunIsCommittable, OrderIsReleased DEF Committable, Balanced
<1>2. CommitCall(s) /\ UNCHANGED stock
    BY Zenon DEF CancelOrder, Marked
<1> HIDE DEF t
<1>3. Alike(s, t, o) /\ s.order[o].status = "cancelled" /\ s.order[o].by = "call"
    BY <1>1, StatusesSet, MarkedAlike
<1>4. s.res = t.res
    BY <1>3 DEF Alike
<1>5. StatusFits(s, o) /\ StoppedFits(s, o)
    BY <1>1, <1>3, <1>4 DEF StatusFits, StoppedFits
<1>6. Committable(s)
    BY <1>1, <1>5, StatusesSet, MarkedFits
<1> HIDE DEF s
<1> QED BY <1>2, <1>6, CallCommits

LEMMA RejectPartialSafe ==
    ASSUME PlanningInv, NEW o \in Order, RejectPartial(o)
    PROVE  PlanningInv'
<1> DEFINE p == PlanFulfillment(Begun, o)
           t == ReleasedOrder(p, o)
           s == [t EXCEPT !.order[o].status = "backordered"]
           by == t.order[o].by
           r == Marked(t, o, "backordered", by)
<1>1. Committable(p)
    BY ShippedIsPlanned
<1>2. CommitCall(s) /\ UNCHANGED stock
    BY Zenon DEF RejectPartial
<1> HIDE DEF p
<1>3. /\ Committable(t) /\ Shaped(t)
      /\ \A i \in DOMAIN t.res : t.res[i].order = o => ~t.res[i].active
    BY <1>1, OrderIsReleased DEF Committable, Balanced
<1> HIDE DEF t
<1>4. t \in Transaction /\ t.order \in [Order -> UNION {OrderRow(q) : q \in Order}]
      /\ t.order[o] \in OrderRow(o) /\ by \in Author
    BY <1>3 DEF Shaped, Transaction, OrderRow
<1>5. s = r
    BY <1>4 DEF Marked, Transaction, OrderRow
<1> HIDE DEF s, by
<1>6. Alike(r, t, o) /\ r.order[o].status = "backordered"
    BY <1>3, <1>4, StatusesSet, MarkedAlike
<1>7. r.res = t.res
    BY <1>6 DEF Alike
<1>8. StatusFits(r, o) /\ StoppedFits(r, o)
    BY <1>3, <1>6, <1>7 DEF StatusFits, StoppedFits
<1>9. Committable(r)
    BY <1>3, <1>4, <1>8, StatusesSet, MarkedFits
<1> HIDE DEF r
<1> QED BY <1>2, <1>5, <1>9, CallCommits

LEMMA CompensateWorkflowSafe ==
    ASSUME PlanningInv, NEW o \in Order, CompensateWorkflow(o)
    PROVE  PlanningInv'
<1> DEFINE g == GenerateShipments(PlanFulfillment(Begun, o), o)
           t == ReleasedOrder(g, o)
           s == [t EXCEPT !.order[o].by = "compensation"]
           status == t.order[o].status
           r == Marked(t, o, status, "compensation")
<1>1. Planned(g, Begun, o) /\ Committable(g)
    BY ShippedIsPlanned
<1>2. CommitCall(s) /\ UNCHANGED stock
    BY Zenon DEF CompensateWorkflow
<1> HIDE DEF g
<1>3. /\ Committable(t) /\ Shaped(t)
      /\ \A i \in DOMAIN t.res : t.res[i].order = o => ~t.res[i].active
      /\ t.order = g.order /\ t.unmet = g.unmet
    BY <1>1, OrderIsReleased DEF Committable, Balanced
<1>4. /\ StatusFits(g, o) /\ g.order[o].by = "call"
      /\ g.order[o].status \in {"validating", "partially_allocated", "fulfillment_planned"}
    BY <1>1 DEF Planned
<1> HIDE DEF t
<1>5. t \in Transaction /\ t.order \in [Order -> UNION {OrderRow(q) : q \in Order}]
      /\ t.order[o] \in OrderRow(o) /\ status \in OrderStatus
    BY <1>3 DEF Shaped, Transaction, OrderRow
<1>6. s = r
    BY <1>5 DEF Marked, Transaction, OrderRow
<1>7. status \in {"validating", "partially_allocated", "fulfillment_planned"}
    BY <1>3, <1>4
<1>8. status = g.order[o].status
    BY <1>3
<1> HIDE DEF s, status
<1>9. Alike(r, t, o) /\ r.order[o].status = status
    BY <1>3, <1>5, StatusesSet, MarkedAlike
<1>10. /\ r.res = t.res /\ r.unmet = t.unmet
       /\ r.order[o].allocated = g.order[o].allocated
       /\ r.order[o].backorder = g.order[o].backorder
    BY <1>3, <1>9 DEF Alike
<1>11. StatusFits(r, o) /\ StoppedFits(r, o)
    <2>1. StoppedFits(r, o)
        BY <1>3, <1>10 DEF StoppedFits
    <2>2. StatusFits(r, o)
        BY <1>3, <1>4, <1>8, <1>9, <1>10 DEF StatusFits
    <2> QED BY <2>1, <2>2
<1>12. Committable(r)
    BY <1>3, <1>5, <1>7, <1>11, StatusesSet, MarkedFits
<1> HIDE DEF r
<1> QED BY <1>2, <1>6, <1>12, CallCommits
LEMMA AllocationBatchSafe ==
    ASSUME PlanningInv, AllocationBatch
    PROVE  PlanningInv'
<1> DEFINE pending == {o \in Order : order[o].status \in Pending}
           Sooner(p) == {o \in Order : Urgency[o] < Urgency[p]}
           before == [p \in pending |-> Sooner(p)]
           queue == Ordered(pending, before)
           t == PlanOrders(Begun, queue)
<1>1. CommitCall(t) /\ UNCHANGED stock
    BY Zenon DEF AllocationBatch
<1>2. pending \in SUBSET Order
    OBVIOUS
<1>3. \A p \in pending : \A o \in Order : o \in before[p] <=> Urgency[o] < Urgency[p]
    OBVIOUS
<1> HIDE DEF pending, before
<1>4. IsFiniteSet(pending)
    BY <1>2, OrderFinite, FS_Subset
<1>5. \A o \in Order : Urgency[o] \in Int
    BY UrgencyOK
<1>6. /\ \A x \in pending : x \notin before[x]
      /\ \A x, y \in pending : x # y => x \in before[y] \/ y \in before[x]
      /\ \A x, y, z \in pending : x \in before[y] /\ y \in before[z] => x \in before[z]
    BY <1>2, <1>3, <1>5, UrgencyOK
<1>7. Cardinality(pending) \in Nat /\ queue \in [1 .. Cardinality(pending) -> pending]
    BY <1>4, <1>6, OrderedLists
<1> HIDE DEF queue
<1>8. Len(queue) \in Nat /\ \A i \in 1 .. Len(queue) : queue[i] \in Order
    <2>1. queue \in Seq(pending)
        BY <1>7
    <2> QED BY <1>2, <2>1
<1>9. Complete(Begun) /\ stock \in [Warehouse -> Nat]
    BY DEF PlanningInv
<1>10. Complete(t)
    <2> HIDE DEF t
    <2>1. t = PlanOrders(Begun, queue)
        BY DEF t
    <2> QED BY <1>8, <1>9, <2>1, OrdersArePlanned
<1> HIDE DEF t
<1>11. Committable(t)
    BY <1>10, CompleteIsCommittable
<1> QED BY <1>1, <1>11, CallCommits

LEMMA ExpireReservationsSafe ==
    ASSUME PlanningInv, NEW n \in DOMAIN res, ExpireReservations(n)
    PROVE  PlanningInv'
<1> DEFINE expired == {i \in 1 .. n : res[i].active}
           t == Released(Begun, expired)
<1>1. CommitCall(t) /\ UNCHANGED stock
    BY Zenon DEF ExpireReservations
<1>2. Committable(Begun) /\ Begun.res = res
    BY BegunIsCommittable DEF Begun
<1>3. res \in Seq(Reservation)
    BY <1>2 DEF Committable, Balanced, Shaped, Transaction
<1>4. expired \in SUBSET DOMAIN Begun.res /\ \A i \in expired : Begun.res[i].active
    BY <1>2, <1>3
<1> HIDE DEF expired
<1>5. Committable(t)
    BY <1>2, <1>4, ReleaseIsCommittable
<1> HIDE DEF t
<1> QED BY <1>1, <1>5, CallCommits

LEMMA ReceiveSafe ==
    ASSUME PlanningInv, NEW w \in Warehouse, Receive(w)
    PROVE  PlanningInv'
<1>1. Begun' = Begun
    BY DEF Receive, Begun
<1>2. Complete(Begun')
    BY <1>1 DEF PlanningInv
<1>3. stock' \in [Warehouse -> Nat]
    BY DEF Receive, PlanningInv
<1> QED BY <1>2, <1>3 DEF PlanningInv

LEMMA CreateOrderSafe ==
    ASSUME PlanningInv, NEW o \in Order, NEW partial \in BOOLEAN,
           NEW strategy \in Strategies[o], CreateOrder(o, partial, strategy)
    PROVE  PlanningInv'
<1> DEFINE t == Begun
           row == [t.order[o] EXCEPT !.status = "received", !.partial = partial,
                                     !.strategy = strategy]
           s == WithRow(t, o, row)
<1>1. /\ Balanced(t) /\ Shaped(t) /\ Counted(t) /\ t.order[o].status = "none"
      /\ \A p \in Order : LinesFit(t, p) /\ Fits(t, p)
    BY BegunIsCommittable DEF Committable, Balanced, CreateOrder, Begun
<1>2. /\ t.reserved = reserved /\ t.res = res /\ t.order = order /\ t.unmet = unmet
    BY DEF Begun
<1> HIDE DEF t
<1>3. /\ t.order \in [Order -> UNION {OrderRow(p) : p \in Order}] /\ t.order[o] \in OrderRow(o)
      /\ t \in Transaction
    BY <1>1 DEF Shaped, Transaction
<1>4. strategy \in Strategy
    BY StrategiesOK, Zenon DEF Strategy
<1>5. t.order[o] = NoOrder(o)
    BY <1>1 DEF Fits, NoneFits
<1>6. /\ \A l \in DOMAIN Lines[o] : t.order[o].allocated[l] = 0
      /\ t.order[o].by = "call"
    BY <1>5 DEF NoOrder
<1>7. order' = [t.order EXCEPT ![o] = row] /\ UNCHANGED <<stock, reserved, res, unmet>>
    BY <1>2, <1>3 DEF CreateOrder, OrderRow
<1>8. /\ row \in OrderRow(o) /\ row.status = "received" /\ row.by = "call"
      /\ row.allocated = t.order[o].allocated /\ row.backorder = t.order[o].backorder
    BY <1>3, <1>4, <1>6, StatusesSet DEF OrderRow
<1> HIDE DEF row
<1>9. s.order = [t.order EXCEPT ![o] = row]
    BY <1>3 DEF WithRow, Transaction
<1>10. HasRow(s, t, o, row)
    BY <1>1, <1>8, RowWritten
<1> HIDE DEF s
<1>11. /\ Shaped(s) /\ s.reserved = t.reserved /\ s.res = t.res /\ s.unmet = t.unmet
       /\ \A p \in Order \ {o} : s.order[p] = t.order[p]
       /\ s.order[o] = row
    BY <1>10 DEF HasRow
<1>12. Counted(s)
    BY <1>1, <1>11, Zenon DEF Counted
<1>13. Kept(s, t, o)
    BY <1>11 DEF Kept
<1>14. LinesFit(s, o)
    BY <1>1, <1>6, <1>8, <1>11 DEF LinesFit
<1>15. ASSUME NEW p \in Order \ {o} PROVE LinesFit(s, p)
    <2>1. LinesFit(t, p) /\ s.order[p] = t.order[p] /\ s.res = t.res
        BY <1>1, <1>11
    <2> QED BY <2>1, Zenon DEF LinesFit
<1>16. Balanced(s)
    BY <1>11, <1>12, <1>14, <1>15 DEF Balanced
<1>17. Fits(s, o)
    BY <1>8, <1>11 DEF Fits, StatusFits, StoppedFits, NoneFits
<1>18. \A p \in Order \ {o} : Fits(s, p)
    BY <1>1, <1>13, KeptFits
<1>19. Committable(s)
    BY <1>16, <1>17, <1>18 DEF Committable
<1>20. /\ reserved' = s.reserved /\ res' = s.res /\ order' = s.order /\ unmet' = s.unmet
       /\ UNCHANGED stock
    BY <1>2, <1>7, <1>9, <1>11
<1> QED BY <1>19, <1>20, Continues

(* A repair makes the counter agree, and counts what was uncounted. *)
LEMMA SyncWarehouseSafe ==
    ASSUME PlanningInv, NEW w \in Warehouse, SyncWarehouse(w)
    PROVE  PlanningInv'
<1> DEFINE t == Begun
           held == HeldIn(t.res, ActiveIn(t.res, w))
           after == [t.reserved EXCEPT ![w] = held]
           table == [i \in DOMAIN t.res |->
                        IF t.res[i].warehouse = w /\ t.res[i].fate = "uncounted"
                        THEN [t.res[i] EXCEPT !.fate = "taken"] ELSE t.res[i]]
           s == [t EXCEPT !.reserved = after, !.res = table]
<1>1. /\ Balanced(t) /\ Shaped(t) /\ Counted(t)
      /\ \A p \in Order : LinesFit(t, p) /\ Fits(t, p)
    BY BegunIsCommittable DEF Committable, Balanced
<1>2. /\ t.reserved = reserved /\ t.res = res /\ t.order = order /\ t.unmet = unmet
    BY DEF Begun
<1>a. ActiveAt(w) = ActiveIn(t.res, w) /\ Held(ActiveAt(w)) = held
    BY <1>2 DEF ActiveAt, ActiveIn, Held
<1>3. reserved' = after /\ res' = table /\ UNCHANGED <<stock, order, unmet>>
    BY <1>2, <1>a DEF SyncWarehouse
<1> HIDE DEF t
<1>4. /\ t \in Transaction /\ t.res \in Seq(Reservation) /\ t.reserved \in [Warehouse -> Nat]
      /\ \A p \in Order : t.order[p] \in OrderRow(p)
    BY <1>1 DEF Shaped, Transaction
<1>5. \A v \in Warehouse : /\ ActiveIn(t.res, v) \in SUBSET DOMAIN t.res
                           /\ LostIn(t.res, v) \in SUBSET DOMAIN t.res
    BY DEF ActiveIn, LostIn
<1>6. held \in Nat
    BY <1>4, <1>5, HeldNatural
<1> HIDE DEF held
<1>7. after \in [Warehouse -> Nat] /\ after[w] = held
      /\ \A v \in Warehouse \ {w} : after[v] = t.reserved[v]
    BY <1>4, <1>6
<1>8. \A i \in DOMAIN t.res :
          /\ table[i] \in Reservation
          /\ table[i].order = t.res[i].order /\ table[i].warehouse = t.res[i].warehouse
          /\ table[i].quantity = t.res[i].quantity /\ table[i].active = t.res[i].active
          /\ table[i].fate = IF t.res[i].warehouse = w /\ t.res[i].fate = "uncounted"
                             THEN "taken" ELSE t.res[i].fate
    <2> TAKE i \in DOMAIN t.res
    <2>1. t.res[i] \in Reservation
        BY <1>4
    <2> QED BY <2>1 DEF Reservation, Fate
<1>9. table \in Seq(Reservation) /\ DOMAIN table = DOMAIN t.res
    <2>1. table = [i \in DOMAIN t.res |-> table[i]]
        OBVIOUS
    <2>2. DOMAIN t.res = 1 .. Len(t.res) /\ Len(t.res) \in Nat
        BY <1>4
    <2> HIDE DEF table
    <2>3. table \in [1 .. Len(t.res) -> Reservation]
        BY <1>8, <2>1, <2>2
    <2> QED BY <2>2, <2>3
<1> HIDE DEF after, table
<1>10. /\ s \in Transaction /\ s.reserved = after /\ s.res = table /\ s.order = t.order
       /\ s.unmet = t.unmet
    BY <1>4, <1>7, <1>9 DEF Transaction
<1> HIDE DEF s
<1>11. Shaped(s)
    BY <1>4, <1>10 DEF Shaped
<1>12. ASSUME NEW X \in SUBSET DOMAIN t.res PROVE HeldIn(table, X) = HeldIn(t.res, X)
    BY <1>8, <1>9, HeldAlike
<1>13. \A v \in Warehouse : ActiveIn(table, v) = ActiveIn(t.res, v)
    BY <1>8, <1>9 DEF ActiveIn
<1>14. LostIn(table, w) = {}
    BY <1>8, <1>9 DEF LostIn
<1>15. \A v \in Warehouse \ {w} : LostIn(table, v) = LostIn(t.res, v)
    BY <1>8, <1>9 DEF LostIn
<1>16. Counted(s)
    <2> SUFFICES ASSUME NEW v \in Warehouse
                 PROVE  LET drift == HeldIn(table, ActiveIn(table, v)) - after[v]
                        IN  0 <= drift /\ drift <= HeldIn(table, LostIn(table, v))
        BY <1>10 DEF Counted
    <2>1. HeldIn(table, ActiveIn(table, v)) = HeldIn(t.res, ActiveIn(t.res, v))
        BY <1>5, <1>12, <1>13
    <2>2. CASE v = w
        <3>1. HeldIn(table, LostIn(table, v)) = 0
            BY <1>14, <2>2, HeldByNone
        <3>2. HeldIn(table, ActiveIn(table, v)) = held
            BY <2>1, <2>2 DEF held
        <3> QED BY <1>6, <1>7, <2>2, <3>1, <3>2
    <2>3. CASE v # w
        <3>1. HeldIn(table, LostIn(table, v)) = HeldIn(t.res, LostIn(t.res, v))
            BY <1>5, <1>12, <1>15, <2>3
        <3>2. after[v] = t.reserved[v]
            BY <1>7, <2>3
        <3> QED BY <1>1, <2>1, <3>1, <3>2 DEF Counted
    <2> QED BY <2>2, <2>3
<1>17. ASSUME NEW p \in Order PROVE LinesFit(s, p)
    <2>1. BookedIn(table, p) = BookedIn(t.res, p) /\ BookedIn(t.res, p) \in SUBSET DOMAIN t.res
        BY <1>8, <1>9 DEF BookedIn
    <2>2. HeldIn(s.res, BookedIn(s.res, p)) = HeldIn(t.res, BookedIn(t.res, p))
        BY <1>10, <1>12, <2>1
    <2>3. LinesFit(t, p) /\ s.order = t.order
        BY <1>1, <1>10
    <2> QED BY <2>2, <2>3, Zenon DEF LinesFit
<1>18. ASSUME NEW p \in Order PROVE Fits(s, p)
    <2>1. Fits(t, p)
        BY <1>1
    <2>2. StatusFits(s, p) /\ NoneFits(s, p)
        BY <1>10, <2>1, Zenon DEF Fits, StatusFits, NoneFits
    <2>3. StoppedFits(s, p)
        BY <1>8, <1>9, <1>10, <2>1 DEF Fits, StoppedFits
    <2> QED BY <2>2, <2>3 DEF Fits
<1>19. Committable(s)
    BY <1>11, <1>16, <1>17, <1>18 DEF Committable, Balanced
<1>20. /\ reserved' = s.reserved /\ res' = s.res /\ order' = s.order /\ unmet' = s.unmet
       /\ UNCHANGED stock
    BY <1>2, <1>3, <1>10
<1> QED BY <1>19, <1>20, Continues
LEMMA NoOrderRow ==
    ASSUME NEW o \in Order
    PROVE  /\ NoOrder(o) \in OrderRow(o)
           /\ NoOrder(o).status = "none" /\ NoOrder(o).by = "call"
           /\ \A l \in DOMAIN Lines[o] :
                 NoOrder(o).allocated[l] = 0 /\ NoOrder(o).backorder[l] = 0
<1> DEFINE zero == [l \in DOMAIN Lines[o] |-> 0]
           none == [w \in Warehouse |-> "none"]
           unshipped == [w \in Warehouse |-> 0]
<1>1. NoOrder(o) = [status |-> "none", partial |-> FALSE, strategy |-> "cost_optimized",
                    allocated |-> zero, backorder |-> zero, plan |-> none,
                    shipments |-> unshipped, by |-> "call"]
    BY DEF NoOrder
<1>2. /\ zero \in [DOMAIN Lines[o] -> Nat] /\ \A l \in DOMAIN Lines[o] : zero[l] = 0
      /\ none \in [Warehouse -> {"none", "planned", "executing"}]
      /\ unshipped \in [Warehouse -> Nat]
    OBVIOUS
<1>3. "none" \in OrderStatus /\ "call" \in Author
    BY DEF OrderStatus, Author
<1>4. "cost_optimized" \in Strategy
    BY DEF Strategy
<1> HIDE DEF zero, none, unshipped
<1>5. NoOrder(o) \in OrderRow(o)
    BY <1>1, <1>2, <1>3, <1>4 DEF OrderRow
<1> QED BY <1>1, <1>2, <1>5

LEMMA PlanningStarts ==
    ASSUME PlanningInit
    PROVE  PlanningInv
<1> DEFINE t == Begun
           zero == [w \in Warehouse |-> 0]
           orders == [o \in Order |-> NoOrder(o)]
<1>0. t = [flushed |-> zero, reserved |-> zero, res |-> <<>>, order |-> orders, unmet |-> {},
           raised |-> FALSE, short |-> FALSE]
    BY DEF PlanningInit, Begun
<1> HIDE DEF t
<1>1. /\ t.flushed = zero /\ t.reserved = zero /\ t.res = <<>> /\ t.unmet = {}
      /\ t.order = orders
    BY <1>0
<1>2. \A o \in Order : NoOrder(o) \in OrderRow(o)
    BY NoOrderRow
<1>3. \A o \in Order : t.order[o] = NoOrder(o)
    <2> HIDE DEF NoOrder
    <2> QED BY <1>1
<1>4. t.order \in [Order -> UNION {OrderRow(o) : o \in Order}]
    BY <1>1, <1>2
<1>5. t \in Transaction
    <2>1. zero \in [Warehouse -> Nat]
        OBVIOUS
    <2>2. orders \in [Order -> UNION {OrderRow(o) : o \in Order}]
        BY <1>1, <1>4
    <2>3. <<>> \in Seq(Reservation) /\ {} \in SUBSET (Order \X Nat)
        OBVIOUS
    <2> HIDE DEF zero, orders
    <2> QED BY <1>0, <2>1, <2>2, <2>3 DEF Transaction
<1>6. Shaped(t)
    BY <1>2, <1>3, <1>5 DEF Shaped
<1>7. Lag(t)
    BY <1>1 DEF Lag
<1>8. \A w \in Warehouse : ActiveIn(t.res, w) = {} /\ LostIn(t.res, w) = {}
    BY <1>1 DEF ActiveIn, LostIn
<1>9. Counted(t)
    <2>1. ASSUME NEW w \in Warehouse
          PROVE  /\ HeldIn(t.res, ActiveIn(t.res, w)) = 0 /\ HeldIn(t.res, LostIn(t.res, w)) = 0
                 /\ t.reserved[w] = 0
        BY <1>1, <1>8, HeldByNone
    <2> QED BY <2>1 DEF Counted
<1>10. ASSUME NEW o \in Order PROVE LinesFit(t, o)
    <2>1. \A l \in DOMAIN Lines[o] : /\ t.order[o].allocated[l] = 0
                                     /\ t.order[o].backorder[l] = 0
        BY <1>3, NoOrderRow
    <2>2. Total(DOMAIN Lines[o], t.order[o].allocated) = 0
        BY <2>1, TotalZero
    <2>3. BookedIn(t.res, o) = {}
        BY <1>1 DEF BookedIn
    <2> QED BY <2>1, <2>2, <2>3, HeldByNone DEF LinesFit
<1>11. ASSUME NEW o \in Order PROVE Fits(t, o)
    <2>1. t.order[o].status = "none" /\ t.order[o].by = "call"
        BY <1>3, NoOrderRow
    <2> QED BY <1>3, <2>1 DEF Fits, StatusFits, StoppedFits, NoneFits
<1>12. Complete(t)
    BY <1>6, <1>7, <1>9, <1>10, <1>11 DEF Complete, Sound
<1> QED BY <1>12, StockOK DEF PlanningInv, PlanningInit, t

(* Whatever calls of the planner, the batch, the workflow, reserve_order,   *)
(* cancel, expiry and reconciliation have committed, the four tables satisfy *)
(* the inductive invariant: they are what a session that begins now may     *)
(* plan on.                                                                 *)
THEOREM PlanningInvariant == PlanningSpec => []PlanningInv
<1>1. PlanningInit => PlanningInv
    BY PlanningStarts
<1>2. PlanningInv /\ [PlanningNext]_planningVars => PlanningInv'
    <2> SUFFICES ASSUME PlanningInv, [PlanningNext]_planningVars PROVE PlanningInv'
        OBVIOUS
    <2>1. ASSUME NEW o \in Order, NEW partial \in BOOLEAN, NEW strategy \in Strategies[o],
                 CreateOrder(o, partial, strategy)
          PROVE  PlanningInv'
        BY <2>1, CreateOrderSafe
    <2>2. ASSUME NEW o \in Order, FulfillOrder(o) PROVE PlanningInv'
        BY <2>2, FulfillOrderSafe
    <2>3. ASSUME NEW o \in Order, ReserveOrder(o) PROVE PlanningInv'
        BY <2>3, ReserveOrderSafe
    <2>4. ASSUME NEW o \in Order, CancelOrder(o) PROVE PlanningInv'
        BY <2>4, CancelOrderSafe
    <2>5. ASSUME NEW o \in Order, RejectPartial(o) PROVE PlanningInv'
        BY <2>5, RejectPartialSafe
    <2>6. ASSUME NEW o \in Order, ExecuteWorkflow(o) PROVE PlanningInv'
        BY <2>6, ExecuteWorkflowSafe
    <2>7. ASSUME NEW o \in Order, CompensateWorkflow(o) PROVE PlanningInv'
        BY <2>7, CompensateWorkflowSafe
    <2>8. ASSUME AllocationBatch PROVE PlanningInv'
        BY <2>8, AllocationBatchSafe
    <2>9. ASSUME NEW n \in DOMAIN res, ExpireReservations(n) PROVE PlanningInv'
        BY <2>9, ExpireReservationsSafe
    <2>10. ASSUME NEW w \in Warehouse, Receive(w) PROVE PlanningInv'
        BY <2>10, ReceiveSafe
    <2>11. ASSUME NEW w \in Warehouse, SyncWarehouse(w) PROVE PlanningInv'
        BY <2>11, SyncWarehouseSafe
    <2>12. CASE UNCHANGED planningVars
        <3>1. Begun' = Begun /\ stock' = stock
            BY <2>12 DEF planningVars, Begun
        <3>2. Complete(Begun') /\ stock' \in [Warehouse -> Nat]
            BY <3>1 DEF PlanningInv
        <3> QED BY <3>2 DEF PlanningInv
    <2> QED BY <2>1, <2>2, <2>3, <2>4, <2>5, <2>6, <2>7, <2>8, <2>9, <2>10, <2>11, <2>12
            DEF PlanningNext
<1> QED BY <1>1, <1>2, PTL DEF PlanningSpec

LEMMA BegunFields ==
    /\ Begun.reserved = reserved /\ Begun.res = res /\ Begun.order = order
    /\ Begun.unmet = unmet
BY DEF Begun

(* No call of the planner or of what releases for it takes a reserved       *)
(* counter below zero, and every order and reservation keeps its shape.     *)
THEOREM PlanningIsTyped == PlanningSpec => []PlanningTypeOK
<1>1. PlanningInv => PlanningTypeOK
    <2> SUFFICES ASSUME PlanningInv PROVE PlanningTypeOK
        OBVIOUS
    <2>1. Shaped(Begun) /\ stock \in [Warehouse -> Nat]
        BY DEF PlanningInv, Complete, Sound
    <2>2. /\ reserved \in [Warehouse -> Nat] /\ res \in Seq(Reservation)
          /\ \A o \in Order : order[o] \in OrderRow(o)
        BY <2>1, BegunFields DEF Shaped, Transaction
    <2>3. \A i \in DOMAIN res : res[i] \in Reservation
        BY <2>2
    <2>4. \A i \in DOMAIN res : /\ res[i].order \in Order /\ res[i].warehouse \in Warehouse
                                /\ res[i].quantity > 0 /\ res[i].fate \in Fate
        BY <2>3 DEF Reservation
    <2>5. \A o \in Order : /\ order[o].status \in Live \cup {"none", "cancelled"}
                           /\ order[o].plan \in [Warehouse -> {"none", "planned", "executing"}]
                           /\ order[o].by \in Author
        BY <2>2 DEF OrderRow, OrderStatus
    <2> QED BY <2>1, <2>2, <2>4, <2>5 DEF PlanningTypeOK
<1> QED BY <1>1, PlanningInvariant, PTL

(* AllocationEngine.allocate ranks from counters that are flushed late: the *)
(* reserved counter of a warehouse then misses the reservations whose       *)
(* insertion it raised after, and those only.  No order of retries, batches,*)
(* releases and repairs makes it miss more or exceed the reservations.      *)
THEOREM DriftExplained == PlanningSpec => []DriftIsUncounted
<1>1. PlanningInv => DriftIsUncounted
    <2> SUFFICES ASSUME PlanningInv, NEW w \in Warehouse
                 PROVE  LET drift == Held(ActiveAt(w)) - reserved[w]
                        IN  0 <= drift /\ drift <= Held(Uncounted(w))
        BY DEF DriftIsUncounted
    <2>1. Counted(Begun)
        BY DEF PlanningInv, Complete, Sound
    <2>2. ActiveIn(res, w) = ActiveAt(w) /\ LostIn(res, w) = Uncounted(w)
        BY DEF ActiveIn, ActiveAt, LostIn, Uncounted
    <2>3. LET drift == HeldIn(res, ActiveIn(res, w)) - reserved[w]
          IN  0 <= drift /\ drift <= HeldIn(res, LostIn(res, w))
        BY <2>1, BegunFields, Zenon DEF Counted
    <2> QED BY <2>2, <2>3, Zenon DEF Held
<1> QED BY <1>1, PlanningInvariant, PTL

(* FulfillmentPlanner._allocate_inventory adds to a line what allocate      *)
(* returned: over all warehouses and retries that is the units booked for   *)
(* its order, no more than ordered, and all or nothing without splitting.   *)
THEOREM BookingsAgree == PlanningSpec => []LinesMatchReservations
<1>1. PlanningInv => LinesMatchReservations
    <2> SUFFICES ASSUME PlanningInv, NEW o \in Order
                 PROVE  /\ Total(DOMAIN Lines[o], order[o].allocated) = Held(Booked(o))
                        /\ \A l \in DOMAIN Lines[o] :
                              /\ order[o].allocated[l] + order[o].backorder[l] \in {0, Lines[o][l]}
                              /\ ~order[o].partial => order[o].allocated[l] \in {0, Lines[o][l]}
        BY DEF LinesMatchReservations
    <2>1. LinesFit(Begun, o)
        BY DEF PlanningInv, Complete, Sound
    <2>2. BookedIn(res, o) = Booked(o)
        BY DEF BookedIn, Booked
    <2> QED BY <2>1, <2>2, BegunFields, Zenon DEF LinesFit, Held
<1> QED BY <1>1, PlanningInvariant, PTL

(* _update_order_status and reserve_order look at the results of one call   *)
(* only; yet an order called planned has no line open but those whose       *)
(* allocation raised, unless the workflow's last step called it so.         *)
THEOREM StatusesTell == PlanningSpec => []StatusFitsLines
<1>1. PlanningInv => StatusFitsLines
    <2> SUFFICES ASSUME PlanningInv, NEW o \in Order
                 PROVE  LET Covered(l) == order[o].allocated[l] = Lines[o][l]
                        IN  /\ order[o].status \in {"fulfillment_planned", "allocating"} =>
                                  \/ \A l \in DOMAIN Lines[o] : Covered(l) \/ <<o, l>> \in unmet
                                  \/ order[o].by = "workflow"
                            /\ order[o].status = "partially_allocated" =>
                                  \E l \in DOMAIN Lines[o] : order[o].backorder[l] > 0
        BY DEF StatusFitsLines
    <2>1. StatusFits(Begun, o)
        BY DEF PlanningInv, Complete, Fits
    <2> QED BY <2>1, BegunFields, Zenon DEF StatusFits
<1> QED BY <1>1, PlanningInvariant, PTL

(* What release_reservations frees at a cancel, a rejected partial plan or  *)
(* a compensation is all the order holds, and no later call gives a stopped *)
(* order anything without planning it anew.                                 *)
THEOREM StoppedIsReleased == PlanningSpec => []StoppedHoldsNothing
<1>1. PlanningInv => StoppedHoldsNothing
    <2> SUFFICES ASSUME PlanningInv, NEW i \in DOMAIN res,
                        \/ order[res[i].order].status \in {"cancelled", "backordered"}
                        \/ order[res[i].order].by = "compensation"
                 PROVE  ~res[i].active
        BY DEF StoppedHoldsNothing
    <2>1. Shaped(Begun) /\ \A o \in Order : StoppedFits(Begun, o)
        BY DEF PlanningInv, Complete, Sound, Fits
    <2>2. res \in Seq(Reservation)
        BY <2>1, BegunFields DEF Shaped, Transaction
    <2>3. res[i].order \in Order
        <3>1. res[i] \in Reservation
            BY <2>2
        <3> QED BY <3>1 DEF Reservation
    <2> QED BY <2>1, <2>3, BegunFields, Zenon DEF StoppedFits
<1> QED BY <1>1, PlanningInvariant, PTL
================================================================================
