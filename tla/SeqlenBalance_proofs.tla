------------------------- MODULE SeqlenBalance_proofs -------------------------
(***************************************************************************)
(* For any batch, any number of ranks and any workloads: the differencing  *)
(* method places every sample once, the ranks it returns differ by no more *)
(* than two samples of the batch do, and no assertion on them can fail.    *)
(***************************************************************************)
EXTENDS SeqlenBalance, FiniteSetTheorems, TLAPS

\* What the steps keep: every State of the heap is in decreasing order.
InOrder == \A s \in heap : Decreasing(s)
BalanceInv == TypeOK /\ InOrder /\ SpreadBounded /\ PlacedOnce

-----------------------------------------------------------------------------
(* Places and sums *)

LEMMA PlaceFacts ==
  /\ 1 \in Places /\ K \in Places
  /\ \A p \in Places : K + 1 - p \in Places /\ p \in Int
  /\ \A p, q \in Places : p <= q => K + 1 - q <= K + 1 - p
  /\ \A p \in Places : K + 1 - (K + 1 - p) = p
BY BalanceAssumption DEF Places

LEMMA ItemIsNat == \A i \in Items : i \in Nat
BY BalanceAssumption DEF Items

LEMMA SetOf ==
  ASSUME NEW s \in States, NEW p \in Places
  PROVE  s[p] \in Sets /\ s[p].sum \in Nat /\ s[p].items \subseteq Items
BY DEF States, Sets

LEMMA SpreadIsInt == \A s \in States : Spread(s) \in Int
<1> SUFFICES ASSUME NEW s \in States PROVE Spread(s) \in Int
  OBVIOUS
<1>1. s[1].sum \in Nat /\ s[K].sum \in Nat
  BY SetOf, PlaceFacts
<1> QED BY <1>1 DEF Spread

LEMMA SumsDescend ==
  ASSUME NEW s \in States, Decreasing(s), NEW p \in Places, NEW q \in Places, p <= q
  PROVE  s[q].sum <= s[p].sum
<1>1. s[p].sum \in Nat /\ s[q].sum \in Nat
  BY SetOf
<1>2. CASE p = q
  BY <1>1, <1>2
<1>3. CASE p < q
  BY <1>1, <1>3 DEF Decreasing, Less
<1> QED BY <1>2, <1>3, PlaceFacts

LEMMA JoinIsSet ==
  ASSUME NEW a \in Sets, NEW b \in Sets
  PROVE  Join(a, b) \in Sets /\ Join(a, b).items = a.items \cup b.items
         /\ Join(a, b).sum = a.sum + b.sum
BY DEF Sets, Join

LEMMA MergedIsState ==
  ASSUME NEW s \in States, NEW t \in States, NEW f \in Rearrangements
  PROVE  [p \in Places |-> Merged(s, t)[f[p]]] \in States
<1>1. \A p \in Places : f[p] \in Places
  BY DEF Rearrangements, IsOneToOne
<1>2. \A p \in Places : Merged(s, t)[p] \in Sets
  BY SetOf, JoinIsSet, PlaceFacts DEF Merged
<1> QED BY <1>1, <1>2 DEF States

\* What a merged State holds at a place.
LEMMA MergedAt ==
  ASSUME NEW s \in States, NEW t \in States, NEW f \in Rearrangements, NEW p \in Places
  PROVE  LET m == [q \in Places |-> Merged(s, t)[f[q]]] IN
         /\ f[p] \in Places /\ K + 1 - f[p] \in Places
         /\ m[p].items = s[f[p]].items \cup t[K + 1 - f[p]].items
         /\ m[p].sum = s[f[p]].sum + t[K + 1 - f[p]].sum
<1>1. f[p] \in Places /\ K + 1 - f[p] \in Places
  BY PlaceFacts DEF Rearrangements, IsOneToOne
<1>2. s[f[p]] \in Sets /\ t[K + 1 - f[p]] \in Sets
  BY <1>1, SetOf
<1>3. Merged(s, t)[f[p]] = Join(s[f[p]], t[K + 1 - f[p]])
  BY <1>1 DEF Merged
<1>4. [q \in Places |-> Merged(s, t)[f[q]]][p] = Join(s[f[p]], t[K + 1 - f[p]])
  BY <1>3
<1>5. /\ Join(s[f[p]], t[K + 1 - f[p]]).items = s[f[p]].items \cup t[K + 1 - f[p]].items
      /\ Join(s[f[p]], t[K + 1 - f[p]]).sum = s[f[p]].sum + t[K + 1 - f[p]].sum
  BY <1>2, JoinIsSet
<1> QED BY <1>1, <1>4, <1>5

-----------------------------------------------------------------------------
(* The spread of a merged State is at most one of the two it was made of. *)

LEMMA MergeNarrows ==
  ASSUME NEW s \in States, NEW t \in States, Decreasing(s), Decreasing(t),
         NEW f \in Rearrangements
  PROVE  LET m == [p \in Places |-> Merged(s, t)[f[p]]] IN
         Spread(m) <= Spread(s) \/ Spread(m) <= Spread(t)
<1> DEFINE m == [p \in Places |-> Merged(s, t)[f[p]]]
           a == f[1]
           b == f[K]
<1> HIDE DEF m
<1>1. a \in Places /\ b \in Places /\ K + 1 - a \in Places /\ K + 1 - b \in Places
  BY PlaceFacts DEF Rearrangements, IsOneToOne
<1>2. \A p \in Places : m[p].sum = s[f[p]].sum + t[K + 1 - f[p]].sum
  BY MergedAt DEF m
<1>8. /\ m[1].sum = s[a].sum + t[K + 1 - a].sum
      /\ m[K].sum = s[b].sum + t[K + 1 - b].sum
  BY <1>2, PlaceFacts
<1>3. /\ s[a].sum \in Nat /\ s[b].sum \in Nat /\ s[1].sum \in Nat /\ s[K].sum \in Nat
      /\ t[K + 1 - a].sum \in Nat /\ t[K + 1 - b].sum \in Nat
      /\ t[1].sum \in Nat /\ t[K].sum \in Nat
  BY <1>1, SetOf, PlaceFacts
<1>4. \A p \in Places : 1 <= p /\ p <= K
  BY DEF Places
<1>5. ASSUME a <= b PROVE Spread(m) <= Spread(s)
  <2>1. s[a].sum <= s[1].sum /\ s[K].sum <= s[b].sum
    BY <1>1, <1>4, SumsDescend, PlaceFacts
  <2>2. t[K + 1 - a].sum <= t[K + 1 - b].sum
    BY <1>1, <1>5, SumsDescend, PlaceFacts
  <2> QED BY <1>8, <1>3, <2>1, <2>2 DEF Spread
<1>6. ASSUME b <= a PROVE Spread(m) <= Spread(t)
  <2>1. t[K + 1 - a].sum <= t[1].sum /\ t[K].sum <= t[K + 1 - b].sum
    BY <1>1, <1>4, SumsDescend, PlaceFacts
  <2>2. s[a].sum <= s[b].sum
    BY <1>1, <1>6, SumsDescend, PlaceFacts
  <2> QED BY <1>8, <1>3, <2>1, <2>2 DEF Spread
<1>7. a <= b \/ b <= a
  <2>1. a \in Int /\ b \in Int
    BY <1>1, PlaceFacts
  <2> HIDE DEF a, b
  <2> QED BY <2>1
<1>9. Spread(m) <= Spread(s) \/ Spread(m) <= Spread(t)
  BY <1>5, <1>6, <1>7
<1> QED BY <1>9 DEF m

\* No sample of two States gets lost in the merge, or comes from elsewhere.
LEMMA MergeCovers ==
  ASSUME NEW s \in States, NEW t \in States, NEW f \in Rearrangements, NEW i,
         NEW q \in Places, i \in s[q].items \/ i \in t[q].items
  PROVE  \E p \in Places : i \in [r \in Places |-> Merged(s, t)[f[r]]][p].items
<1>1. CASE i \in s[q].items
  <2>1. PICK p \in Places : f[p] = q
    BY DEF Rearrangements, IsOneToOne
  <2> QED BY <1>1, <2>1, MergedAt
<1>2. CASE i \in t[q].items
  <2>1. K + 1 - q \in Places
    BY PlaceFacts
  <2>2. PICK p \in Places : f[p] = K + 1 - q
    BY <2>1 DEF Rearrangements, IsOneToOne
  <2>3. K + 1 - f[p] = q
    BY <2>2, PlaceFacts
  <2> QED BY <1>2, <2>3, MergedAt
<1> QED BY <1>1, <1>2

-----------------------------------------------------------------------------
(* Initial states *)

LEMMA SingleIsSet ==
  ASSUME work \in [Items -> Workloads], NEW i \in Items
  PROVE  /\ Single(i) \in Sets /\ Single(i).items = {i} /\ Single(i).sum = work[i]
         /\ work[i] \in Nat \ {0}
<1>1. work[i] \in Nat \ {0}
  BY BalanceAssumption
<1> QED BY <1>1 DEF Single, Sets

LEMMA EmptyIsSet == EmptySet \in Sets /\ EmptySet.items = {} /\ EmptySet.sum = 0
BY DEF EmptySet, Sets

\* The order of the sorted list makes a tuple a decreasing State.
LEMMA TuplesAreStates ==
  ASSUME work \in [Items -> Workloads], NEW list \in SortedLists, Ascending(list),
         NEW n \in 1 .. NumTuples
  PROVE  LET s == TupleState(list, n) IN
         /\ s \in States /\ Decreasing(s)
         /\ \E i, j \in Items : Spread(s) <= work[i] - work[j]
         /\ \A p \in Places : s[p].items = {list[<<n, p>>]}
<1> DEFINE s == TupleState(list, n)
<1>1. \A p \in Places : <<n, p>> \in Positions /\ list[<<n, p>>] \in Items
  BY DEF Positions, SortedLists, IsOneToOne
<1>2. \A p \in Places : /\ s[p] \in Sets /\ s[p].items = {list[<<n, p>>]}
                        /\ s[p].sum = work[list[<<n, p>>]] /\ s[p].sum \in Nat
  BY <1>1, SingleIsSet DEF TupleState
<1>3. s \in States
  BY <1>2 DEF TupleState, States
<1>4. Decreasing(s)
  <2> SUFFICES ASSUME NEW p \in Places, NEW q \in Places, p < q PROVE ~Less(s[p], s[q])
    BY DEF Decreasing
  <2>1. Before(list[<<n, q>>], list[<<n, p>>])
    <3> DEFINE c == <<n, q>>
               d == <<n, p>>
    <3>1. c \in Positions /\ d \in Positions /\ c[1] = n /\ c[2] = q /\ d[1] = n /\ d[2] = p
      BY <1>1
    <3>2. c[1] = d[1] /\ c[2] > d[2]
      BY <3>1, PlaceFacts
    <3> HIDE DEF c, d
    <3>3. Before(list[c], list[d])
      BY <3>1, <3>2 DEF Ascending
    <3> QED BY <3>3 DEF c, d
  <2>2. s[q].sum <= s[p].sum /\ s[q].sum \in Nat /\ s[p].sum \in Nat
    BY <1>1, <1>2, <2>1, ItemIsNat DEF Before
  <2>3. Cardinality(s[p].items) = Cardinality({list[<<n, p>>]})
        /\ Cardinality(s[q].items) = Cardinality({list[<<n, q>>]})
    BY <1>2
  <2>4. Cardinality(s[p].items) = 1 /\ Cardinality(s[q].items) = 1
    BY <2>3, FS_Singleton
  <2> QED BY <2>2, <2>4 DEF Less
<1>5. Spread(s) = work[list[<<n, 1>>]] - work[list[<<n, K>>]]
  BY <1>2, PlaceFacts DEF Spread
<1>6. list[<<n, 1>>] \in Items /\ list[<<n, K>>] \in Items
  BY <1>1, PlaceFacts
<1>7. Spread(s) <= work[list[<<n, 1>>]] - work[list[<<n, K>>]]
  <2>1. work[list[<<n, 1>>]] \in Nat /\ work[list[<<n, K>>]] \in Nat
    BY <1>6, SingleIsSet
  <2> QED BY <1>5, <2>1
<1> HIDE DEF s
<1>8. \E i, j \in Items : Spread(s) <= work[i] - work[j]
  BY <1>6, <1>7
<1> QED BY <1>2, <1>3, <1>4, <1>8 DEF s

\* An item alone in a State, with empty sets after it.
LEMMA ItemsAreStates ==
  ASSUME work \in [Items -> Workloads], NEW i \in Items
  PROVE  LET s == ItemState(i) IN
         /\ s \in States /\ Decreasing(s) /\ Spread(s) <= work[i]
         /\ \A p \in Places : s[p].items = IF p = 1 THEN {i} ELSE {}
<1> DEFINE s == ItemState(i)
<1>1. \A p \in Places : s[p] = IF p = 1 THEN Single(i) ELSE EmptySet
  BY DEF ItemState
<1>2. \A p \in Places : s[p] \in Sets
  BY <1>1, SingleIsSet, EmptyIsSet
<1>3. s \in States
  BY <1>2 DEF ItemState, States
<1>4. \A p \in Places : p # 1 => s[p].sum = 0 /\ s[p].items = {}
  BY <1>1, EmptyIsSet
<1>5. s[1].sum = work[i] /\ s[1].items = {i} /\ work[i] \in Nat \ {0}
  BY <1>1, SingleIsSet, PlaceFacts
<1> HIDE DEF s
<1>6. Decreasing(s)
  <2> SUFFICES ASSUME NEW p \in Places, NEW q \in Places, p < q PROVE ~Less(s[p], s[q])
    BY DEF Decreasing
  <2>1. q # 1
    BY DEF Places
  <2>2. s[q].sum = 0 /\ s[q].items = {}
    BY <1>4, <2>1
  <2>3. CASE p = 1
    BY <1>5, <2>2, <2>3 DEF Less
  <2>4. CASE p # 1
    <3>1. s[p].sum = 0 /\ s[p].items = s[q].items
      BY <1>4, <2>2, <2>4
    <3>2. Cardinality(s[p].items) = 0 /\ Cardinality(s[q].items) = 0
      BY <2>2, <3>1, FS_EmptySet
    <3> QED BY <2>2, <3>1, <3>2 DEF Less
  <2> QED BY <2>3, <2>4
<1>7. Spread(s) <= work[i]
  <2>1. s[K].sum \in Nat
    BY <1>3, SetOf, PlaceFacts
  <2> QED BY <1>5, <2>1 DEF Spread
<1>8. \A p \in Places : s[p].items = IF p = 1 THEN {i} ELSE {}
  BY <1>4, <1>5
<1> QED BY <1>3, <1>6, <1>7, <1>8 DEF s

-----------------------------------------------------------------------------
(* The invariant *)

LEMMA InitHolds == Init => BalanceInv
<1> SUFFICES ASSUME Init PROVE BalanceInv
  OBVIOUS
<1>0. work \in [Items -> Workloads] /\ equalSize \in BOOLEAN /\ partitions = << >> /\ failed = FALSE
  BY DEF Init
<1>1. CASE equalSize
  <2>1. PICK list \in SortedLists : /\ Ascending(list)
                                   /\ heap = {TupleState(list, n) : n \in 1 .. NumTuples}
    BY <1>1 DEF Init
  <2>2. \A s \in heap : /\ s \in States /\ Decreasing(s)
                        /\ \E i, j \in Items : Spread(s) <= work[i] - work[j]
    BY <1>0, <2>1, TuplesAreStates
  <2>3. \A i \in Items : \E s \in heap, p \in Places : i \in s[p].items
    <3> SUFFICES ASSUME NEW i \in Items
                 PROVE  \E s \in heap, p \in Places : i \in s[p].items
      OBVIOUS
    <3>1. PICK c \in Positions : list[c] = i
      BY DEF SortedLists, IsOneToOne
    <3>2. PICK n \in 1 .. NumTuples, p \in Places : c = <<n, p>>
      BY DEF Positions
    <3>3. TupleState(list, n)[p].items = {i}
      BY <1>0, <2>1, <3>1, <3>2, TuplesAreStates
    <3> QED BY <2>1, <3>3
  <2>4. ASSUME NEW s \in heap, NEW t \in heap, NEW p \in Places, NEW q \in Places,
               s[p].items \cap t[q].items # {}
        PROVE  s = t /\ p = q
    <3>1. PICK n \in 1 .. NumTuples : s = TupleState(list, n)
      BY <2>1
    <3>2. PICK k \in 1 .. NumTuples : t = TupleState(list, k)
      BY <2>1
    <3>3. s[p].items = {list[<<n, p>>]} /\ t[q].items = {list[<<k, q>>]}
      BY <1>0, <2>1, <3>1, <3>2, TuplesAreStates
    <3>4. <<n, p>> \in Positions /\ <<k, q>> \in Positions
      BY DEF Positions
    <3>5. list[<<n, p>>] = list[<<k, q>>]
      BY <2>4, <3>3
    <3>6. <<n, p>> = <<k, q>>
      BY <3>4, <3>5 DEF SortedLists, IsOneToOne
    <3> QED BY <3>1, <3>2, <3>6
  <2>5. TypeOK
    BY <1>0, <2>2 DEF TypeOK
  <2>6. InOrder /\ SpreadBounded
    BY <1>1, <2>2 DEF InOrder, SpreadBounded
  <2>7. PlacedOnce
    BY <2>3, <2>4 DEF PlacedOnce
  <2> QED BY <2>5, <2>6, <2>7 DEF BalanceInv
<1>2. CASE ~equalSize
  <2>1. heap = {ItemState(i) : i \in Items}
    BY <1>2 DEF Init
  <2>0. ASSUME NEW i \in Items
        PROVE  /\ ItemState(i) \in States /\ Decreasing(ItemState(i))
               /\ Spread(ItemState(i)) <= work[i]
               /\ ItemState(i)[1].items = {i}
    BY <1>0, ItemsAreStates, PlaceFacts
  <2>2. \A s \in heap : /\ s \in States /\ Decreasing(s)
                        /\ \E i \in Items : Spread(s) <= work[i]
    BY <2>0, <2>1
  <2>3. \A i \in Items : ItemState(i) \in heap /\ i \in ItemState(i)[1].items
    BY <2>0, <2>1
  <2>4. ASSUME NEW s \in heap, NEW t \in heap, NEW p \in Places, NEW q \in Places,
               s[p].items \cap t[q].items # {}
        PROVE  s = t /\ p = q
    <3>1. PICK i \in Items : s = ItemState(i)
      BY <2>1
    <3>2. PICK j \in Items : t = ItemState(j)
      BY <2>1
    <3>3. /\ s[p].items = IF p = 1 THEN {i} ELSE {}
          /\ t[q].items = IF q = 1 THEN {j} ELSE {}
      BY <1>0, <3>1, <3>2, ItemsAreStates
    <3>4. p = 1 /\ q = 1 /\ i = j
      BY <2>4, <3>3
    <3> QED BY <3>1, <3>2, <3>4
  <2>5. TypeOK
    BY <1>0, <2>2 DEF TypeOK
  <2>6. InOrder /\ SpreadBounded
    BY <1>2, <2>2 DEF InOrder, SpreadBounded
  <2>7. PlacedOnce
    BY <2>3, <2>4, PlaceFacts DEF PlacedOnce
  <2> QED BY <2>5, <2>6, <2>7 DEF BalanceInv
<1> QED BY <1>1, <1>2

LEMMA MergeKeeps == BalanceInv /\ Merge => BalanceInv'
<1> SUFFICES ASSUME BalanceInv, Merge PROVE BalanceInv'
  OBVIOUS
<1>1. PICK s \in heap, t \in heap : s # t /\
        \E f \in Rearrangements :
          LET m == [p \in Places |-> Merged(s, t)[f[p]]] IN
          Decreasing(m) /\ heap' = (heap \ {s, t}) \cup {m}
  BY DEF Merge, Largest
<1>2. PICK f \in Rearrangements :
        LET m == [p \in Places |-> Merged(s, t)[f[p]]] IN
        Decreasing(m) /\ heap' = (heap \ {s, t}) \cup {m}
  BY <1>1
<1> DEFINE m == [p \in Places |-> Merged(s, t)[f[p]]]
<1>3. work' = work /\ equalSize' = equalSize /\ partitions' = partitions /\ failed' = failed
  BY DEF Merge
<1>4. s \in States /\ t \in States /\ Decreasing(s) /\ Decreasing(t)
  BY <1>1 DEF BalanceInv, TypeOK, InOrder
<1>5. m \in States /\ (Spread(m) <= Spread(s) \/ Spread(m) <= Spread(t))
  BY <1>4, MergedIsState, MergeNarrows
<1>6. \A p \in Places : m[p].items = s[f[p]].items \cup t[K + 1 - f[p]].items
  BY <1>4, MergedAt
<1>7. \A i : \A q \in Places : i \in s[q].items \/ i \in t[q].items
                              => \E p \in Places : i \in m[p].items
  BY <1>4, MergeCovers
<1>8. Decreasing(m) /\ heap' = (heap \ {s, t}) \cup {m}
  BY <1>2
<1> HIDE DEF m
<1>9. TypeOK'
  BY <1>3, <1>5, <1>8 DEF BalanceInv, TypeOK
<1>10. InOrder'
  BY <1>8 DEF BalanceInv, InOrder
<1>11. SpreadBounded'
  <2> SUFFICES ASSUME NEW u \in heap'
               PROVE  IF equalSize THEN \E i, j \in Items : Spread(u) <= work[i] - work[j]
                                   ELSE \E i \in Items : Spread(u) <= work[i]
    BY <1>3 DEF SpreadBounded
  <2>1. \A v \in heap : IF equalSize THEN \E i, j \in Items : Spread(v) <= work[i] - work[j]
                                     ELSE \E i \in Items : Spread(v) <= work[i]
    BY DEF BalanceInv, SpreadBounded
  <2>2. CASE u # m
    BY <1>8, <2>1, <2>2
  <2>3. CASE u = m
    <3>1. Spread(m) \in Int /\ Spread(s) \in Int /\ Spread(t) \in Int
      BY <1>4, <1>5, SpreadIsInt
    <3>2. PICK v \in {s, t} : Spread(m) <= Spread(v) /\ Spread(v) \in Int
      BY <1>5, <3>1
    <3>3. v \in heap
      BY <1>1, <3>2
    <3>4. \A i \in Items : work[i] \in Nat
      BY SingleIsSet DEF BalanceInv, TypeOK
    <3>5. CASE equalSize
      <4>1. PICK i \in Items, j \in Items : Spread(v) <= work[i] - work[j]
        BY <2>1, <3>3, <3>5
      <4>2. Spread(m) <= work[i] - work[j]
        BY <3>1, <3>2, <3>4, <4>1
      <4> QED BY <2>3, <3>5, <4>2
    <3>6. CASE ~equalSize
      <4>1. PICK i \in Items : Spread(v) <= work[i]
        BY <2>1, <3>3, <3>6
      <4>2. Spread(m) <= work[i]
        BY <3>1, <3>2, <3>4, <4>1
      <4> QED BY <2>3, <3>6, <4>2
    <3> QED BY <3>5, <3>6
  <2> QED BY <2>2, <2>3
<1>12. PlacedOnce'
  <2>1. \A v, w \in heap : \A p, q \in Places :
          v[p].items \cap w[q].items # {} => v = w /\ p = q
    BY DEF BalanceInv, PlacedOnce
  <2>2. ASSUME NEW i \in Items PROVE \E u \in heap', p \in Places : i \in u[p].items
    <3>1. PICK v \in heap, q \in Places : i \in v[q].items
      BY DEF BalanceInv, PlacedOnce
    <3>2. CASE v \in {s, t}
      BY <1>7, <1>8, <3>1, <3>2
    <3>3. CASE v \notin {s, t}
      BY <1>8, <3>1, <3>3
    <3> QED BY <3>2, <3>3
  <2>3. ASSUME NEW v \in heap \ {s, t}, NEW p \in Places, NEW q \in Places
        PROVE  v[p].items \cap m[q].items = {}
    <3>1. f[q] \in Places /\ K + 1 - f[q] \in Places
      BY <1>4, MergedAt
    <3>2. v[p].items \cap s[f[q]].items = {} /\ v[p].items \cap t[K + 1 - f[q]].items = {}
      BY <1>1, <2>1, <2>3, <3>1
    <3> QED BY <1>6, <3>2
  <2>4. ASSUME NEW p \in Places, NEW q \in Places, m[p].items \cap m[q].items # {}
        PROVE  p = q
    <3>1. /\ f[p] \in Places /\ K + 1 - f[p] \in Places
          /\ f[q] \in Places /\ K + 1 - f[q] \in Places
      BY <1>4, MergedAt
    <3>2. \/ s[f[p]].items \cap s[f[q]].items # {}
          \/ t[K + 1 - f[p]].items \cap t[K + 1 - f[q]].items # {}
          \/ s[f[p]].items \cap t[K + 1 - f[q]].items # {}
          \/ t[K + 1 - f[p]].items \cap s[f[q]].items # {}
      BY <1>6, <2>4
    <3>3. f[p] = f[q] \/ K + 1 - f[p] = K + 1 - f[q]
      BY <1>1, <2>1, <3>1, <3>2
    <3>4. f[p] = f[q]
      BY <3>1, <3>3, PlaceFacts
    <3> QED BY <3>4 DEF Rearrangements, IsOneToOne
  <2>5. \A v, w \in heap' : \A p, q \in Places :
          v[p].items \cap w[q].items # {} => v = w /\ p = q
    BY <1>8, <2>1, <2>3, <2>4
  <2> QED BY <2>2, <2>5 DEF PlacedOnce
<1> QED BY <1>9, <1>10, <1>11, <1>12 DEF BalanceInv

LEMMA ReturnKeeps == BalanceInv /\ Return => BalanceInv'
<1> SUFFICES ASSUME BalanceInv, Return PROVE BalanceInv'
  OBVIOUS
<1>1. work' = work /\ equalSize' = equalSize /\ heap' = heap
  BY DEF Return
<1>2. TypeOK'
  <2>1. PICK s \in heap :
          \/ /\ AssertionsPass(s)
             /\ partitions' = [p \in Places |-> s[p].items] /\ failed' = failed
          \/ /\ ~AssertionsPass(s)
             /\ failed' = TRUE /\ partitions' = partitions
    BY Zenon DEF Return
  <2>2. [p \in Places |-> s[p].items] \in [Places -> SUBSET Items]
    BY SetOf DEF BalanceInv, TypeOK
  <2>3. partitions' \in {<< >>} \cup [Places -> SUBSET Items] /\ failed' \in BOOLEAN
    BY <2>1, <2>2 DEF BalanceInv, TypeOK
  <2> QED BY <1>1, <2>3 DEF BalanceInv, TypeOK
<1>3. InOrder' /\ SpreadBounded' /\ PlacedOnce'
  BY <1>1 DEF BalanceInv, InOrder, SpreadBounded, PlacedOnce
<1> QED BY <1>2, <1>3 DEF BalanceInv

THEOREM Invariant == Spec => []BalanceInv
<1>1. BalanceInv /\ UNCHANGED vars => BalanceInv'
  BY DEF BalanceInv, vars, TypeOK, InOrder, SpreadBounded, PlacedOnce
<1>2. BalanceInv /\ [Next]_vars => BalanceInv'
  BY <1>1, MergeKeeps, ReturnKeeps DEF Next
<1> QED BY InitHolds, <1>2, PTL DEF Spec

-----------------------------------------------------------------------------
(* Results *)

\* Every step of the call holds samples and sums only.
THEOREM TypeCorrect == Spec => []TypeOK
<1>1. BalanceInv => TypeOK
  BY DEF BalanceInv
<1> QED BY <1>1, Invariant, PTL

\* Every sample of the batch is in exactly one set while States are merged.
THEOREM EverySampleOnce == Spec => []PlacedOnce
<1>1. BalanceInv => PlacedOnce
  BY DEF BalanceInv
<1> QED BY <1>1, Invariant, PTL

\* The ranks' workloads differ by no more than those of two samples, or, with
\* sets of any size, by no more than one sample.
THEOREM NoWiderThanSamples == Spec => []SpreadBounded
<1>1. BalanceInv => SpreadBounded
  BY DEF BalanceInv
<1> QED BY <1>1, Invariant, PTL

-----------------------------------------------------------------------------
(* How many samples the sets hold *)

\* Every sample has work, so a set without any has no sample.
SumsTell == \A s \in heap : \A p \in Places : s[p].sum = 0 <=> s[p].items = {}

\* With equal_size the sets of a State have one size.
EvenSizes ==
  equalSize => \A s \in heap : \A p, q \in Places :
                 Cardinality(s[p].items) = Cardinality(s[q].items)

\* Without it, a State with an empty set has no set of two samples.
FullOrSingles ==
  ~equalSize => \A s \in heap :
    \/ \A p \in Places : s[p].items # {}
    \/ \A p \in Places : \A i, j \in s[p].items : i = j

SizesInv == SumsTell /\ EvenSizes /\ FullOrSingles

LEMMA ItemsFinite ==
  /\ IsFiniteSet(Items) /\ Cardinality(Items) = NumItems
  /\ \A T \in SUBSET Items : IsFiniteSet(T) /\ Cardinality(T) \in Nat
<1>1. 0 \in Int /\ NumItems - 1 \in Int /\ NumItems \in Nat \ {0}
  BY BalanceAssumption
<1>2. IsFiniteSet(Items)
  BY <1>1, FS_Interval DEF Items
<1>3. Cardinality(Items) = (NumItems - 1) - 0 + 1
  <2>1. Cardinality(0 .. NumItems - 1) = IF 0 > NumItems - 1 THEN 0 ELSE (NumItems - 1) - 0 + 1
    BY <1>1, FS_Interval
  <2> QED BY <1>1, <2>1 DEF Items
<1>4. ASSUME NEW T \in SUBSET Items PROVE IsFiniteSet(T) /\ Cardinality(T) \in Nat
  <2>1. IsFiniteSet(T)
    BY <1>2, FS_Subset
  <2> QED BY <2>1, FS_CardinalityType
<1> QED BY <1>1, <1>2, <1>3, <1>4

LEMMA PlacesFinite == IsFiniteSet(Places) /\ Cardinality(Places) = K
<1>1. 1 \in Int /\ K \in Int /\ K \in Nat \ {0}
  BY BalanceAssumption
<1>2. /\ IsFiniteSet(1 .. K)
      /\ Cardinality(1 .. K) = IF 1 > K THEN 0 ELSE K - 1 + 1
  BY <1>1, FS_Interval
<1> QED BY <1>1, <1>2 DEF Places

LEMMA BijectionIs ==
  ASSUME NEW S, NEW T, NEW b \in Bijection(S, T)
  PROVE  /\ \A x \in S : b[x] \in T
         /\ \A x, y \in S : b[x] = b[y] => x = y
         /\ \A t \in T : \E x \in S : b[x] = t
BY DEF Bijection, Injection, Surjection, IsInjective

\* Sets of one size that share out the samples are of NumTuples samples.
LEMMA EqualShares ==
  ASSUME NEW u \in [Places -> SUBSET Items], NEW a \in Nat,
         \A p \in Places : Cardinality(u[p]) = a,
         \A p, q \in Places : u[p] \cap u[q] # {} => p = q,
         \A i \in Items : \E p \in Places : i \in u[p]
  PROVE  a = NumTuples
<1> DEFINE S == Places \X (1 .. a)
           g == [p \in Places |-> CHOOSE b : b \in Bijection(1 .. a, u[p])]
           h == [c \in S |-> g[c[1]][c[2]]]
<1>1. ASSUME NEW p \in Places PROVE g[p] \in Bijection(1 .. a, u[p])
  <2>1. IsFiniteSet(u[p]) /\ Cardinality(u[p]) = a
    BY ItemsFinite
  <2>2. ExistsBijection(1 .. a, u[p])
    BY <2>1, FS_CardinalityType
  <2> QED BY <2>2 DEF ExistsBijection
<1> HIDE DEF g
<1>2. ASSUME NEW p \in Places
      PROVE  /\ \A x \in 1 .. a : g[p][x] \in u[p]
             /\ \A x, y \in 1 .. a : g[p][x] = g[p][y] => x = y
             /\ \A i \in u[p] : \E x \in 1 .. a : g[p][x] = i
  BY <1>1, BijectionIs
<1>3. h \in Bijection(S, Items)
  <2>1. \A c \in S : c[1] \in Places /\ c[2] \in 1 .. a /\ c = <<c[1], c[2]>> /\ h[c] = g[c[1]][c[2]]
    OBVIOUS
  <2>2. h \in [S -> Items]
    BY <1>2
  <2> HIDE DEF S, h
  <2>3. ASSUME NEW c \in S, NEW d \in S, h[c] = h[d] PROVE c = d
    <3>1. h[c] \in u[c[1]] /\ h[c] \in u[d[1]]
      BY <1>2, <2>1, <2>3
    <3>2. c[1] = d[1]
      BY <2>1, <3>1
    <3>3. c[2] = d[2]
      BY <1>2, <2>1, <2>3, <3>2
    <3> QED BY <2>1, <3>2, <3>3
  <2>4. ASSUME NEW i \in Items PROVE \E c \in S : h[c] = i
    <3>1. PICK p \in Places : i \in u[p]
      OBVIOUS
    <3>2. PICK x \in 1 .. a : g[p][x] = i
      BY <1>2, <3>1
    <3>3. <<p, x>> \in S
      BY DEF S
    <3>4. h[<<p, x>>] = i
      BY <3>2, <3>3 DEF h
    <3> QED BY <3>3, <3>4
  <2> QED BY <2>2, <2>3, <2>4 DEF Bijection, Injection, Surjection, IsInjective
<1>4. IsFiniteSet(S) /\ Cardinality(S) = K * a
  <2>1. IsFiniteSet(1 .. a) /\ Cardinality(1 .. a) = a
    <3>1. 1 \in Int /\ a \in Int
      OBVIOUS
    <3>2. IsFiniteSet(1 .. a) /\ Cardinality(1 .. a) = IF 1 > a THEN 0 ELSE a - 1 + 1
      BY <3>1, FS_Interval
    <3> QED BY <3>2
  <2> DEFINE A == 1 .. a
  <2>2. IsFiniteSet(A) /\ Cardinality(A) = a
    BY <2>1
  <2> HIDE DEF A
  <2>3. /\ IsFiniteSet(Places \X A)
        /\ Cardinality(Places \X A) = Cardinality(Places) * Cardinality(A)
    BY <2>2, PlacesFinite, FS_Product
  <2> QED BY <2>2, <2>3, PlacesFinite DEF A
<1> HIDE DEF S, h
<1>5. NumItems = K * a
  <2>1. ExistsBijection(S, Items)
    BY <1>3 DEF ExistsBijection
  <2> QED BY <1>4, <2>1, FS_Bijection, ItemsFinite
<1>6. \A k \in Nat \ {0} : (k * a) \div k = a
  OBVIOUS
<1> QED BY <1>5, <1>6, BalanceAssumption DEF NumTuples

\* Sets of at most one sample each that hold all of them leave no place empty.
LEMMA SinglesFill ==
  ASSUME NEW u \in [Places -> SUBSET Items], NEW e \in Places, u[e] = {},
         \A p \in Places : \A i, j \in u[p] : i = j,
         \A i \in Items : \E p \in Places : i \in u[p]
  PROVE  FALSE
<1> DEFINE T == Places \ {e}
           f == [i \in Items |-> CHOOSE p \in Places : i \in u[p]]
<1>1. \A i \in Items : f[i] \in Places /\ i \in u[f[i]]
  OBVIOUS
<1> HIDE DEF f
<1>2. f \in [Items -> T]
  <2>1. \A i \in Items : f[i] \in T
    BY <1>1
  <2> QED BY <2>1 DEF f
<1>3. IsFiniteSet(T) /\ Cardinality(T) = K - 1
  BY PlacesFinite, FS_RemoveElement
<1>4. Cardinality(T) < Cardinality(Items)
  BY <1>3, ItemsFinite, BalanceAssumption
<1> HIDE DEF T
<1>5. PICK i \in Items, j \in Items : i # j /\ f[i] = f[j]
  BY <1>2, <1>3, <1>4, ItemsFinite, FS_PigeonHole
<1> QED BY <1>1, <1>5

LEMMA SizesInit == Init => SizesInv
<1> SUFFICES ASSUME Init PROVE SizesInv
  OBVIOUS
<1>0. work \in [Items -> Workloads] /\ \A i \in Items : work[i] \in Nat \ {0}
  BY SingleIsSet DEF Init
<1>1. CASE equalSize
  <2>1. PICK list \in SortedLists : /\ Ascending(list)
                                   /\ heap = {TupleState(list, n) : n \in 1 .. NumTuples}
    BY <1>1 DEF Init
  <2>2. ASSUME NEW s \in heap, NEW p \in Places
        PROVE  \E i \in Items : s[p].items = {i} /\ s[p].sum = work[i]
    <3>1. PICK n \in 1 .. NumTuples : s = TupleState(list, n)
      BY <2>1
    <3>2. <<n, p>> \in Positions
      BY DEF Positions
    <3>3. list[<<n, p>>] \in Items
      BY <3>2 DEF SortedLists, IsOneToOne
    <3>4. s[p] = Single(list[<<n, p>>])
      BY <3>1 DEF TupleState
    <3> QED BY <3>3, <3>4 DEF Single
  <2>3. SumsTell
    BY <1>0, <2>2 DEF SumsTell
  <2>4. \A s \in heap : \A p \in Places : Cardinality(s[p].items) = 1
    BY <2>2, FS_Singleton
  <2> QED BY <1>1, <2>3, <2>4 DEF SizesInv, EvenSizes, FullOrSingles
<1>2. CASE ~equalSize
  <2>1. heap = {ItemState(i) : i \in Items}
    BY <1>2 DEF Init
  <2>2. ASSUME NEW s \in heap, NEW p \in Places
        PROVE  \E i \in Items : \/ s[p].items = {i} /\ s[p].sum = work[i]
                                \/ s[p].items = {} /\ s[p].sum = 0
    <3>1. PICK i \in Items : s = ItemState(i)
      BY <2>1
    <3>2. s[p] = IF p = 1 THEN Single(i) ELSE EmptySet
      BY <3>1 DEF ItemState
    <3> QED BY <3>2 DEF Single, EmptySet
  <2>3. SumsTell
    BY <1>0, <2>2 DEF SumsTell
  <2>4. FullOrSingles
    BY <2>2 DEF FullOrSingles
  <2> QED BY <1>2, <2>3, <2>4 DEF SizesInv, EvenSizes
<1> QED BY <1>1, <1>2 DEF Init

LEMMA MergeSizes == BalanceInv /\ SizesInv /\ Merge => SizesInv'
<1> SUFFICES ASSUME BalanceInv, SizesInv, Merge PROVE SizesInv'
  OBVIOUS
<1>1. PICK s \in heap, t \in heap : s # t /\
        \E f \in Rearrangements :
          LET m == [p \in Places |-> Merged(s, t)[f[p]]] IN
          Decreasing(m) /\ heap' = (heap \ {s, t}) \cup {m}
  BY DEF Merge, Largest
<1>2. PICK f \in Rearrangements :
        LET m == [p \in Places |-> Merged(s, t)[f[p]]] IN
        Decreasing(m) /\ heap' = (heap \ {s, t}) \cup {m}
  BY <1>1
<1> DEFINE m == [p \in Places |-> Merged(s, t)[f[p]]]
<1>3. work' = work /\ equalSize' = equalSize
  BY DEF Merge
<1>4. s \in States /\ t \in States /\ Decreasing(s) /\ Decreasing(t)
  BY <1>1 DEF BalanceInv, TypeOK, InOrder
<1>5. \A p \in Places : /\ f[p] \in Places /\ K + 1 - f[p] \in Places
                        /\ m[p].items = s[f[p]].items \cup t[K + 1 - f[p]].items
                        /\ m[p].sum = s[f[p]].sum + t[K + 1 - f[p]].sum
  BY <1>4, MergedAt
<1>6. heap' = (heap \ {s, t}) \cup {m}
  BY <1>2
<1> HIDE DEF m
<1>7. \A p \in Places : /\ s[p].sum \in Nat /\ s[p].items \subseteq Items
                        /\ t[p].sum \in Nat /\ t[p].items \subseteq Items
                        /\ s[p].sum = 0 <=> s[p].items = {}
                        /\ t[p].sum = 0 <=> t[p].items = {}
  BY <1>1, <1>4, SetOf DEF SizesInv, SumsTell
<1>8. SumsTell'
  <2>1. ASSUME NEW p \in Places PROVE m[p].sum = 0 <=> m[p].items = {}
    <3>1. \A a, b \in Nat : a + b = 0 <=> a = 0 /\ b = 0
      OBVIOUS
    <3>2. f[p] \in Places /\ K + 1 - f[p] \in Places
      BY <1>5
    <3>3. s[f[p]].sum \in Nat /\ t[K + 1 - f[p]].sum \in Nat
      BY <1>7, <3>2
    <3>4. s[f[p]].sum + t[K + 1 - f[p]].sum = 0
            <=> s[f[p]].sum = 0 /\ t[K + 1 - f[p]].sum = 0
      BY <3>1, <3>3
    <3>5. /\ s[f[p]].sum = 0 <=> s[f[p]].items = {}
          /\ t[K + 1 - f[p]].sum = 0 <=> t[K + 1 - f[p]].items = {}
      BY <1>7, <3>2
    <3>6. /\ m[p].items = s[f[p]].items \cup t[K + 1 - f[p]].items
          /\ m[p].sum = s[f[p]].sum + t[K + 1 - f[p]].sum
      BY <1>5
    <3> QED BY <3>4, <3>5, <3>6
  <2> QED BY <1>6, <2>1 DEF SizesInv, SumsTell
<1>9. EvenSizes'
  <2> SUFFICES ASSUME equalSize, NEW p \in Places, NEW q \in Places
               PROVE  Cardinality(m[p].items) = Cardinality(m[q].items)
    BY <1>3, <1>6 DEF SizesInv, EvenSizes
  <2>1. ASSUME NEW r \in Places
        PROVE  Cardinality(m[r].items) = Cardinality(s[1].items) + Cardinality(t[1].items)
    <3> DEFINE A == s[f[r]].items
               B == t[K + 1 - f[r]].items
    <3>1. A \cap B = {}
      BY <1>1, <1>5 DEF BalanceInv, PlacedOnce
    <3>2. IsFiniteSet(A) /\ IsFiniteSet(B) /\ Cardinality(A) \in Nat /\ Cardinality(B) \in Nat
      BY <1>5, <1>7, ItemsFinite
    <3>3. Cardinality(A) = Cardinality(s[1].items) /\ Cardinality(B) = Cardinality(t[1].items)
      <4>1. \A x, y \in Places : /\ Cardinality(s[x].items) = Cardinality(s[y].items)
                                 /\ Cardinality(t[x].items) = Cardinality(t[y].items)
        BY <1>1 DEF SizesInv, EvenSizes
      <4>2. f[r] \in Places /\ K + 1 - f[r] \in Places /\ 1 \in Places
        BY <1>5, PlaceFacts
      <4> QED BY <4>1, <4>2
    <3>4. m[r].items = A \cup B
      BY <1>5
    <3> HIDE DEF A, B
    <3>5. Cardinality(A \cup B) = Cardinality(A) + Cardinality(B)
      BY <3>1, <3>2, FS_Union, FS_EmptySet
    <3> QED BY <3>3, <3>4, <3>5
  <2> QED BY <2>1
<1>10. FullOrSingles'
  <2> SUFFICES ASSUME ~equalSize, NEW e \in Places, m[e].items = {},
                      NEW p \in Places, NEW i \in m[p].items, NEW j \in m[p].items
               PROVE  i = j
    BY <1>3, <1>6 DEF SizesInv, FullOrSingles
  <2> DEFINE a == f[p]
             b == f[e]
  <2>1. a \in Places /\ b \in Places /\ K + 1 - a \in Places /\ K + 1 - b \in Places
    BY <1>5
  <2>2. s[b].items = {} /\ t[K + 1 - b].items = {}
    BY <1>5
  <2>3. \A r \in Places : \A x, y \in s[r].items : x = y
    BY <1>1, <2>1, <2>2 DEF SizesInv, FullOrSingles
  <2>4. \A r \in Places : \A x, y \in t[r].items : x = y
    BY <1>1, <2>1, <2>2 DEF SizesInv, FullOrSingles
  <2>5. m[p].items = s[a].items \cup t[K + 1 - a].items
    BY <1>5
  <2> HIDE DEF a, b
  <2>6. a <= b \/ b <= a
    BY <2>1, PlaceFacts
  <2>7. CASE a <= b
    <3>1. t[K + 1 - a].sum <= t[K + 1 - b].sum
      BY <1>4, <2>1, <2>7, SumsDescend, PlaceFacts
    <3>2. t[K + 1 - a].items = {}
      BY <1>7, <2>1, <2>2, <3>1
    <3> QED BY <2>1, <2>3, <2>5, <3>2
  <2>8. CASE b <= a
    <3>1. s[a].sum <= s[b].sum
      BY <1>4, <2>1, <2>8, SumsDescend
    <3>2. s[a].items = {}
      BY <1>7, <2>1, <2>2, <3>1
    <3> QED BY <2>1, <2>4, <2>5, <3>2
  <2> QED BY <2>6, <2>7, <2>8
<1> QED BY <1>8, <1>9, <1>10 DEF SizesInv

\* The last State passes the assertions.
LEMMA LastPasses ==
  ASSUME BalanceInv, SizesInv, NEW s \in heap, heap = {s}
  PROVE  AssertionsPass(s)
<1> DEFINE u == [p \in Places |-> s[p].items]
<1>1. s \in States
  BY DEF BalanceInv, TypeOK
<1>2. u \in [Places -> SUBSET Items] /\ \A p \in Places : u[p] = s[p].items
  BY <1>1, SetOf
<1>3. /\ \A i \in Items : \E p \in Places : i \in u[p]
      /\ \A p, q \in Places : u[p] \cap u[q] # {} => p = q
  BY DEF BalanceInv, PlacedOnce
<1>4. UNION {s[p].items : p \in Places} = Items
  BY <1>2, <1>3
<1> HIDE DEF u
<1>5. ASSUME equalSize, NEW p \in Places
      PROVE  Cardinality(u[p]) = NumTuples
  <2>1. \A q \in Places : Cardinality(u[q]) = Cardinality(u[p])
    BY <1>2, <1>5 DEF SizesInv, EvenSizes
  <2>2. Cardinality(u[p]) \in Nat
    BY <1>2, ItemsFinite
  <2> QED BY <1>2, <1>3, <2>1, <2>2, EqualShares
<1>6. ASSUME NEW p \in Places PROVE u[p] # {}
  <2>1. CASE equalSize
    <3>1. Cardinality(u[p]) = NumTuples
      BY <1>5, <2>1
    <3>2. \A n \in Nat, k \in Nat \ {0} : n >= k => n \div k # 0
      OBVIOUS
    <3>3. NumTuples # 0
      BY <3>2, BalanceAssumption DEF NumTuples
    <3> QED BY <3>1, <3>3, FS_EmptySet
  <2>2. CASE ~equalSize
    <3> SUFFICES ASSUME u[p] = {} PROVE FALSE
      OBVIOUS
    <3>1. \A q \in Places : \A i, j \in u[q] : i = j
      BY <1>2, <2>2 DEF SizesInv, FullOrSingles
    <3> QED BY <1>2, <1>3, <3>1, SinglesFill
  <2> QED BY <2>1, <2>2
<1> QED BY <1>2, <1>4, <1>5, <1>6 DEF AssertionsPass

\* For any number of samples and ranks, with equal_size or without, the
\* assertions of the function hold: it never returns an empty partition, a
\* partition of another size, or fewer samples than it was given.
THEOREM NoAssertionFails == Spec => []AssertionsHold
<1> DEFINE Inv == SizesInv /\ AssertionsHold
<1>1. Init => Inv
  BY SizesInit DEF Init, AssertionsHold
<1>2. BalanceInv /\ Inv /\ [Next]_vars => Inv'
  <2> SUFFICES ASSUME BalanceInv, SizesInv, AssertionsHold, [Next]_vars
               PROVE  SizesInv' /\ AssertionsHold'
    OBVIOUS
  <2>1. CASE Merge
    <3>1. failed' = failed
      BY <2>1 DEF Merge
    <3>2. SizesInv'
      BY <2>1, MergeSizes
    <3> QED BY <3>1, <3>2 DEF AssertionsHold
  <2>2. CASE Return
    <3>1. heap' = heap /\ work' = work /\ equalSize' = equalSize
      BY <2>2 DEF Return
    <3>2. SizesInv'
      BY <3>1 DEF SizesInv, SumsTell, EvenSizes, FullOrSingles
    <3>3. PICK s \in heap :
            /\ heap = {s}
            /\ \/ AssertionsPass(s) /\ failed' = failed
               \/ ~AssertionsPass(s)
      BY <2>2, Zenon DEF Return
    <3>4. AssertionsPass(s)
      BY <3>3, LastPasses
    <3> QED BY <3>2, <3>3, <3>4 DEF AssertionsHold
  <2>3. CASE UNCHANGED vars
    BY <2>3 DEF vars, SizesInv, SumsTell, EvenSizes, FullOrSingles, AssertionsHold
  <2> QED BY <2>1, <2>2, <2>3 DEF Next
<1>3. Inv => AssertionsHold
  OBVIOUS
<1> QED BY <1>1, <1>2, <1>3, Invariant, PTL DEF Spec
=============================================================================
