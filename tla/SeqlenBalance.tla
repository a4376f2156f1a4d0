---------------------------- MODULE SeqlenBalance ----------------------------
(***************************************************************************)
(* The largest differencing method with which the driver spreads a batch   *)
(* over the data parallel ranks (verl/utils/seqlen_balancing.py), one step *)
(* per turn of its loop.                                                   *)
(*                                                                         *)
(* An item is the index of a sample.  The list the code sorts is a         *)
(* one-to-one map from positions of the sorted list to items.  The list of *)
(* items in a Set of the code is a set here: its order is lost in the sort *)
(* at the end, and decides only between sets of equal sum and length,      *)
(* where any order is allowed.                                             *)
(***************************************************************************)
EXTENDS Integers, FiniteSets

CONSTANTS
  NumItems,   \* len(seqlen_list)
  K,          \* k_partitions
  Workloads   \* the values of seqlen_list: positive, every sequence has tokens

Items == 0 .. NumItems - 1
Places == 1 .. K
NumTuples == NumItems \div K

\* The caller has no fewer samples than ranks.
ASSUME BalanceAssumption ==
  /\ K \in Nat \ {0} /\ NumItems \in Nat /\ NumItems >= K
  /\ Workloads \subseteq Nat \ {0}

VARIABLES
  work,        \* seqlen_list: the workload of every sample
  equalSize,   \* the argument equal_size
  heap,        \* states_pq: the States not merged yet
  partitions,  \* what the call returns; << >> while it runs
  failed       \* an assertion of the function did not hold

vars == <<work, equalSize, heap, partitions, failed>>

-----------------------------------------------------------------------------
(* Set and State *)

Sets == [items : SUBSET Items, sum : Nat]
States == [Places -> Sets]

EmptySet == [items |-> {}, sum |-> 0]
Single(i) == [items |-> {i}, sum |-> work[i]]
Join(a, b) == [items |-> a.items \cup b.items, sum |-> a.sum + b.sum]

Less(a, b) ==
  \/ a.sum < b.sum
  \/ a.sum = b.sum /\ Cardinality(a.items) < Cardinality(b.items)

\* "sets should always be decreasing order"
Decreasing(s) == \A p, q \in Places : p < q => ~Less(s[p], s[q])

Spread(s) == s[1].sum - s[K].sum

\* The largest of one state goes with the smallest of the other.
Merged_SameOrder(s, t) == [p \in Places |-> Join(s[p], t[p])]
Merged(s, t) == [p \in Places |-> Join(s[p], t[K + 1 - p])]

IsOneToOne(f, S, T) ==
  /\ f \in [S -> T]
  /\ \A x, y \in S : f[x] = f[y] => x = y
  /\ \A z \in T : \E x \in S : f[x] = z

Rearrangements == {f \in [Places -> Places] : IsOneToOne(f, Places, Places)}

-----------------------------------------------------------------------------
(* The sorted list, cut into tuples of K: position p of a tuple counts from *)
(* its end, as the sets of the State made of it are in decreasing order.    *)

Positions == (1 .. NumTuples) \X Places
SortedLists == {f \in [Positions -> Items] : IsOneToOne(f, Positions, Items)}

Before(i, j) == work[i] < work[j] \/ (work[i] = work[j] /\ i < j)

Ascending(list) ==
  \A c, d \in Positions :
    c[1] < d[1] \/ (c[1] = d[1] /\ c[2] > d[2]) => Before(list[c], list[d])

TupleState(list, n) == [p \in Places |-> Single(list[<<n, p>>])]
ItemState(i) == [p \in Places |-> IF p = 1 THEN Single(i) ELSE EmptySet]

\* With equal_size the batch is a multiple of the ranks: the trainer refuses
\* another train_batch_size when it starts.
Init ==
  /\ equalSize \in {b \in BOOLEAN : b => NumItems % K = 0}
  /\ \/ /\ equalSize
        /\ \E list \in SortedLists :
             /\ work \in [Items -> Workloads]
             /\ Ascending(list)
             /\ heap = {TupleState(list, n) : n \in 1 .. NumTuples}
     \/ /\ ~equalSize
        /\ work \in [Items -> Workloads]
        /\ heap = {ItemState(i) : i \in Items}
  /\ partitions = << >>
  /\ failed = FALSE

Largest(s, H) == s \in H /\ \A u \in H : Spread(u) <= Spread(s)

\* Two heappops, a merge and a heappush.
Merge_PushesBack ==
  \E s, t \in heap :
    /\ Largest(s, heap)
    /\ Largest(t, heap \ {s})
    /\ \E f \in Rearrangements :
         LET m == [p \in Places |-> Merged(s, t)[f[p]]] IN
         /\ Decreasing(m)
         /\ heap' = (heap \ {s}) \cup {m}
    /\ UNCHANGED <<work, equalSize, partitions, failed>>
Merge ==
  \E s, t \in heap :
    /\ Largest(s, heap)
    /\ Largest(t, heap \ {s})
    /\ \E f \in Rearrangements :
         LET m == [p \in Places |-> Merged(s, t)[f[p]]] IN
         /\ Decreasing(m)
         /\ heap' = (heap \ {s, t}) \cup {m}
    /\ UNCHANGED <<work, equalSize, partitions, failed>>

AssertionsPass(s) ==
  /\ \A p \in Places : s[p].items # {}
  /\ equalSize => \A p \in Places : Cardinality(s[p].items) = NumTuples
  /\ UNION {s[p].items : p \in Places} = Items

\* get_partitions and _check_and_sort_partitions.
Return_OneShort ==
  /\ partitions = << >> /\ ~failed
  /\ \E s \in heap :
       /\ heap = {s}
       /\ AssertionsPass(s)
       /\ partitions' = [p \in 1 .. K - 1 |-> s[p].items] /\ failed' = failed
  /\ UNCHANGED <<work, equalSize, heap>>
Return ==
  /\ partitions = << >> /\ ~failed
  /\ \E s \in heap :
       /\ heap = {s}
       /\ \/ /\ AssertionsPass(s)
             /\ partitions' = [p \in Places |-> s[p].items] /\ failed' = failed
          \/ /\ ~AssertionsPass(s)
             /\ failed' = TRUE /\ partitions' = partitions
  /\ UNCHANGED <<work, equalSize, heap>>

Next == Merge \/ Return
Spec == Init /\ [][Next]_vars

-----------------------------------------------------------------------------
(* Properties *)

\* Type correctness.
TypeOK ==
  /\ work \in [Items -> Workloads] /\ equalSize \in BOOLEAN
  /\ heap \subseteq States
  /\ partitions \in {<< >>} \cup [Places -> SUBSET Items]
  /\ failed \in BOOLEAN

\* Between two merges every sample is in exactly one set of one state: none is
\* dropped from the update and none is trained twice.
PlacedOnce ==
  /\ \A i \in Items : \E s \in heap, p \in Places : i \in s[p].items
  /\ \A s, t \in heap : \A p, q \in Places :
       s[p].items \cap t[q].items # {} => s = t /\ p = q

\* Merging never widens a spread: two ranks never differ by more than two
\* samples of the batch do, or with sets of any size by more than one sample.
SpreadBounded ==
  \A s \in heap :
    IF equalSize THEN \E i, j \in Items : Spread(s) <= work[i] - work[j]
                 ELSE \E i \in Items : Spread(s) <= work[i]

\* None of the assertions in the function can fail, the one on empty
\* partitions included, although without equal_size most sets start empty.
AssertionsHold == ~failed
=============================================================================
