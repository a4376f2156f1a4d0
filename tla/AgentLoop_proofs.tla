-------------------------- MODULE AgentLoop_proofs --------------------------
(***************************************************************************)
(* For any number of workers, servers, rows and rollouts: sessions are     *)
(* dealt evenly and stay on the server they began on, a rollout comes back *)
(* whole and in the trainer's order, and no request outlives it.           *)
(***************************************************************************)
EXTENDS AgentLoop, SequenceTheorems, FiniteSetTheorems, TLAPS

Entries == [session : Batches \X Nat, place : Places]
RowStates == [at : Steps, turn : 0 .. Turns, place : 0 .. Cardinality(Servers)]

\* A running batch has rows for all it was asked for.
Fits ==
  phase = "running" =>
    chunk \in Nat \ {0} /\ size \in 1 .. NumWorkers * chunk /\ batch \in Batches

\* A row that is to ask has a turn left.
TurnLeft == \A i \in Rows : row[i].at = "ask" => row[i].turn < Turns

\* What a worker returned is made of its rows in order, all of them done.
Given ==
  phase = "running" =>
    \A w \in Workers :
      \/ outputs[w] = << >>
      \/ /\ outputs[w] = [k \in 1 .. chunk |-> PromptOf(Chunk(w)[k])]
         /\ \A i \in RowsOf(w) : row[i].at = "done"

NoResultYet == phase = "running" => result = << >>

LoopInv ==
  TypeOK /\ Fits /\ TurnLeft /\ Given /\ NoResultYet
  /\ DealsEvenly /\ InOrder /\ QuietBetweenRollouts

-----------------------------------------------------------------------------
(* Quotients and remainders *)

LEMMA Division ==
  ASSUME NEW a \in Nat, NEW c \in Nat \ {0}
  PROVE  /\ a \div c \in Nat /\ a % c \in 0 .. c - 1
         /\ a = c * (a \div c) + (a % c)
BY SMT

LEMMA Quotient ==
  ASSUME NEW q \in Nat, NEW c \in Nat \ {0}, NEW r \in 0 .. c - 1
  PROVE  (c * q + r) \div c = q /\ (c * q + r) % c = r
BY SMT

LEMMA Below ==
  ASSUME NEW q \in Nat, NEW r \in Nat, NEW c \in Nat \ {0}, NEW m \in Nat,
         c * q + r < m * c
  PROVE  q < m
<1> SUFFICES ASSUME q >= m PROVE FALSE
  OBVIOUS
<1>1. c * q >= c * m
  OBVIOUS
<1> QED BY <1>1

\* The padded batch is a multiple of the workers and no smaller than the batch.
LEMMA PaddedIsMultiple ==
  ASSUME NEW n \in Nat \ {0}
  PROVE  /\ Padded(n) \in Nat /\ n <= Padded(n)
         /\ Padded(n) \div NumWorkers \in Nat \ {0}
         /\ NumWorkers * (Padded(n) \div NumWorkers) = Padded(n)
<1> DEFINE q == n \div NumWorkers
           r == n % NumWorkers
<1>1. NumWorkers \in Nat \ {0}
  BY AgentLoopAssumption
<1>2. q \in Nat /\ r \in 0 .. NumWorkers - 1 /\ n = NumWorkers * q + r
  BY <1>1, Division
<1>3. Padded(n) = n + ((NumWorkers - r) % NumWorkers)
  BY DEF Padded
<1> HIDE DEF q, r
<1>4. CASE r = 0
  <2>1. (NumWorkers - r) % NumWorkers = 0
    BY <1>1, <1>4, Quotient, NumWorkers * 1 + 0 = NumWorkers
  <2>2. Padded(n) = NumWorkers * q + 0
    BY <1>2, <1>3, <1>4, <2>1
  <2>3. (NumWorkers * q + 0) \div NumWorkers = q
    BY <1>1, <1>2, Quotient
  <2>4. q # 0
    BY <1>1, <1>2, <1>4
  <2>5. Padded(n) = n /\ Padded(n) \div NumWorkers = q
    BY <1>2, <1>4, <2>2, <2>3
  <2>6. n = NumWorkers * q
    BY <1>1, <1>2, <1>4
  <2> QED BY <1>1, <1>2, <2>4, <2>5, <2>6
<1>5. CASE r # 0
  <2>1. NumWorkers - r \in 0 .. NumWorkers - 1
    BY <1>1, <1>2, <1>5
  <2>2. (NumWorkers * 0 + (NumWorkers - r)) % NumWorkers = NumWorkers - r
    BY <1>1, <2>1, Quotient
  <2>3. NumWorkers * 0 + (NumWorkers - r) = NumWorkers - r
    BY <1>1, <1>2
  <2>4. Padded(n) = NumWorkers * (q + 1) + 0
    BY <1>1, <1>2, <1>3, <2>2, <2>3
  <2>5. (NumWorkers * (q + 1) + 0) \div NumWorkers = q + 1
    BY <1>1, <1>2, Quotient
  <2>6. Padded(n) \in Nat /\ n <= Padded(n)
    BY <1>1, <1>2, <1>3, <2>2, <2>3
  <2>7. Padded(n) \div NumWorkers = q + 1 /\ Padded(n) = NumWorkers * (q + 1)
    BY <1>1, <1>2, <2>4, <2>5
  <2> QED BY <1>2, <2>6, <2>7
<1> QED BY <1>4, <1>5

LEMMA ChunkAt ==
  ASSUME NEW w \in Workers, NEW k \in 1 .. chunk
  PROVE  Chunk(w)[k] = (w - 1) * chunk + k
BY DEF Chunk

\* Row i is the row at place (i - 1) % chunk + 1 of its owner's chunk.
LEMMA RowHasOwner ==
  ASSUME NumWorkers \in Nat \ {0}, chunk \in Nat \ {0}, NEW i \in Rows
  PROVE  /\ Owner(i) \in Workers
         /\ ((i - 1) % chunk) + 1 \in 1 .. chunk
         /\ Chunk(Owner(i))[((i - 1) % chunk) + 1] = i
<1> DEFINE q == (i - 1) \div chunk
           r == (i - 1) % chunk
<1>1. i \in Nat /\ i - 1 \in Nat /\ i <= NumWorkers * chunk
  BY DEF Rows
<1>2. q \in Nat /\ r \in 0 .. chunk - 1 /\ i - 1 = chunk * q + r
  BY <1>1, Division
<1>3. Owner(i) = q + 1
  BY DEF Owner
<1> HIDE DEF q, r
<1>4. chunk * q + r < NumWorkers * chunk
  BY <1>1, <1>2
<1>5. q < NumWorkers
  BY <1>2, <1>4, Below
<1>6. q + 1 \in Workers /\ r + 1 \in 1 .. chunk
  BY <1>2, <1>5 DEF Workers
<1>7. Chunk(q + 1)[r + 1] = ((q + 1) - 1) * chunk + (r + 1)
  BY <1>6, ChunkAt
<1>8. (q + 1) - 1 = q
  BY <1>2
<1>9. q * chunk + (r + 1) = i
  BY <1>1, <1>2
<1>10. Chunk(q + 1)[r + 1] = i
  BY <1>7, <1>8, <1>9
<1>11. Owner(i) \in Workers /\ r + 1 \in 1 .. chunk /\ Chunk(Owner(i))[r + 1] = i
  BY <1>3, <1>6, <1>10
<1> QED BY <1>11 DEF r

LEMMA ChunkIsRows ==
  ASSUME NumWorkers \in Nat \ {0}, chunk \in Nat \ {0}, NEW w \in Workers, NEW k \in 1 .. chunk
  PROVE  Chunk(w)[k] \in Rows
<1>1. w - 1 \in Nat /\ w <= NumWorkers /\ w \in Nat
  BY DEF Workers
<1>2. (w - 1) * chunk \in Nat /\ (w - 1) * chunk + chunk = w * chunk
  BY <1>1
<1>3. w * chunk <= NumWorkers * chunk
  BY <1>1
<1>4. NumWorkers * chunk \in Nat
  OBVIOUS
<1> QED BY <1>2, <1>3, <1>4 DEF Chunk, Rows

LEMMA PromptIsNat ==
  ASSUME size \in Nat \ {0}, NEW i \in Nat \ {0}
  PROVE  PromptOf(i) \in Nat /\ (i <= size => PromptOf(i) = i)
<1>1. i - 1 \in Nat
  OBVIOUS
<1>2. (i - 1) % size \in 0 .. size - 1
  BY <1>1, Division
<1>3. ASSUME i <= size PROVE (i - 1) % size = i - 1
  <2>1. i - 1 \in 0 .. size - 1
    BY <1>3
  <2>2. (size * 0 + (i - 1)) % size = i - 1
    BY <2>1, Quotient
  <2>3. size * 0 + (i - 1) = i - 1
    OBVIOUS
  <2> QED BY <2>2, <2>3
<1> QED BY <1>2, <1>3 DEF PromptOf

-----------------------------------------------------------------------------
(* The steps *)

LEMMA Constants ==
  /\ NumWorkers \in Nat \ {0} /\ Turns \in Nat \ {0} /\ MaxCache \in Nat \ {0}
  /\ Cardinality(Servers) \in Nat
BY AgentLoopAssumption, FS_CardinalityType

LEMMA RunningShape ==
  ASSUME LoopInv, phase = "running"
  PROVE  /\ chunk \in Nat \ {0} /\ size \in Nat \ {0} /\ size <= NumWorkers * chunk
         /\ \A j \in 1 .. size : j \in Rows
<1>1. chunk \in Nat \ {0} /\ size \in 1 .. NumWorkers * chunk
  BY DEF LoopInv, Fits
<1>2. NumWorkers * chunk \in Nat
  BY <1>1, Constants
<1> QED BY <1>1, <1>2 DEF Rows

\* The agent loop starts in its invariant: idle, no rows, nothing counted.
THEOREM InitInv == Init => LoopInv
<1> SUFFICES ASSUME Init PROVE LoopInv
  OBVIOUS
<1>1. Rows = {}
  BY Constants DEF Init, Rows
<1>2. TypeOK
  <2>1. row \in [Rows -> RowStates] /\ visited \in [Rows -> SUBSET Places]
    BY <1>1 DEF Init
  <2>2. handles \in [Workers -> [Places -> Servers]]
    BY DEF Init
  <2>3. counts \in [Workers -> [Places -> Nat]]
    BY DEF Init
  <2>4. /\ cache \in [Workers -> Seq(Entries)]
        /\ \A w \in Workers : Len(cache[w]) <= MaxCache
    BY Constants DEF Init
  <2>5. outputs \in [Workers -> Seq(Nat)] /\ result \in Seq(Nat)
    BY DEF Init
  <2>6. batch \in 0 .. MaxBatches
    BY AgentLoopAssumption DEF Init
  <2> QED BY <2>1, <2>2, <2>3, <2>4, <2>5, <2>6 DEF Init, TypeOK, RowStates, Entries
<1>3. DealsEvenly
  BY DEF Init, DealsEvenly
<1> QED BY <1>1, <1>2, <1>3 DEF Init, LoopInv, Fits, TurnLeft, Given, NoResultYet,
                                InOrder, QuietBetweenRollouts

\* The steps of a row leave everything of the batch but the row itself.
LEMMA RowMoves ==
  ASSUME LoopInv, phase = "running", NEW i \in Rows, row[i].at # "done",
         NEW s \in RowStates, s.at = "ask" => s.turn < Turns,
         row' = [row EXCEPT ![i] = s],
         UNCHANGED <<phase, data, outputs, result>>
  PROVE  /\ row' \in [Rows -> RowStates] /\ Rows' = Rows
         /\ Fits' /\ TurnLeft' /\ Given' /\ NoResultYet' /\ InOrder' /\ QuietBetweenRollouts'
<1>1. row \in [Rows -> RowStates]
  BY DEF LoopInv, TypeOK, RowStates
<1>2. Rows' = Rows
  BY DEF Rows, data
<1>3. row' \in [Rows -> RowStates]
  BY <1>1
<1>4. Fits' /\ NoResultYet' /\ InOrder'
  BY DEF LoopInv, Fits, NoResultYet, InOrder, data, Batches
<1>5. QuietBetweenRollouts'
  BY DEF QuietBetweenRollouts
<1>6. TurnLeft'
  BY <1>1, <1>2 DEF LoopInv, TurnLeft
<1>7. Given'
  <2> SUFFICES ASSUME NEW w \in Workers, outputs[w] # << >>
               PROVE  /\ outputs'[w] = [k \in 1 .. chunk' |-> PromptOf(Chunk(w)[k])']
                      /\ \A j \in RowsOf(w)' : row'[j].at = "done"
    BY DEF Given
  <2>1. /\ outputs[w] = [k \in 1 .. chunk |-> PromptOf(Chunk(w)[k])]
        /\ \A j \in RowsOf(w) : row[j].at = "done"
    BY DEF LoopInv, Given
  <2>2. RowsOf(w)' = RowsOf(w)
    BY DEF RowsOf, Chunk, data
  <2>3. \A j \in RowsOf(w) : j \in Rows /\ j # i
    BY <2>1, RunningShape, Constants, ChunkIsRows DEF RowsOf
  <2>4. \A j \in RowsOf(w) : row'[j] = row[j]
    BY <1>1, <2>3
  <2> QED BY <2>1, <2>2, <2>4 DEF Chunk, PromptOf, data
<1> QED BY <1>2, <1>3, <1>4, <1>5, <1>6, <1>7

LEMMA CacheKept ==
  ASSUME NEW q \in Seq(Entries), Len(q) <= MaxCache, NEW e \in Entries
  PROVE  /\ Stored(q, e) \in Seq(Entries) /\ Len(Stored(q, e)) <= MaxCache
         /\ \A k \in DOMAIN q : /\ Append(Without(q, k), e) \in Seq(Entries)
                               /\ Len(Append(Without(q, k), e)) <= MaxCache
<1>1. MaxCache \in Nat \ {0}
  BY Constants
<1>2. Stored(q, e) \in Seq(Entries) /\ Len(Stored(q, e)) <= MaxCache
  <2>1. CASE Len(q) >= MaxCache
    <3>1. Tail(q) \in Seq(Entries) /\ Len(Tail(q)) = Len(q) - 1
      BY <1>1, <2>1
    <3>2. Stored(q, e) = Append(Tail(q), e)
      BY <2>1 DEF Stored
    <3>3. Len(Append(Tail(q), e)) = Len(Tail(q)) + 1 /\ Append(Tail(q), e) \in Seq(Entries)
      BY <3>1
    <3>4. Len(q) \in Nat
      OBVIOUS
    <3>5. Len(q) - 1 + 1 <= MaxCache
      BY <1>1, <3>4
    <3> QED BY <3>1, <3>2, <3>3, <3>5
  <2>2. CASE ~(Len(q) >= MaxCache)
    <3>1. Stored(q, e) = Append(q, e)
      BY <2>2 DEF Stored
    <3> QED BY <1>1, <2>2, <3>1
  <2> QED BY <2>1, <2>2
<1>3. ASSUME NEW k \in DOMAIN q
      PROVE  /\ Append(Without(q, k), e) \in Seq(Entries)
             /\ Len(Append(Without(q, k), e)) <= MaxCache
  <2>1. k \in 1 .. Len(q) /\ Len(q) \in Nat /\ \A j \in 1 .. Len(q) : q[j] \in Entries
    BY <1>3
  <2>2. SubSeq(q, 1, k - 1) \in Seq(Entries) /\ Len(SubSeq(q, 1, k - 1)) = k - 1
    BY <2>1, SubSeqProperties
  <2>3. /\ SubSeq(q, k + 1, Len(q)) \in Seq(Entries)
        /\ Len(SubSeq(q, k + 1, Len(q))) = Len(q) - k
    BY <2>1, SubSeqProperties
  <2>4. Without(q, k) \in Seq(Entries) /\ Len(Without(q, k)) = Len(q) - 1
    <3> DEFINE a == SubSeq(q, 1, k - 1)
               b == SubSeq(q, k + 1, Len(q))
    <3>1. a \in Seq(Entries) /\ Len(a) = k - 1 /\ b \in Seq(Entries) /\ Len(b) = Len(q) - k
      BY <2>2, <2>3
    <3>2. Without(q, k) = a \o b
      BY DEF Without
    <3> HIDE DEF a, b
    <3>3. a \o b \in Seq(Entries) /\ Len(a \o b) = Len(a) + Len(b)
      BY <3>1, ConcatProperties
    <3> QED BY <2>1, <3>1, <3>2, <3>3
  <2>5. Append(Without(q, k), e) \in Seq(Entries)
        /\ Len(Append(Without(q, k), e)) = Len(Without(q, k)) + 1
    BY <2>4
  <2> QED BY <1>1, <2>1, <2>4, <2>5
<1> QED BY <1>2, <1>3

\* The choice of a server: the counts of a worker stay within one.
LEMMA ChoiceKeeps ==
  ASSUME LoopInv, phase = "running", NEW i \in Rows, NEW w \in Workers, NEW p \in Places,
         ReusePlace(w, Session(i), p) \/ NewPlace(w, Session(i), p)
  PROVE  /\ counts' \in [Workers -> [Places -> Nat]]
         /\ cache' \in [Workers -> Seq(Entries)]
         /\ \A v \in Workers : Len(cache'[v]) <= MaxCache
         /\ DealsEvenly'
<1> DEFINE e == [session |-> Session(i), place |-> p]
<1>1. /\ counts \in [Workers -> [Places -> Nat]] /\ cache \in [Workers -> Seq(Entries)]
      /\ \A v \in Workers : Len(cache[v]) <= MaxCache
      /\ DealsEvenly
  BY DEF LoopInv, TypeOK, Entries
<1>2. e \in Entries
  <2>1. i \in Nat
    BY DEF Rows
  <2>2. batch \in Batches
    BY DEF LoopInv, Fits
  <2> QED BY <2>1, <2>2 DEF Entries, Session
<1>3. CASE ReusePlace(w, Session(i), p)
  <2>1. PICK k \in DOMAIN cache[w] :
          /\ cache' = [cache EXCEPT ![w] = Append(Without(cache[w], k), e)]
          /\ counts' = counts
    BY <1>3, Zenon DEF ReusePlace
  <2>2. /\ Append(Without(cache[w], k), e) \in Seq(Entries)
        /\ Len(Append(Without(cache[w], k), e)) <= MaxCache
    BY <1>1, <1>2, CacheKept
  <2> HIDE DEF e
  <2> QED BY <1>1, <2>1, <2>2 DEF DealsEvenly
<1>4. CASE NewPlace(w, Session(i), p)
  <2>1. /\ cache' = [cache EXCEPT ![w] = Stored(cache[w], e)]
        /\ counts' = [counts EXCEPT ![w][p] = @ + 1]
        /\ Root(w, p)
    BY <1>4 DEF NewPlace
  <2>2. Stored(cache[w], e) \in Seq(Entries) /\ Len(Stored(cache[w], e)) <= MaxCache
    BY <1>1, <1>2, CacheKept
  <2> HIDE DEF e
  <2>3. cache' \in [Workers -> Seq(Entries)] /\ \A v \in Workers : Len(cache'[v]) <= MaxCache
    BY <1>1, <2>1, <2>2
  <2>4. counts' \in [Workers -> [Places -> Nat]]
    BY <1>1, <2>1
  <2>5. \A x \in Places : counts[w][p] <= counts[w][x]
    <3>1. \A x \in Places : counts[w][p] < counts[w][x] \/ counts[w][p] = counts[w][x]
      BY <2>1, Zenon DEF Root
    <3>2. \A x \in Places : counts[w][x] \in Nat
      BY <1>1
    <3> QED BY <3>1, <3>2
  <2>6. \A v \in Workers, x \in Places :
          counts'[v][x] = IF v = w /\ x = p THEN counts[v][x] + 1 ELSE counts[v][x]
    BY <1>1, <2>1
  <2>7. ASSUME NEW v \in Workers, NEW x \in Places, NEW y \in Places
        PROVE  counts'[v][x] <= counts'[v][y] + 1
    <3>1. counts[v][x] \in Nat /\ counts[v][y] \in Nat /\ counts[v][x] <= counts[v][y] + 1
      BY <1>1 DEF DealsEvenly
    <3>2. CASE v = w /\ x = p
      BY <2>5, <2>6, <3>1, <3>2
    <3>3. CASE ~(v = w /\ x = p)
      BY <2>6, <3>1, <3>3
    <3> QED BY <3>2, <3>3
  <2> QED BY <2>3, <2>4, <2>7 DEF DealsEvenly
<1> QED BY <1>3, <1>4

\* A batch starts: nothing is returned yet, and its rows are all to ask.
LEMMA StartKeeps ==
  ASSUME LoopInv, NEW n \in BatchSizes, NEW pads \in BOOLEAN, StartBatch(n, pads)
  PROVE  LoopInv'
<1>1. n \in Nat \ {0} /\ MaxBatches \in Nat /\ NumWorkers \in Nat \ {0} /\ Turns \in Nat \ {0}
      /\ Cardinality(Servers) \in Nat
  BY AgentLoopAssumption, Constants
<1>2. /\ phase = "idle" /\ batch' = batch + 1 /\ size' = n /\ result' = << >>
      /\ batch < MaxBatches
      /\ handles' = handles /\ counts' = counts /\ cache' = cache /\ down' = down
  BY DEF StartBatch, balance
<1>3. batch' \in Batches /\ batch' \in 0 .. MaxBatches /\ size' \in Nat /\ result' \in Seq(Nat)
  BY <1>1, <1>2 DEF LoopInv, TypeOK, Batches
<1>4. /\ handles' \in [Workers -> [Places -> Servers]]
      /\ counts' \in [Workers -> [Places -> Nat]]
      /\ cache' \in [Workers -> Seq(Entries)]
      /\ \A w \in Workers : Len(cache'[w]) <= MaxCache
      /\ down' \subseteq Servers
  BY <1>2 DEF LoopInv, TypeOK, Entries
<1>5. DealsEvenly'
  BY <1>2 DEF LoopInv, DealsEvenly
<1>6. InOrder' /\ NoResultYet'
  BY <1>2 DEF InOrder, NoResultYet
<1>7. CASE phase' = "running"
  <2>1. /\ chunk' = Padded(n) \div NumWorkers
        /\ row' = [i \in 1 .. Padded(n) |-> Started]
        /\ visited' = [i \in 1 .. Padded(n) |-> {}]
        /\ outputs' = [w \in Workers |-> << >>]
    BY <1>7 DEF StartBatch
  <2>2. chunk' \in Nat \ {0} /\ NumWorkers * chunk' = Padded(n) /\ n <= Padded(n)
        /\ Padded(n) \in Nat
    BY <1>1, <2>1, PaddedIsMultiple
  <2>3. Rows' = 1 .. Padded(n)
    BY <2>2 DEF Rows
  <2>4. Started \in RowStates /\ Started.turn < Turns
    BY <1>1 DEF Started, RowStates, Steps
  <2> HIDE DEF Started
  <2>5. row' \in [Rows' -> RowStates] /\ visited' \in [Rows' -> SUBSET Places]
    BY <2>1, <2>3, <2>4
  <2>6. TurnLeft'
    BY <2>1, <2>3, <2>4 DEF TurnLeft
  <2>7. Given' /\ outputs' \in [Workers -> Seq(Nat)]
    BY <2>1 DEF Given
  <2>8. Fits'
    <3>1. size' \in 1 .. Padded(n)
      BY <1>1, <1>2, <2>2
    <3>2. size' \in 1 .. NumWorkers * chunk'
      BY <2>2, <3>1, Zenon
    <3> QED BY <1>3, <2>2, <3>2, Zenon DEF Fits
  <2>9. QuietBetweenRollouts'
    BY <1>7 DEF QuietBetweenRollouts
  <2>10. TypeOK'
    BY <1>3, <1>4, <1>7, <2>2, <2>5, <2>7 DEF TypeOK, RowStates, Entries
  <2> QED BY <1>5, <1>6, <2>6, <2>7, <2>8, <2>9, <2>10 DEF LoopInv
<1>8. CASE phase' = "rejected"
  <2>1. /\ chunk' = chunk /\ row' = row /\ visited' = visited /\ outputs' = outputs
    BY <1>8 DEF StartBatch
  <2>2. Rows' = Rows
    BY <2>1 DEF Rows
  <2>3. TypeOK'
    BY <1>3, <1>4, <1>8, <2>1, <2>2 DEF LoopInv, TypeOK, Entries
  <2>4. TurnLeft'
    BY <2>1, <2>2 DEF LoopInv, TurnLeft
  <2> QED BY <1>5, <1>6, <1>8, <2>3, <2>4
          DEF LoopInv, Fits, Given, QuietBetweenRollouts
<1> QED BY <1>7, <1>8 DEF StartBatch

LEMMA AskKeeps ==
  ASSUME LoopInv, NEW i \in Rows, Ask(i)
  PROVE  LoopInv'
<1>1. phase = "running" /\ row[i].at = "ask" /\ row \in [Rows -> RowStates]
      /\ visited \in [Rows -> SUBSET Places]
  BY DEF Ask, Running, LoopInv, TypeOK, RowStates
<1>2. PICK w \in Workers, p \in Places :
        /\ ReusePlace(w, Session(i), p) \/ NewPlace(w, Session(i), p)
        /\ row' = [row EXCEPT ![i].at = "wait", ![i].turn = @ + 1, ![i].place = p]
        /\ visited' = [visited EXCEPT ![i] = @ \cup {p}]
  BY Zenon DEF Ask
<1>3. UNCHANGED <<phase, data, handles, down, outputs, result>>
  BY DEF Ask
<1> DEFINE s == [at |-> "wait", turn |-> row[i].turn + 1, place |-> p]
<1>4. row[i].turn < Turns /\ row[i] \in RowStates
  BY <1>1 DEF LoopInv, TurnLeft
<1>5. s \in RowStates /\ s.at # "ask"
  BY <1>4, Constants DEF RowStates, Steps, Places
<1>6. row' = [row EXCEPT ![i] = s]
  BY <1>1, <1>2, <1>4 DEF RowStates
<1> HIDE DEF s
<1>7. /\ row' \in [Rows -> RowStates] /\ Rows' = Rows
      /\ Fits' /\ TurnLeft' /\ Given' /\ NoResultYet' /\ InOrder' /\ QuietBetweenRollouts'
  BY <1>1, <1>3, <1>5, <1>6, RowMoves
<1>8. /\ counts' \in [Workers -> [Places -> Nat]]
      /\ cache' \in [Workers -> Seq(Entries)]
      /\ \A v \in Workers : Len(cache'[v]) <= MaxCache
      /\ DealsEvenly'
  BY <1>1, <1>2, ChoiceKeeps
<1>9. visited' \in [Rows -> SUBSET Places]
  BY <1>1, <1>2
<1>10. TypeOK'
  BY <1>3, <1>7, <1>8, <1>9 DEF LoopInv, TypeOK, RowStates, Entries, data
<1> QED BY <1>7, <1>8, <1>10 DEF LoopInv

LEMMA AnsweredKeeps ==
  ASSUME LoopInv, NEW i \in Rows, Answered(i) \/ Scored(i)
  PROVE  LoopInv'
<1>1. row \in [Rows -> RowStates] /\ row[i] \in RowStates /\ row[i].turn \in 0 .. Turns
  BY DEF LoopInv, TypeOK, RowStates
<1>2. /\ phase = "running" /\ row[i].at # "done"
      /\ UNCHANGED <<phase, data, visited, handles, balance, down, outputs, result>>
  BY DEF Answered, Scored, Running
<1>3. PICK at \in Steps :
        /\ row' = [row EXCEPT ![i].at = at]
        /\ at = "ask" => row[i].turn < Turns
  BY DEF Answered, Scored, Steps
<1> DEFINE s == [row[i] EXCEPT !.at = at]
<1>4. s \in RowStates /\ (s.at = "ask" => s.turn < Turns) /\ row' = [row EXCEPT ![i] = s]
  BY <1>1, <1>3 DEF RowStates
<1> HIDE DEF s
<1>5. /\ row' \in [Rows -> RowStates] /\ Rows' = Rows
      /\ Fits' /\ TurnLeft' /\ Given' /\ NoResultYet' /\ InOrder' /\ QuietBetweenRollouts'
  BY <1>2, <1>4, RowMoves
<1>6. TypeOK' /\ DealsEvenly'
  BY <1>2, <1>5 DEF LoopInv, TypeOK, DealsEvenly, RowStates, data, balance
<1> QED BY <1>5, <1>6 DEF LoopInv

LEMMA RaiseKeeps ==
  ASSUME LoopInv, BatchRaises
  PROVE  LoopInv'
<1>1. /\ phase' = "raised" /\ chunk' = 0
      /\ row' = << >> /\ visited' = << >> /\ outputs' = [w \in Workers |-> << >>]
      /\ UNCHANGED <<batch, size, handles, balance, down, result>>
  BY DEF BatchRaises
<1>2. Rows' = {}
  BY <1>1, Constants DEF Rows
<1>3. row' \in [Rows' -> RowStates] /\ visited' \in [Rows' -> SUBSET Places]
  BY <1>1, <1>2
<1>4. outputs' \in [Workers -> Seq(Nat)]
  BY <1>1
<1>5. TypeOK'
  BY <1>1, <1>3, <1>4 DEF LoopInv, TypeOK, RowStates, balance
<1>6. DealsEvenly' /\ InOrder'
  BY <1>1 DEF LoopInv, DealsEvenly, InOrder, balance
<1> QED BY <1>1, <1>2, <1>5, <1>6
        DEF LoopInv, Fits, TurnLeft, Given, NoResultYet, QuietBetweenRollouts

LEMMA ReturnKeeps ==
  ASSUME LoopInv, NEW w \in Workers, WorkerReturns(w)
  PROVE  LoopInv'
<1>1. /\ phase = "running" /\ \A i \in RowsOf(w) : row[i].at = "done"
      /\ outputs' = [outputs EXCEPT ![w] = [k \in 1 .. chunk |-> PromptOf(Chunk(w)[k])]]
      /\ UNCHANGED <<phase, data, row, visited, handles, balance, down, result>>
  BY DEF WorkerReturns
<1>2. chunk \in Nat \ {0} /\ size \in Nat \ {0} /\ NumWorkers \in Nat \ {0}
  BY <1>1, RunningShape, Constants
<1>3. \A k \in 1 .. chunk : PromptOf(Chunk(w)[k]) \in Nat
  <2> SUFFICES ASSUME NEW k \in 1 .. chunk PROVE PromptOf(Chunk(w)[k]) \in Nat
    OBVIOUS
  <2>1. Chunk(w)[k] \in Nat \ {0}
    BY <1>2, ChunkIsRows DEF Rows
  <2> QED BY <1>2, <2>1, PromptIsNat
<1> DEFINE out == [k \in 1 .. chunk |-> PromptOf(Chunk(w)[k])]
<1>4. out \in Seq(Nat)
  BY <1>2, <1>3
<1>5. outputs \in [Workers -> Seq(Nat)]
  BY DEF LoopInv, TypeOK
<1>6. outputs' \in [Workers -> Seq(Nat)]
  BY <1>1, <1>4, <1>5
<1>7. Rows' = Rows
  BY <1>1 DEF Rows, data
<1>8. TypeOK'
  BY <1>1, <1>6, <1>7 DEF LoopInv, TypeOK, data, balance
<1>9. Given'
  <2> SUFFICES ASSUME NEW v \in Workers
               PROVE  \/ outputs'[v] = << >>
                      \/ /\ outputs'[v] = [k \in 1 .. chunk' |-> PromptOf(Chunk(v)[k])']
                         /\ \A i \in RowsOf(v)' : row'[i].at = "done"
    BY DEF Given
  <2>1. RowsOf(v)' = RowsOf(v) /\ row' = row /\ chunk' = chunk
    BY <1>1 DEF RowsOf, Chunk, data
  <2>2. [k \in 1 .. chunk' |-> PromptOf(Chunk(v)[k])'] = [k \in 1 .. chunk |-> PromptOf(Chunk(v)[k])]
    BY <1>1 DEF PromptOf, Chunk, data
  <2>3. CASE v = w
    BY <1>1, <1>5, <2>1, <2>2, <2>3
  <2>4. CASE v # w
    <3>1. outputs'[v] = outputs[v]
      BY <1>1, <1>5, <2>4
    <3> QED BY <1>1, <2>1, <2>2, <3>1 DEF LoopInv, Given
  <2> QED BY <2>3, <2>4
<1>10. Fits' /\ TurnLeft' /\ NoResultYet' /\ DealsEvenly' /\ InOrder' /\ QuietBetweenRollouts'
  BY <1>1, <1>7 DEF LoopInv, Fits, TurnLeft, NoResultYet, DealsEvenly, InOrder,
                    QuietBetweenRollouts, data, balance, Batches
<1> QED BY <1>8, <1>9, <1>10 DEF LoopInv

LEMMA FinishKeeps ==
  ASSUME LoopInv, FinishBatch
  PROVE  LoopInv'
<1>1. /\ phase = "running" /\ \A w \in Workers : outputs[w] # << >>
      /\ phase' = "idle" /\ result' = Joined
      /\ UNCHANGED <<data, row, visited, handles, balance, down, outputs>>
  BY DEF FinishBatch
<1>2. /\ chunk \in Nat \ {0} /\ size \in Nat \ {0} /\ NumWorkers \in Nat \ {0}
      /\ \A j \in 1 .. size : j \in Rows
  BY <1>1, RunningShape, Constants
<1>3. \A w \in Workers :
        /\ outputs[w] = [k \in 1 .. chunk |-> PromptOf(Chunk(w)[k])]
        /\ \A i \in RowsOf(w) : row[i].at = "done"
  BY <1>1 DEF LoopInv, Given
<1>4. ASSUME NEW i \in Rows
      PROVE  /\ outputs[((i - 1) \div chunk) + 1][((i - 1) % chunk) + 1] = PromptOf(i)
             /\ row[i].at = "done"
  <2> DEFINE k == ((i - 1) % chunk) + 1
  <2>1. Owner(i) \in Workers /\ k \in 1 .. chunk /\ Chunk(Owner(i))[k] = i
    BY <1>2, RowHasOwner
  <2>2. outputs[Owner(i)][k] = PromptOf(i)
    <3> HIDE DEF k
    <3>1. outputs[Owner(i)] = [j \in 1 .. chunk |-> PromptOf(Chunk(Owner(i))[j])]
      BY <1>3, <2>1
    <3>2. [j \in 1 .. chunk |-> PromptOf(Chunk(Owner(i))[j])][k] = PromptOf(Chunk(Owner(i))[k])
      BY <2>1
    <3> QED BY <2>1, <3>1, <3>2
  <2>3. i \in RowsOf(Owner(i))
    <3> HIDE DEF k
    <3> QED BY <2>1 DEF RowsOf
  <2> QED BY <1>3, <2>1, <2>2, <2>3 DEF Owner
<1>5. \A j \in 1 .. size : PromptOf(j) = j
  BY <1>2, PromptIsNat
<1>6. result' = [j \in 1 .. size |-> j]
  BY <1>1, <1>2, <1>4, <1>5 DEF Joined
<1>7. result' \in Seq(Nat) /\ InOrder'
  BY <1>1, <1>2, <1>6 DEF InOrder, data
<1>8. Rows' = Rows
  BY <1>1 DEF Rows, data
<1>9. QuietBetweenRollouts'
  BY <1>1, <1>4, <1>8 DEF QuietBetweenRollouts
<1>10. TypeOK'
  BY <1>1, <1>7, <1>8 DEF LoopInv, TypeOK, data, balance
<1>11. TurnLeft' /\ DealsEvenly' /\ Fits' /\ Given' /\ NoResultYet'
  BY <1>1, <1>8 DEF LoopInv, TurnLeft, DealsEvenly, Fits, Given, NoResultYet, data, balance
<1> QED BY <1>7, <1>9, <1>10, <1>11 DEF LoopInv

LEMMA OnlyDown ==
  ASSUME LoopInv, down' \subseteq Servers,
         UNCHANGED <<phase, data, row, visited, handles, balance, outputs, result>>
  PROVE  LoopInv'
<1>1. Rows' = Rows
  BY DEF Rows, data
<1>2. TypeOK'
  BY <1>1 DEF LoopInv, TypeOK, data, balance
<1>3. Fits' /\ NoResultYet' /\ InOrder' /\ DealsEvenly'
  BY DEF LoopInv, Fits, NoResultYet, InOrder, DealsEvenly, data, balance, Batches
<1>4. TurnLeft' /\ QuietBetweenRollouts'
  BY <1>1 DEF LoopInv, TurnLeft, QuietBetweenRollouts
<1>5. Given'
  BY DEF LoopInv, Given, RowsOf, Chunk, PromptOf, data
<1> QED BY <1>2, <1>3, <1>4, <1>5 DEF LoopInv

\* No step of a trainer, worker, row or server breaks it.
THEOREM StepInv == LoopInv /\ [Next]_vars => LoopInv'
<1> SUFFICES ASSUME LoopInv, [Next]_vars PROVE LoopInv'
  OBVIOUS
<1>1. ASSUME NEW n \in BatchSizes, NEW pads \in BOOLEAN, StartBatch(n, pads) PROVE LoopInv'
  BY <1>1, StartKeeps
<1>2. ASSUME NEW i \in Rows, RowStep(i) \/ ScoreRaises(i) PROVE LoopInv'
  <2>1. CASE Ask(i)
    BY <2>1, AskKeeps
  <2>2. CASE Answered(i) \/ Scored(i)
    BY <2>2, AnsweredKeeps
  <2>3. CASE RequestRaises(i) \/ ScoreRaises(i)
    BY <2>3, RaiseKeeps DEF RequestRaises, ScoreRaises
  <2> QED BY <1>2, <2>1, <2>2, <2>3 DEF RowStep
<1>3. ASSUME NEW s \in Servers, ServerDies(s) PROVE LoopInv'
  BY <1>3, OnlyDown DEF ServerDies, LoopInv, TypeOK
<1>4. ASSUME NEW w \in Workers, WorkerReturns(w) PROVE LoopInv'
  BY <1>4, ReturnKeeps
<1>5. CASE FinishBatch
  BY <1>5, FinishKeeps
<1>6. CASE UNCHANGED vars
  BY <1>6, OnlyDown DEF vars, data, balance, LoopInv, TypeOK
<1> QED BY <1>1, <1>2, <1>3, <1>4, <1>5, <1>6 DEF Next

-----------------------------------------------------------------------------
(* The properties *)

\* The invariant the other theorems are parts of.
THEOREM Invariant == Spec => []LoopInv
<1>1. Init => LoopInv
  BY InitInv
<1>2. LoopInv /\ [Next]_vars => LoopInv'
  BY StepInv
<1> QED BY <1>1, <1>2, PTL DEF Spec

\* Every variable of the agent loop stays in its domain.
THEOREM TypeCorrect == Spec => []TypeOK
<1>1. LoopInv => TypeOK
  BY DEF LoopInv
<1> QED BY <1>1, Invariant, PTL

\* Whatever the batches, the rows' order and the failures, no worker gives one
\* server two sessions more than another.
THEOREM SessionsDealtEvenly == Spec => []DealsEvenly
<1>1. LoopInv => DealsEvenly
  BY DEF LoopInv
<1> QED BY <1>1, Invariant, PTL

\* For any batch size and number of workers, padding, chunks and concatenation
\* give the trainer its rows in its order.
THEOREM RowsInOrder == Spec => []InOrder
<1>1. LoopInv => InOrder
  BY DEF LoopInv
<1> QED BY <1>1, Invariant, PTL

\* When the trainer has its batch, every row of it, padding included, is done.
THEOREM NothingInFlight == Spec => []QuietBetweenRollouts
<1>1. LoopInv => QuietBetweenRollouts
  BY DEF LoopInv
<1> QED BY <1>1, Invariant, PTL

-----------------------------------------------------------------------------
(* Where a session is remembered *)

\* A worker's map has one entry per session, older batches first.
OneEntry ==
  \A w \in Workers : \A j, k \in DOMAIN cache[w] :
    cache[w][j].session = cache[w][k].session => j = k

ByAge ==
  \A w \in Workers : \A j, k \in DOMAIN cache[w] :
    /\ cache[w][j].session[1] <= batch
    /\ j <= k => cache[w][j].session[1] <= cache[w][k].session[1]

\* The sessions of the running batch in a worker's map are its own rows.
OwnRows ==
  phase = "running" =>
    \A w \in Workers : \A k \in DOMAIN cache[w] :
      cache[w][k].session[1] = batch => cache[w][k].session[2] \in RowsOf(w)

\* A row that asked once is in the map, with the place it went to.
Pinned ==
  phase = "running" /\ chunk <= MaxCache =>
    \A i \in Rows :
      \/ visited[i] = {}
      \/ \E k \in DOMAIN cache[Owner(i)] :
           /\ cache[Owner(i)][k].session = <<batch, i>>
           /\ visited[i] = {cache[Owner(i)][k].place}

OnePlace == chunk <= MaxCache => \A i \in Rows : \A p, q \in visited[i] : p = q

StickyInv == OneEntry /\ ByAge /\ OwnRows /\ Pinned /\ OnePlace

\* d is q without its place x, if it has one, and then e.
Replaces(q, d, x, e) ==
  /\ Len(d) = IF x <= Len(q) THEN Len(q) ELSE Len(q) + 1
  /\ d[Len(d)] = e
  /\ \A j \in 1 .. Len(d) - 1 : d[j] = q[IF j < x THEN j ELSE j + 1]

LEMMA TouchedIs ==
  ASSUME NEW q \in Seq(Entries), NEW k \in DOMAIN q, NEW e \in Entries
  PROVE  Replaces(q, Append(Without(q, k), e), k, e)
<1> DEFINE a == SubSeq(q, 1, k - 1)
           b == SubSeq(q, k + 1, Len(q))
           u == a \o b
           n == Len(q)
<1>1. n \in Nat /\ k \in 1 .. n /\ \A j \in 1 .. n : q[j] \in Entries
  OBVIOUS
<1>2. /\ a \in Seq(Entries) /\ Len(a) = k - 1
      /\ \A j \in 1 .. k - 1 : a[j] = q[j]
  <2>1. k - 1 \in Int /\ 1 \in Int /\ \A j \in 1 .. k - 1 : q[j] \in Entries
    BY <1>1
  <2>2. \A j \in 1 .. (k - 1) - 1 + 1 : a[j] = q[1 + j - 1]
    BY <2>1, SubSeqProperties
  <2>3. a \in Seq(Entries) /\ Len(a) = IF 1 <= k - 1 THEN (k - 1) - 1 + 1 ELSE 0
    BY <2>1, SubSeqProperties
  <2> HIDE DEF a
  <2> QED BY <1>1, <2>2, <2>3
<1>3. /\ b \in Seq(Entries) /\ Len(b) = n - k
      /\ \A j \in 1 .. n - k : b[j] = q[k + j]
  <2>1. k + 1 \in Int /\ n \in Int /\ \A j \in k + 1 .. n : q[j] \in Entries
    BY <1>1
  <2>2. \A j \in 1 .. n - (k + 1) + 1 : b[j] = q[(k + 1) + j - 1]
    BY <2>1, SubSeqProperties
  <2>3. b \in Seq(Entries) /\ Len(b) = IF k + 1 <= n THEN n - (k + 1) + 1 ELSE 0
    BY <2>1, SubSeqProperties
  <2> HIDE DEF b, n
  <2>4. Len(b) = n - k
    BY <1>1, <2>3
  <2>5. ASSUME NEW j \in 1 .. n - k PROVE b[j] = q[k + j]
    <3>1. j \in 1 .. n - (k + 1) + 1 /\ (k + 1) + j - 1 = k + j
      BY <1>1
    <3> QED BY <2>2, <3>1
  <2> QED BY <2>3, <2>4, <2>5
<1>4. Without(q, k) = u
  BY DEF Without
<1> HIDE DEF a, b, n
<1>5. /\ u \in Seq(Entries) /\ Len(u) = n - 1
      /\ \A j \in 1 .. n - 1 : u[j] = IF j <= k - 1 THEN a[j] ELSE b[j - (k - 1)]
  <2>1. Len(a) + Len(b) = n - 1
    BY <1>1, <1>2, <1>3
  <2>2. /\ u \in Seq(Entries) /\ Len(u) = Len(a) + Len(b)
        /\ \A j \in 1 .. Len(a) + Len(b) : u[j] = IF j <= Len(a) THEN a[j] ELSE b[j - Len(a)]
    BY <1>2, <1>3, ConcatProperties
  <2> HIDE DEF u
  <2> QED BY <1>2, <2>1, <2>2
<1> HIDE DEF u
<1>6. \A j \in 1 .. n - 1 : u[j] = q[IF j < k THEN j ELSE j + 1]
  <2> SUFFICES ASSUME NEW j \in 1 .. n - 1 PROVE u[j] = q[IF j < k THEN j ELSE j + 1]
    OBVIOUS
  <2>1. CASE j < k
    BY <1>1, <1>2, <1>5, <2>1
  <2>2. CASE ~(j < k)
    <3>1. j - (k - 1) \in 1 .. n - k /\ k + (j - (k - 1)) = j + 1
      BY <1>1, <2>2
    <3>2. b[j - (k - 1)] = q[j + 1]
      BY <1>3, <3>1
    <3> QED BY <1>1, <1>5, <2>2, <3>2
  <2> QED BY <2>1, <2>2
<1> DEFINE d == Append(u, e)
<1>7. /\ Len(d) = n /\ d[n] = e /\ \A j \in 1 .. n - 1 : d[j] = u[j]
  <2>1. Len(d) = Len(u) + 1 /\ d[Len(u) + 1] = e /\ \A j \in 1 .. Len(u) : d[j] = u[j]
    BY <1>5, AppendProperties
  <2> QED BY <1>1, <1>5, <2>1
<1>8. n = Len(q) /\ k <= n
  BY <1>1 DEF n
<1> HIDE DEF d
<1>9. Replaces(q, d, k, e)
  BY <1>1, <1>6, <1>7, <1>8 DEF Replaces
<1> QED BY <1>4, <1>9 DEF d

LEMMA StoredIs ==
  ASSUME NEW q \in Seq(Entries), NEW e \in Entries
  PROVE  Replaces(q, Stored(q, e), IF Len(q) >= MaxCache THEN 1 ELSE Len(q) + 1, e)
<1> DEFINE n == Len(q)
<1>0. n \in Nat /\ MaxCache \in Nat \ {0}
  BY Constants
<1>1. CASE n >= MaxCache
  <2> DEFINE t == Tail(q)
  <2>1. t \in Seq(Entries) /\ Len(t) = n - 1 /\ \A j \in 1 .. n - 1 : t[j] = q[j + 1]
    BY <1>0, <1>1, HeadTailProperties
  <2>2. Stored(q, e) = Append(t, e)
    BY <1>1 DEF Stored
  <2> HIDE DEF t
  <2> DEFINE d == Append(t, e)
  <2>3. Len(d) = Len(t) + 1 /\ d[Len(t) + 1] = e /\ \A j \in 1 .. Len(t) : d[j] = t[j]
    BY <2>1, AppendProperties
  <2> HIDE DEF d
  <2>4. Len(d) = n /\ d[n] = e /\ \A j \in 1 .. n - 1 : d[j] = q[j + 1]
    BY <1>0, <2>1, <2>3
  <2>5. Replaces(q, d, 1, e)
    BY <1>0, <1>1, <2>4 DEF Replaces
  <2> QED BY <1>1, <2>2, <2>5 DEF d
<1>2. CASE ~(n >= MaxCache)
  <2>2. Stored(q, e) = Append(q, e)
    BY <1>2 DEF Stored
  <2> DEFINE d == Append(q, e)
  <2>3. Len(d) = n + 1 /\ d[n + 1] = e /\ \A j \in 1 .. n : d[j] = q[j]
    BY AppendProperties
  <2> HIDE DEF d
  <2>5. Replaces(q, d, n + 1, e)
    BY <1>0, <2>3 DEF Replaces
  <2> QED BY <1>2, <2>2, <2>5 DEF d
<1> QED BY <1>1, <1>2

\* What a choice makes of a map: an entry e is put last, and of the others only
\* its own older self, or the oldest entry of a full map, is left out.
Chosen(q, d, e) ==
  \E x \in 1 .. Len(q) + 1 :
    /\ Replaces(q, d, x, e)
    /\ \A j \in DOMAIN q : j # x => q[j].session # e.session
    /\ \/ x \in DOMAIN q /\ q[x] = e
       \/ x = Len(q) + 1
       \/ x = 1 /\ Len(q) >= MaxCache /\ q[x].session # e.session

LEMMA ChoiceIs ==
  ASSUME LoopInv, OneEntry, phase = "running",
         NEW i \in Rows, NEW w \in Workers, NEW p \in Places,
         ReusePlace(w, Session(i), p) \/ NewPlace(w, Session(i), p)
  PROVE  LET q == cache[w]
             e == [session |-> <<batch, i>>, place |-> p]
         IN  /\ e \in Entries /\ q \in Seq(Entries) /\ cache'[w] \in Seq(Entries)
             /\ \A v \in Workers \ {w} : cache'[v] = cache[v]
             /\ Chosen(q, cache'[w], e)
<1> DEFINE q == cache[w]
           e == [session |-> <<batch, i>>, place |-> p]
<1>1. cache \in [Workers -> Seq(Entries)] /\ q \in Seq(Entries) /\ Len(q) \in Nat
  <2>1. cache \in [Workers -> Seq(Entries)]
    BY DEF LoopInv, TypeOK, Entries
  <2> QED BY <2>1
<1>2. e \in Entries /\ Session(i) = <<batch, i>>
  <2>1. i \in Nat
    BY DEF Rows
  <2> QED BY <2>1 DEF LoopInv, Fits, Session, Entries
<1>3. cache' \in [Workers -> Seq(Entries)]
  BY ChoiceKeeps
<1> HIDE DEF e
<1>4. CASE ReusePlace(w, Session(i), p)
  <2>1. PICK k \in DOMAIN q :
          q[k] = e /\ cache' = [cache EXCEPT ![w] = Append(Without(q, k), e)]
    BY <1>2, <1>4 DEF ReusePlace, e
  <2>2. Replaces(q, cache'[w], k, e)
    BY <1>1, <1>2, <2>1, TouchedIs
  <2>3. \A j \in DOMAIN q : j # k => q[j].session # e.session
    BY <2>1 DEF OneEntry
  <2>4. k \in 1 .. Len(q) + 1
    BY <1>1
  <2>5. \A v \in Workers \ {w} : cache'[v] = cache[v]
    BY <1>1, <2>1
  <2> QED BY <1>1, <1>2, <1>3, <2>1, <2>2, <2>3, <2>4, <2>5 DEF e, Chosen
<1>5. CASE NewPlace(w, Session(i), p)
  <2>1. /\ \A j \in DOMAIN q : q[j].session # e.session
        /\ cache' = [cache EXCEPT ![w] = Stored(q, e)]
    BY <1>2, <1>5 DEF NewPlace, Remembered, e
  <2> DEFINE x == IF Len(q) >= MaxCache THEN 1 ELSE Len(q) + 1
  <2>2. Replaces(q, cache'[w], x, e)
    BY <1>1, <1>2, <2>1, StoredIs
  <2>3. /\ x \in 1 .. Len(q) + 1
        /\ \/ x = Len(q) + 1
           \/ x = 1 /\ Len(q) >= MaxCache /\ q[x].session # e.session
    BY <1>1, <2>1, Constants
  <2>5. \A v \in Workers \ {w} : cache'[v] = cache[v]
    BY <1>1, <2>1
  <2> HIDE DEF x
  <2> QED BY <1>1, <1>2, <1>3, <2>1, <2>2, <2>3, <2>5 DEF e, Chosen
<1> QED BY <1>4, <1>5

\* The rows of a worker are as many as its chunk.
LEMMA RowsOfIs ==
  ASSUME chunk \in Nat, NEW w \in Workers, NEW r \in RowsOf(w)
  PROVE  r \in (w - 1) * chunk + 1 .. (w - 1) * chunk + chunk
<1>1. PICK k \in 1 .. chunk : r = (w - 1) * chunk + k
  BY ChunkAt DEF RowsOf
<1>2. (w - 1) * chunk \in Nat
  BY DEF Workers
<1> QED BY <1>1, <1>2

\* A full map that does not have a row of the running batch has an entry of an
\* older one, and that is the one it forgets.
LEMMA OldestIsOlder ==
  ASSUME LoopInv, StickyInv, phase = "running", chunk <= MaxCache,
         NEW w \in Workers, NEW i \in RowsOf(w), Len(cache[w]) >= MaxCache,
         \A j \in DOMAIN cache[w] : cache[w][j].session # <<batch, i>>
  PROVE  cache[w][1].session[1] # batch
<1> SUFFICES ASSUME cache[w][1].session[1] = batch PROVE FALSE
  OBVIOUS
<1> DEFINE q == cache[w]
           n == Len(q)
           a == (w - 1) * chunk
<1>1. /\ q \in Seq(Entries) /\ n \in Nat /\ DOMAIN q = 1 .. n
      /\ chunk \in Nat /\ batch \in Nat /\ MaxCache \in Nat \ {0} /\ a \in Int
  <2>0. chunk \in Nat /\ batch \in Nat
    BY DEF LoopInv, TypeOK
  <2>1. cache \in [Workers -> Seq(Entries)] /\ chunk \in Nat /\ batch \in Nat
    BY <2>0 DEF LoopInv, TypeOK, Entries
  <2>2. a \in Int
    BY <2>1 DEF Workers
  <2>3. q \in Seq(Entries)
    BY <2>1
  <2> HIDE DEF q, a
  <2> QED BY <2>1, <2>2, <2>3, Constants
<1>2. \A j \in 1 .. n : q[j].session \in Batches \X Nat
  <2>1. \A j \in 1 .. n : q[j] \in Entries
    BY <1>1
  <2> QED BY <2>1 DEF Entries
<1> HIDE DEF q, a
<1>3. ASSUME NEW j \in 1 .. n
      PROVE  q[j].session[1] = batch /\ q[j].session[2] \in a + 1 .. a + chunk
  <2>1. q[j].session[1] = batch
    <3>1. 1 \in DOMAIN q /\ j \in DOMAIN q /\ 1 <= j
      BY <1>1, <1>3
    <3>2. q[1].session[1] <= q[j].session[1] /\ q[j].session[1] <= batch
      BY <3>1 DEF StickyInv, ByAge, q
    <3>3. q[j].session[1] \in Nat
      BY <1>2 DEF Batches
    <3> QED BY <1>1, <3>2, <3>3 DEF q
  <2>2. q[j].session[2] \in RowsOf(w)
    BY <1>1, <2>1 DEF StickyInv, OwnRows, q
  <2> QED BY <1>1, <2>1, <2>2, RowsOfIs DEF a
<1>4. i \in a + 1 .. a + chunk
  BY <1>1, RowsOfIs DEF a
<1> DEFINE f == [j \in 1 .. n + 1 |-> IF j = n + 1 THEN i ELSE q[j].session[2]]
<1>5. f \in [1 .. n + 1 -> a + 1 .. a + chunk]
  BY <1>1, <1>3, <1>4
<1>6. /\ IsFiniteSet(1 .. n + 1) /\ Cardinality(1 .. n + 1) = n + 1
      /\ IsFiniteSet(a + 1 .. a + chunk) /\ Cardinality(a + 1 .. a + chunk) = chunk
  <2>1. \A b, c \in Int : b <= c + 1 => Cardinality(b .. c) = c - b + 1
    BY FS_Interval
  <2>2. (n + 1) - 1 + 1 = n + 1 /\ (a + chunk) - (a + 1) + 1 = chunk
    BY <1>1
  <2>3. 1 <= (n + 1) + 1 /\ a + 1 <= (a + chunk) + 1
    BY <1>1
  <2>4. 1 \in Int /\ n + 1 \in Int /\ a + 1 \in Int /\ a + chunk \in Int
    BY <1>1
  <2>5. IsFiniteSet(1 .. n + 1) /\ IsFiniteSet(a + 1 .. a + chunk)
    BY <2>4, FS_Interval
  <2>6. /\ Cardinality(1 .. n + 1) = (n + 1) - 1 + 1
        /\ Cardinality(a + 1 .. a + chunk) = (a + chunk) - (a + 1) + 1
    BY <2>1, <2>3, <2>4
  <2> QED BY <2>2, <2>5, <2>6
<1>7. chunk < n + 1
  BY <1>1 DEF q
<1>8. PICK y, z \in 1 .. n + 1 : y # z /\ f[y] = f[z]
  <2> HIDE DEF f
  <2> DEFINE S == 1 .. n + 1
             T == a + 1 .. a + chunk
  <2>1. IsFiniteSet(S) /\ IsFiniteSet(T) /\ Cardinality(T) < Cardinality(S) /\ f \in [S -> T]
    BY <1>5, <1>6, <1>7
  <2> HIDE DEF S, T
  <2>2. \E y, z \in S : y # z /\ f[y] = f[z]
    BY <2>1, FS_PigeonHole
  <2> QED BY <2>2 DEF S
<1>9. ASSUME NEW j \in 1 .. n PROVE q[j].session[2] # i
  <2>1. q[j].session = <<q[j].session[1], q[j].session[2]>>
    BY <1>2
  <2>2. q[j].session # <<batch, i>>
    BY <1>1 DEF q
  <2> QED BY <1>3, <2>1, <2>2
<1>10. ASSUME NEW j \in 1 .. n, NEW k \in 1 .. n, j # k
       PROVE  q[j].session[2] # q[k].session[2]
  <2>1. /\ q[j].session = <<q[j].session[1], q[j].session[2]>>
        /\ q[k].session = <<q[k].session[1], q[k].session[2]>>
    BY <1>2
  <2>2. q[j].session # q[k].session
    BY <1>1, <1>10 DEF StickyInv, OneEntry, q
  <2> QED BY <1>3, <2>1, <2>2
<1>11. \A j \in 1 .. n + 1 : j \in 1 .. n \/ j = n + 1
  BY <1>1
<1> QED BY <1>1, <1>8, <1>9, <1>10, <1>11

\* A row asks: its place is the one it had, and the map still has the others.
LEMMA AskSticky ==
  ASSUME LoopInv, StickyInv, NEW i \in Rows, Ask(i)
  PROVE  StickyInv'
<1>1. phase = "running" /\ visited \in [Rows -> SUBSET Places]
  BY DEF Ask, Running, LoopInv, TypeOK
<1>2. PICK w \in Workers, p \in Places :
        /\ w = Owner(i)
        /\ ReusePlace(w, Session(i), p) \/ NewPlace(w, Session(i), p)
        /\ visited' = [visited EXCEPT ![i] = @ \cup {p}]
  BY Zenon DEF Ask
<1>3. /\ phase' = phase /\ batch' = batch /\ chunk' = chunk /\ Rows' = Rows
      /\ \A v \in Workers : RowsOf(v)' = RowsOf(v)
      /\ \A r \in Rows : Owner(r)' = Owner(r)
  BY DEF Ask, data, Rows, RowsOf, Chunk, Owner
<1>4. chunk \in Nat \ {0} /\ batch \in Nat
  BY <1>1 DEF LoopInv, Fits, Batches
<1>5. \A r \in Rows : Owner(r) \in Workers /\ r \in RowsOf(Owner(r))
  BY <1>4, Constants, RowHasOwner DEF RowsOf
<1> DEFINE q == cache[w]
           d == cache'[w]
           e == [session |-> <<batch, i>>, place |-> p]
<1>6. /\ e \in Entries /\ q \in Seq(Entries) /\ d \in Seq(Entries)
      /\ \A v \in Workers \ {w} : cache'[v] = cache[v]
  BY <1>1, <1>2, ChoiceIs DEF StickyInv
<1>7. PICK x \in 1 .. Len(q) + 1 :
        /\ Replaces(q, d, x, e)
        /\ \A j \in DOMAIN q : j # x => q[j].session # e.session
        /\ \/ x \in DOMAIN q /\ q[x] = e
           \/ x = Len(q) + 1
           \/ x = 1 /\ Len(q) >= MaxCache /\ q[x].session # e.session
  <2>1. Chosen(q, d, e)
    BY <1>1, <1>2, ChoiceIs DEF StickyInv
  <2> HIDE DEF q, d, e
  <2> QED BY <2>1 DEF Chosen
<1> DEFINE n == Len(q)
           m == Len(d)
           from(j) == IF j < x THEN j ELSE j + 1
<1>8. /\ n \in Nat /\ m \in Nat \ {0} /\ DOMAIN q = 1 .. n /\ DOMAIN d = 1 .. m
      /\ m = (IF x <= n THEN n ELSE n + 1) /\ x \in 1 .. n + 1 /\ d[m] = e
  BY <1>6, <1>7 DEF Replaces
<1>9. \A j \in 1 .. m - 1 : d[j] = q[from(j)]
  BY <1>7 DEF Replaces
<1>10. \A j \in 1 .. m - 1 : from(j) \in 1 .. n /\ from(j) # x
  BY <1>8
<1>11. \A j, k \in 1 .. m - 1 : (from(j) = from(k) => j = k) /\ (j <= k => from(j) <= from(k))
  BY <1>8
<1>12. \A k \in 1 .. n : k # x => \E j \in 1 .. m - 1 : from(j) = k
  <2> SUFFICES ASSUME NEW k \in 1 .. n, k # x
               PROVE  \E j \in 1 .. m - 1 : from(j) = k
    OBVIOUS
  <2>1. CASE k < x
    BY <1>8, <2>1
  <2>2. CASE ~(k < x)
    <3>1. k - 1 \in 1 .. m - 1 /\ from(k - 1) = k
      BY <1>8, <2>2
    <3> QED BY <3>1
  <2> QED BY <2>1, <2>2
<1>13. /\ \A j, k \in 1 .. n : q[j].session = q[k].session => j = k
       /\ \A j, k \in 1 .. n : j <= k => q[j].session[1] <= q[k].session[1]
       /\ \A j \in 1 .. n : /\ q[j].session[1] <= batch
                            /\ q[j].session[1] = batch => q[j].session[2] \in RowsOf(w)
                            /\ j # x => q[j].session # e.session
  BY <1>1, <1>7, <1>8 DEF StickyInv, OneEntry, ByAge, OwnRows
<1>14. e.session = <<batch, i>> /\ e.place = p /\ e.session[1] = batch /\ e.session[2] = i
  OBVIOUS
<1>15. \A j \in 1 .. m : j \in 1 .. m - 1 \/ j = m
  BY <1>8
<1> HIDE DEF q, d, e, n, m, from
<1>16. /\ \A j, k \in 1 .. m : d[j].session = d[k].session => j = k
       /\ \A j \in 1 .. m : /\ d[j].session[1] <= batch
                            /\ d[j].session[1] = batch => d[j].session[2] \in RowsOf(w)
  <2>1. i \in RowsOf(w)
    BY <1>2, <1>5
  <2>2. \A j \in 1 .. m - 1 : d[j].session # e.session
    BY <1>9, <1>10, <1>13
  <2>3. \A j, k \in 1 .. m - 1 : d[j].session = d[k].session => j = k
    BY <1>9, <1>10, <1>11, <1>13
  <2>4. \A j \in 1 .. m - 1 : /\ d[j].session[1] <= batch
                              /\ d[j].session[1] = batch => d[j].session[2] \in RowsOf(w)
    BY <1>9, <1>10, <1>13
  <2>5. ASSUME NEW j \in 1 .. m, NEW k \in 1 .. m, d[j].session = d[k].session
        PROVE  j = k
    <3>1. CASE j = m \/ k = m
      BY <1>8, <1>15, <2>2, <2>5, <3>1
    <3>2. CASE j \in 1 .. m - 1 /\ k \in 1 .. m - 1
      BY <2>3, <2>5, <3>2
    <3> QED BY <1>15, <3>1, <3>2
  <2>6. d[m].session[1] <= batch /\ d[m].session[2] \in RowsOf(w)
    BY <1>4, <1>8, <1>14, <2>1
  <2>7. ASSUME NEW j \in 1 .. m
        PROVE  /\ d[j].session[1] <= batch
               /\ d[j].session[1] = batch => d[j].session[2] \in RowsOf(w)
    <3>1. CASE j = m
      BY <2>6, <3>1
    <3>2. CASE j \in 1 .. m - 1
      BY <2>4, <3>2
    <3> QED BY <1>15, <3>1, <3>2
  <2> QED BY <2>5, <2>7
<1>17. \A j, k \in 1 .. m : j <= k => d[j].session[1] <= d[k].session[1]
  <2> SUFFICES ASSUME NEW j \in 1 .. m, NEW k \in 1 .. m, j <= k
               PROVE  d[j].session[1] <= d[k].session[1]
    OBVIOUS
  <2>1. CASE k = m
    BY <1>8, <1>14, <1>16, <2>1
  <2>2. CASE k \in 1 .. m - 1
    <3>1. j \in 1 .. m - 1
      BY <1>8, <2>2
    <3> QED BY <1>9, <1>10, <1>11, <1>13, <2>2, <3>1
  <2> QED BY <1>15, <2>1, <2>2
<1>18. \A v \in Workers : v = w \/ cache'[v] = cache[v]
  BY <1>6
<1>19. OneEntry' /\ ByAge' /\ OwnRows'
  <2>1. ASSUME NEW v \in Workers
        PROVE  /\ \A j, k \in DOMAIN cache'[v] :
                    /\ cache'[v][j].session = cache'[v][k].session => j = k
                    /\ cache'[v][j].session[1] <= batch
                    /\ j <= k => cache'[v][j].session[1] <= cache'[v][k].session[1]
               /\ \A k \in DOMAIN cache'[v] :
                    cache'[v][k].session[1] = batch => cache'[v][k].session[2] \in RowsOf(v)
    <3>1. CASE v = w
      BY <1>8, <1>16, <1>17, <3>1 DEF d
    <3>2. CASE v # w
      <4>1. cache'[v] = cache[v]
        BY <1>18, <3>2
      <4> QED BY <1>1, <4>1 DEF StickyInv, OneEntry, ByAge, OwnRows
    <3> QED BY <3>1, <3>2
  <2> QED BY <1>3, <2>1 DEF OneEntry, ByAge, OwnRows
<1>20. ASSUME chunk <= MaxCache
       PROVE  /\ visited[i] \subseteq {p}
              /\ \A k \in 1 .. n : k # x /\ q[k].session[1] = batch =>
                   \E j \in 1 .. m : d[j] = q[k]
              /\ ~(x = 1 /\ q[x].session[1] = batch /\ x <= n /\ q[x].session # e.session)
  <2>1. visited[i] \subseteq {p}
    <3>1. CASE visited[i] = {}
      BY <3>1
    <3>2. CASE visited[i] # {}
      <4>0. PICK k \in DOMAIN cache[Owner(i)] :
              /\ cache[Owner(i)][k].session = <<batch, i>>
              /\ visited[i] = {cache[Owner(i)][k].place}
        BY <1>1, <1>20, <3>2 DEF StickyInv, Pinned
      <4>1. k \in 1 .. n /\ q[k].session = e.session /\ visited[i] = {q[k].place}
        BY <1>2, <1>8, <1>14, <4>0 DEF q
      <4>2. k = x
        BY <1>13, <4>1
      <4>3. q[k] = e
        BY <1>7, <1>8, <4>1, <4>2
      <4> QED BY <1>14, <4>1, <4>3
    <3> QED BY <3>1, <3>2
  <2>2. \A k \in 1 .. n : k # x => \E j \in 1 .. m : d[j] = q[k]
    BY <1>8, <1>9, <1>12
  <2>3. ASSUME x = 1, q[x].session[1] = batch, x <= n, q[x].session # e.session
        PROVE  FALSE
    <3>1. n >= MaxCache
      BY <1>7, <1>8, <2>3
    <3>2. \A j \in DOMAIN q : q[j].session # e.session
      BY <1>8, <1>13, <2>3
    <3>3. i \in RowsOf(w)
      BY <1>2, <1>5
    <3>4. q[1].session[1] # batch
      BY <1>1, <1>14, <1>20, <3>1, <3>2, <3>3, OldestIsOlder DEF q, n
    <3> QED BY <2>3, <3>4
  <2> QED BY <2>1, <2>2, <2>3
<1>21. Pinned'
  <2> SUFFICES ASSUME chunk <= MaxCache, NEW r \in Rows, visited'[r] # {}
               PROVE  \E j \in DOMAIN cache'[Owner(r)] :
                        /\ cache'[Owner(r)][j].session = <<batch, r>>
                        /\ visited'[r] = {cache'[Owner(r)][j].place}
    BY <1>3 DEF Pinned
  <2>1. CASE r = i
    <3>1. visited'[r] = {p}
      BY <1>1, <1>2, <1>20, <2>1
    <3>2. m \in DOMAIN d /\ d[m].session = <<batch, r>> /\ d[m].place = p
      BY <1>8, <1>14, <2>1
    <3> QED BY <1>2, <2>1, <3>1, <3>2 DEF d
  <2>2. CASE r # i
    <3>1. visited'[r] = visited[r]
      BY <1>1, <1>2, <2>2
    <3>2. PICK k \in DOMAIN cache[Owner(r)] :
            /\ cache[Owner(r)][k].session = <<batch, r>>
            /\ visited[r] = {cache[Owner(r)][k].place}
      BY <1>1, <3>1 DEF StickyInv, Pinned
    <3>3. CASE Owner(r) # w
      <4>1. cache'[Owner(r)] = cache[Owner(r)]
        BY <1>5, <1>18, <3>3
      <4> QED BY <3>1, <3>2, <4>1
    <3>4. CASE Owner(r) = w
      <4>1. k \in 1 .. n /\ q[k].session = <<batch, r>> /\ visited[r] = {q[k].place}
        BY <1>8, <3>2, <3>4 DEF q
      <4>2. q[k].session # e.session /\ q[k].session[1] = batch
        BY <1>14, <2>2, <4>1
      <4>3. k # x
        BY <1>7, <1>8, <1>20, <4>1, <4>2
      <4>4. PICK j \in 1 .. m : d[j] = q[k]
        BY <1>20, <4>1, <4>2, <4>3
      <4> QED BY <1>8, <3>1, <3>4, <4>1, <4>4 DEF d
    <3> QED BY <3>3, <3>4
  <2> QED BY <2>1, <2>2
<1>22. OnePlace'
  <2> SUFFICES ASSUME chunk <= MaxCache, NEW r \in Rows, NEW a \in visited'[r], NEW b \in visited'[r]
               PROVE  a = b
    BY <1>3 DEF OnePlace
  <2>1. CASE r = i
    <3>1. visited'[r] \subseteq {p}
      BY <1>1, <1>2, <1>20, <2>1
    <3> QED BY <3>1
  <2>2. CASE r # i
    BY <1>1, <1>2, <2>2 DEF StickyInv, OnePlace
  <2> QED BY <2>1, <2>2
<1> QED BY <1>19, <1>21, <1>22 DEF StickyInv

\* A new batch has no session in any map yet.
LEMMA StartSticky ==
  ASSUME LoopInv, StickyInv, NEW n \in BatchSizes, NEW pads \in BOOLEAN, StartBatch(n, pads)
  PROVE  StickyInv'
<1>1. batch' = batch + 1 /\ cache' = cache /\ batch \in Nat
  BY AgentLoopAssumption DEF StartBatch, balance, LoopInv, TypeOK
<1>2. ASSUME NEW w \in Workers, NEW k \in DOMAIN cache[w]
      PROVE  cache[w][k].session[1] \in Nat /\ cache[w][k].session[1] <= batch
  <2>1. cache[w] \in Seq(Entries)
    BY DEF LoopInv, TypeOK, Entries
  <2>2. cache[w][k] \in Entries
    BY <2>1
  <2> QED BY <2>2 DEF Entries, Batches, StickyInv, ByAge
<1>3. OneEntry' /\ ByAge' /\ OwnRows'
  <2>1. \A w \in Workers : \A k \in DOMAIN cache[w] :
          cache[w][k].session[1] <= batch' /\ cache[w][k].session[1] # batch'
    BY <1>1, <1>2
  <2> QED BY <1>1, <2>1 DEF StickyInv, OneEntry, ByAge, OwnRows
<1>4. CASE phase' = "running"
  <2>1. /\ visited' = [i \in 1 .. Padded(n) |-> {}]
        /\ chunk' = Padded(n) \div NumWorkers
    BY <1>4 DEF StartBatch
  <2>2. Rows' = 1 .. Padded(n)
    BY <2>1, AgentLoopAssumption, PaddedIsMultiple DEF Rows
  <2>3. \A i \in Rows' : visited'[i] = {}
    BY <2>1, <2>2
  <2> QED BY <1>3, <2>3 DEF StickyInv, Pinned, OnePlace
<1>5. CASE phase' = "rejected"
  <2>1. visited' = visited /\ chunk' = chunk /\ Rows' = Rows
    BY <1>5 DEF StartBatch, Rows
  <2>2. OnePlace' /\ Pinned'
    BY <1>5, <2>1 DEF StickyInv, Pinned, OnePlace
  <2> QED BY <1>3, <2>2 DEF StickyInv
<1> QED BY <1>4, <1>5 DEF StartBatch

LEMMA OtherSticky ==
  ASSUME StickyInv, cache' = cache, batch' = batch,
         \/ phase' = "raised" /\ chunk' = 0
         \/ visited' = visited /\ chunk' = chunk /\ phase' \in {phase, "idle"}
  PROVE  StickyInv'
<1>1. OneEntry' /\ ByAge'
  BY DEF StickyInv, OneEntry, ByAge
<1>2. CASE phase' = "raised" /\ chunk' = 0
  <2>1. Rows' = {}
    BY <1>2, Constants DEF Rows
  <2> QED BY <1>1, <1>2, <2>1 DEF StickyInv, OwnRows, Pinned, OnePlace
<1>3. CASE visited' = visited /\ chunk' = chunk /\ phase' \in {phase, "idle"}
  <2>1. Rows' = Rows /\ \A w \in Workers : RowsOf(w)' = RowsOf(w)
    BY <1>3 DEF Rows, RowsOf, Chunk
  <2>2. OwnRows' /\ OnePlace'
    BY <1>3, <2>1 DEF StickyInv, OwnRows, OnePlace
  <2>3. Pinned'
    BY <1>3, <2>1 DEF StickyInv, Pinned, Owner
  <2> QED BY <1>1, <2>2, <2>3 DEF StickyInv
<1> QED BY <1>2, <1>3

LEMMA StickyNext == LoopInv /\ StickyInv /\ [Next]_vars => StickyInv'
<1> SUFFICES ASSUME LoopInv, StickyInv, [Next]_vars PROVE StickyInv'
  OBVIOUS
<1>1. ASSUME NEW n \in BatchSizes, NEW pads \in BOOLEAN, StartBatch(n, pads) PROVE StickyInv'
  BY <1>1, StartSticky
<1>2. ASSUME NEW i \in Rows, RowStep(i) \/ ScoreRaises(i) PROVE StickyInv'
  <2>1. CASE Ask(i)
    BY <1>2, <2>1, AskSticky
  <2>2. CASE Answered(i) \/ Scored(i)
    BY <2>2, OtherSticky DEF Answered, Scored, data, balance
  <2>3. CASE RequestRaises(i) \/ ScoreRaises(i)
    BY <2>3, OtherSticky DEF RequestRaises, ScoreRaises, BatchRaises, balance
  <2> QED BY <1>2, <2>1, <2>2, <2>3 DEF RowStep
<1>3. ASSUME NEW s \in Servers, ServerDies(s) PROVE StickyInv'
  BY <1>3, OtherSticky DEF ServerDies, data, balance
<1>4. ASSUME NEW w \in Workers, WorkerReturns(w) PROVE StickyInv'
  BY <1>4, OtherSticky DEF WorkerReturns, data, balance
<1>5. CASE FinishBatch
  BY <1>5, OtherSticky DEF FinishBatch, data, balance
<1>6. CASE UNCHANGED vars
  BY <1>6, OtherSticky DEF vars, data, balance
<1> QED BY <1>1, <1>2, <1>3, <1>4, <1>5, <1>6 DEF Next

\* For any size of the map, number of servers, workers and turns: as long as the
\* rows of a worker fit in its map, every request of a row goes to one server,
\* whatever the map remembers of earlier batches.
THEOREM SessionsStayOnOneServer == Spec => []Sticky
<1>1. Init => StickyInv
  <2> SUFFICES ASSUME Init PROVE StickyInv
    OBVIOUS
  <2>1. /\ phase = "idle" /\ Rows = {}
        /\ \A w \in Workers : DOMAIN cache[w] = {}
    BY Constants DEF Init, Rows
  <2> QED BY <2>1 DEF StickyInv, OneEntry, ByAge, OwnRows, Pinned, OnePlace
<1>2. LoopInv /\ StickyInv /\ [Next]_vars => StickyInv'
  BY StickyNext
<1>3. StickyInv => Sticky
  <2> SUFFICES ASSUME StickyInv, chunk <= MaxCache, NEW i \in Rows
               PROVE  Cardinality(visited[i]) <= 1
    BY DEF Sticky
  <2>1. CASE visited[i] = {}
    BY <2>1, FS_EmptySet
  <2>2. CASE visited[i] # {}
    <3>1. PICK p \in visited[i] : visited[i] = {p}
      BY <2>2 DEF StickyInv, OnePlace
    <3>2. Cardinality({p}) = 1
      BY FS_Singleton
    <3> QED BY <3>1, <3>2
  <2> QED BY <2>1, <2>2
<1> QED BY <1>1, <1>2, <1>3, Invariant, PTL DEF Spec
=============================================================================
