----------------------------- MODULE AgentLoop -----------------------------
(***************************************************************************)
(* One rollout after another through the agent loop: the manager pads and  *)
(* cuts a batch, every worker runs one coroutine per row, the coroutines   *)
(* choose inference servers and ask for a reward, and the rows come back   *)
(* in order (verl/experimental/agent_loop, rl/training/agent_loop.py).     *)
(*                                                                         *)
(* A worker shuffles the list of servers and keeps a heap of               *)
(* [count, place in its list, server] and an LRU map from a session to a   *)
(* place.  A place stands for the server at that place of the worker's     *)
(* list.  Choosing a server awaits nothing, so it is one step.             *)
(***************************************************************************)
EXTENDS Integers, Sequences, FiniteSets

CONSTANTS
  NumWorkers,   \* rollout.agent.num_workers
  Servers,      \* the inference servers
  BatchSizes,   \* numbers of rows the trainer asks for
  Turns,        \* requests of a session: 1 for ts_single_turn_agent
  MaxCache,     \* max_cache_size of the LRU map
  MaxBatches    \* bound of the model: rollouts asked for

Workers == 1 .. NumWorkers
Places == 1 .. Cardinality(Servers)
Batches == 1 .. MaxBatches

ASSUME AgentLoopAssumption ==
  /\ NumWorkers \in Nat \ {0} /\ Turns \in Nat \ {0}
  /\ MaxCache \in Nat \ {0} /\ MaxBatches \in Nat
  /\ IsFiniteSet(Servers) /\ Servers # {}
  /\ BatchSizes \subseteq Nat \ {0}

VARIABLES
  phase,     \* "idle", "running", "raised" or "rejected": the trainer's call
  batch,     \* rollouts asked for so far
  size,      \* rows of the batch before padding
  chunk,     \* rows of the batch each worker got
  row,       \* what the coroutine of each row is doing
  visited,   \* the places a session was sent to
  handles,   \* the shuffled list of servers of each worker
  counts,    \* the heap: sessions assigned to each place
  cache,     \* the LRU map, least recently used first
  down,      \* servers that died
  outputs,   \* what generate_sequences of each worker gave
  result     \* the batch handed to the trainer

data == <<batch, size, chunk>>
balance == <<counts, cache>>
vars == <<phase, batch, size, chunk, row, visited, handles, counts, cache, down,
          outputs, result>>

-----------------------------------------------------------------------------
(* Padding, chunks and what they carry *)

Padded(n) == n + ((NumWorkers - (n % NumWorkers)) % NumWorkers)

\* Row i of the padded batch is the prompt of a row of the batch: the padding
\* repeats the batch from its first row.
PromptOf(i) == ((i - 1) % size) + 1

Rows == 1 .. NumWorkers * chunk

\* The rows of worker w, in the order of its tasks.
Chunk_RoundRobin(w) == [k \in 1 .. chunk |-> (k - 1) * NumWorkers + w]
Chunk(w) == [k \in 1 .. chunk |-> (w - 1) * chunk + k]

RowsOf(w) == {Chunk(w)[k] : k \in 1 .. chunk}
Owner(i) == ((i - 1) \div chunk) + 1

Started == [at |-> "ask", turn |-> 0, place |-> 0]

-----------------------------------------------------------------------------
(* AsyncLLMServerManager *)

Init ==
  /\ phase = "idle" /\ batch = 0 /\ size = 0 /\ chunk = 0
  /\ row = << >> /\ visited = << >>
  /\ handles \in [Workers -> {h \in [Places -> Servers] :
                                \A p, q \in Places : h[p] = h[q] => p = q}]
  /\ counts = [w \in Workers |-> [p \in Places |-> 0]]
  /\ cache = [w \in Workers |-> << >>]
  /\ down = {}
  /\ outputs = [w \in Workers |-> << >>]
  /\ result = << >>

\* The root of the heap: the least count, then the least place.
Root(w, p) ==
  \A q \in Places :
    counts[w][p] < counts[w][q] \/ (counts[w][p] = counts[w][q] /\ p <= q)

\* The agent loop names a session once; the servers see a new name every turn.
Session_PerTurn(i) == <<batch, i + row[i].turn * NumWorkers * chunk>>
Session(i) == <<batch, i>>

Remembered(w, s) == \E k \in DOMAIN cache[w] : cache[w][k].session = s
Without(q, k) == SubSeq(q, 1, k - 1) \o SubSeq(q, k + 1, Len(q))

\* cachetools: a full map forgets the entry used least recently.
Stored_NeverEvicts(q, e) == Append(q, e)
Stored(q, e) == Append(IF Len(q) >= MaxCache THEN Tail(q) ELSE q, e)

\* A known session goes where it went before; reading the map touches it.
ReusePlace(w, s, p) ==
  \E k \in DOMAIN cache[w] :
    /\ cache[w][k] = [session |-> s, place |-> p]
    /\ cache' = [cache EXCEPT ![w] = Append(Without(@, k), [session |-> s, place |-> p])]
    /\ UNCHANGED counts

NewPlace_FirstWins(w, s, p) ==
  /\ ~Remembered(w, s)
  /\ p = 1
  /\ counts' = [counts EXCEPT ![w][p] = @ + 1]
  /\ cache' = [cache EXCEPT ![w] = Stored(@, [session |-> s, place |-> p])]
NewPlace(w, s, p) ==
  /\ ~Remembered(w, s)
  /\ Root(w, p)
  /\ counts' = [counts EXCEPT ![w][p] = @ + 1]
  /\ cache' = [cache EXCEPT ![w] = Stored(@, [session |-> s, place |-> p])]

-----------------------------------------------------------------------------
(* The coroutine of a row *)

Running(i, at) == phase = "running" /\ i \in Rows /\ row[i].at = at

\* The prompt is encoded in the executor, so coroutines come here in any order.
Ask(i) ==
  /\ Running(i, "ask")
  /\ \E w \in Workers, p \in Places :
       /\ w = Owner(i)
       /\ ReusePlace(w, Session(i), p) \/ NewPlace(w, Session(i), p)
       /\ row' = [row EXCEPT ![i].at = "wait", ![i].turn = @ + 1, ![i].place = p]
       /\ visited' = [visited EXCEPT ![i] = @ \cup {p}]
  /\ UNCHANGED <<phase, data, handles, down, outputs, result>>

ServerOf(i) == handles[Owner(i)][row[i].place]

Answered(i) ==
  /\ Running(i, "wait") /\ ServerOf(i) \notin down
  /\ \/ row[i].turn < Turns /\ row' = [row EXCEPT ![i].at = "ask"]
     \/ row[i].turn = Turns /\ row' = [row EXCEPT ![i].at = "score"]
  /\ UNCHANGED <<phase, data, visited, handles, balance, down, outputs, result>>

\* The first exception of a row goes through gather and ray.get to the trainer,
\* whatever the other rows are doing; their coroutines end with the training.
BatchRaises ==
  /\ phase' = "raised" /\ chunk' = 0
  /\ row' = << >> /\ visited' = << >> /\ outputs' = [w \in Workers |-> << >>]
  /\ UNCHANGED <<batch, size, handles, balance, down, result>>

\* Ray raises in the caller of an actor that died.
RequestRaises_Retries(i) ==
  /\ Running(i, "wait") /\ ServerOf(i) \in down
  /\ row' = [row EXCEPT ![i].at = "ask", ![i].turn = @ - 1]
  /\ UNCHANGED <<phase, data, visited, handles, balance, down, outputs, result>>
RequestRaises(i) == Running(i, "wait") /\ ServerOf(i) \in down /\ BatchRaises

Scored(i) ==
  /\ Running(i, "score")
  /\ row' = [row EXCEPT ![i].at = "done"]
  /\ UNCHANGED <<phase, data, visited, handles, balance, down, outputs, result>>

\* The reward function raises for what this row answered.
ScoreRaises(i) == Running(i, "score") /\ BatchRaises

ServerDies(s) ==
  /\ s \notin down /\ down' = down \cup {s}
  /\ UNCHANGED <<phase, data, row, visited, handles, balance, outputs, result>>

-----------------------------------------------------------------------------
(* AgentLoopWorker.generate_sequences and AgentLoopManager *)

\* A task of the worker, once done: the prompt it was made from.
WorkerReturns_Early(w) ==
  /\ phase = "running" /\ outputs[w] = << >>
  /\ \E i \in RowsOf(w) : row[i].at = "done"
  /\ outputs' = [outputs EXCEPT ![w] = [k \in 1 .. chunk |-> PromptOf(Chunk(w)[k])]]
  /\ UNCHANGED <<phase, data, row, visited, handles, balance, down, result>>
WorkerReturns(w) ==
  /\ phase = "running" /\ outputs[w] = << >>
  /\ \A i \in RowsOf(w) : row[i].at = "done"
  /\ outputs' = [outputs EXCEPT ![w] = [k \in 1 .. chunk |-> PromptOf(Chunk(w)[k])]]
  /\ UNCHANGED <<phase, data, row, visited, handles, balance, down, result>>

\* Validation pads its batch; training hands over what it has, and chunk
\* refuses a batch that is no multiple of the workers.
StartBatch(n, pads) ==
  /\ phase = "idle" /\ batch < MaxBatches
  /\ batch' = batch + 1 /\ size' = n /\ result' = << >>
  /\ \/ /\ pads \/ n % NumWorkers = 0
        /\ phase' = "running"
        /\ chunk' = Padded(n) \div NumWorkers
        /\ row' = [i \in 1 .. Padded(n) |-> Started]
        /\ visited' = [i \in 1 .. Padded(n) |-> {}]
        /\ outputs' = [w \in Workers |-> << >>]
     \/ /\ ~pads /\ n % NumWorkers # 0
        /\ phase' = "rejected"
        /\ UNCHANGED <<chunk, row, visited, outputs>>
  /\ UNCHANGED <<handles, balance, down>>

\* The outputs one after the other, without the last rows of the padding.
Joined == [j \in 1 .. size |-> outputs[((j - 1) \div chunk) + 1][((j - 1) % chunk) + 1]]

FinishBatch ==
  /\ phase = "running"
  /\ \A w \in Workers : outputs[w] # << >>
  /\ phase' = "idle" /\ result' = Joined
  /\ UNCHANGED <<data, row, visited, handles, balance, down, outputs>>

RowStep(i) == Ask(i) \/ Answered(i) \/ RequestRaises(i) \/ Scored(i)

Next ==
  \/ \E n \in BatchSizes, pads \in BOOLEAN : StartBatch(n, pads)
  \/ \E i \in Rows : RowStep(i) \/ ScoreRaises(i)
  \/ \E s \in Servers : ServerDies(s)
  \/ \E w \in Workers : WorkerReturns(w)
  \/ FinishBatch

\* Live servers answer, the tasks of a worker are scheduled, Ray delivers what
\* a worker returned.  Nothing makes the trainer ask or a server die.
Spec ==
  /\ Init /\ [][Next]_vars
  /\ WF_vars(\E i \in Rows : RowStep(i))
  /\ WF_vars(\E w \in Workers : WorkerReturns(w))
  /\ WF_vars(FinishBatch)

-----------------------------------------------------------------------------
(* Properties *)

Steps == {"ask", "wait", "score", "done"}

\* Type correctness.
TypeOK ==
  /\ phase \in {"idle", "running", "raised", "rejected"}
  /\ batch \in 0 .. MaxBatches /\ size \in Nat /\ chunk \in Nat
  /\ row \in [Rows -> [at : Steps, turn : 0 .. Turns, place : 0 .. Cardinality(Servers)]]
  /\ visited \in [Rows -> SUBSET Places]
  /\ handles \in [Workers -> [Places -> Servers]]
  /\ counts \in [Workers -> [Places -> Nat]]
  /\ cache \in [Workers -> Seq([session : Batches \X Nat, place : Places])]
  /\ \A w \in Workers : Len(cache[w]) <= MaxCache
  /\ down \subseteq Servers
  /\ outputs \in [Workers -> Seq(Nat)] /\ result \in Seq(Nat)

\* A worker never gives one server two sessions more than another, over any
\* number of batches: the count that is never decremented still deals evenly.
DealsEvenly ==
  \A w \in Workers : \A p, q \in Places : counts[w][p] <= counts[w][q] + 1

\* All the requests of a session go to one server, as long as a worker has no
\* more rows than its map has entries: sessions of earlier batches, and the
\* other rows of this one, never evict it between two of its turns.
Sticky ==
  chunk <= MaxCache => \A i \in Rows : Cardinality(visited[i]) <= 1

\* What the trainer gets is complete and in its own order: row i was made from
\* prompt i and the padding is gone.
InOrder ==
  result # << >> => result = [i \in 1 .. size |-> i]

\* Between two rollouts every row was answered and scored, so no request is in
\* flight: the batch is whole and the weights may be replaced.
QuietBetweenRollouts ==
  phase = "idle" => \A i \in Rows : row[i].at = "done"

\* A rollout whose servers stay up and whose rewards do not raise is handed
\* over; any other one raises.  No server or reward failure hangs the trainer.
RolloutEnds == phase = "running" ~> phase # "running"
=============================================================================
