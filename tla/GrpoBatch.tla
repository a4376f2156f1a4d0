----------------------------- MODULE GrpoBatch -----------------------------
(***************************************************************************)
(* One batch of GRPO from the dataloader to the optimizer: rollout, join   *)
(* with the prompts, balancing over the ranks, the log-probabilities of    *)
(* the old policy and of the reference, advantages, and the mini- and      *)
(* micro-batches of the update (RayPPOTrainer.fit, DataProto,              *)
(* DataParallelPPOActor).  A row changes place and is cut into parts five  *)
(* times, and its columns are joined by position only.                     *)
(*                                                                         *)
(* Every forward gathers the parameters from all ranks, so the ranks go    *)
(* through their micro-batches together.  A log-probability is what it     *)
(* depends on: the token, the embeddings at their positions that it        *)
(* attends to, and the adapter; an embedding of a series on the encoder,   *)
(* how it routes and what is random in its forward.                        *)
(***************************************************************************)
EXTENDS Integers, Sequences, FiniteSets

CONSTANTS
  NumPrompts,      \* data.train_batch_size
  N,               \* rollout.n, responses per prompt
  NumRanks,        \* data-parallel ranks of the actor
  MiniPrompts,     \* actor.ppo_mini_batch_size, in prompts
  UpdateMicro,     \* actor.ppo_micro_batch_size_per_gpu
  OldMicro,        \* rollout.log_prob_micro_batch_size_per_gpu
  RefMicro,        \* ref.log_prob_micro_batch_size_per_gpu
  PpoEpochs,       \* actor.ppo_epochs
  MaxSteps,        \* training steps
  PromptLength, ResponseLength,   \* to which prompts and responses are padded
  Channels,        \* embeddings of one series
  WarmupEpochs,    \* dense_routing_warmup_epochs of the encoder
  Lengths          \* lengths of questions and responses a rollout may have

BatchSize == NumPrompts * N
PerRank == BatchSize \div NumRanks
\* ppo_mini_batch_size after ActorRolloutRefWorker has normalised it.
MiniBatch == (MiniPrompts * N) \div NumRanks
CeilDiv(a, b) == (a + b - 1) \div b
NumMini == CeilDiv(PerRank, MiniBatch)

Prompts == 1 .. NumPrompts
Samples == 1 .. BatchSize
Ranks == 1 .. NumRanks

ASSUME Sizes ==
  /\ \A n \in {NumPrompts, N, NumRanks, MiniPrompts, UpdateMicro, OldMicro, RefMicro, PpoEpochs,
               ResponseLength, Channels} : n \in Nat \ {0}
  /\ MaxSteps \in Nat /\ WarmupEpochs \in Nat /\ PromptLength \in Nat
  /\ BatchSize % NumRanks = 0
  /\ MiniBatch > 0 /\ MiniBatch % UpdateMicro = 0

ASSUME LengthsFit ==
  \A l \in Lengths :
    /\ l.question \in [Prompts -> 1 .. (PromptLength - 3)]
    /\ l.response \in [Samples -> 1 .. ResponseLength]

VARIABLES
  pc,         \* where fit() is
  step,       \* global_steps
  version,    \* optimizer steps taken, by adapter and encoder alike
  length,     \* lengths of the current rollout
  gen,        \* gen_batch_output
  batch,      \* batch of the driver
  out,        \* per rank, log_probs_lst of the call in progress
  epoch, mini, \* loops of update_policy
  loss,       \* per rank, loss terms whose gradients are accumulated
  trained     \* how often each sample was in an optimizer step

loop == <<epoch, mini, loss, trained>>
vars == <<pc, step, version, length, gen, batch, out, loop>>

-----------------------------------------------------------------------------
(* Tokens and what a position attends to *)

Pad == <<"pad">>
Begin == <<"begin_of_TS">>
End == <<"end_of_TS">>
Prompt(p) == <<<<"user">>, Begin, End>> \o [i \in 1 .. length.question[p] |-> <<"question", p, i>>]
Response(s) == [i \in 1 .. length.response[s] |-> <<"response", s, i>>]

\* The membership of a channel in a cluster: drawn in train mode, a probability
\* over one half in eval mode.  The context tokens made of it bias the router and
\* modulate the experts.
Membership == {"membership"}

\* Random in train mode only.  Attention dropout lives in nn.MultiheadAttention
\* and is no nn.Dropout.
Stochastic == {"dropout", "router jitter", "attention dropout"} \cup Membership
Disabled == {"dropout", "router jitter"}
Noise(training) == IF training THEN Stochastic \ Disabled ELSE {}
EncoderEpoch_Unpatched == 0
EncoderEpoch == WarmupEpochs + 1
Routing(training) == IF training /\ EncoderEpoch < WarmupEpochs THEN "dense" ELSE "top-k"

Series(p, encoder, routing, drawn) ==
  [c \in 1 .. Channels |-> <<"series", p, c, encoder, routing, drawn>>]

First(ids, token) == CHOOSE i \in DOMAIN ids : ids[i] = token /\ \A j \in 1 .. (i - 1) : ids[j] # token

\* The actor: the embeddings go between the markers, the mask grows there by as
\* many ones, and the positions are counted again.
MergedIds(ids, p, encoder, training) ==
  SubSeq(ids, 1, First(ids, Begin)) \o Series(p, encoder, Routing(training), Noise(training))
    \o SubSeq(ids, First(ids, End), Len(ids))
MergedMask_AtEnd(ids) ==
  [i \in 1 .. (Len(ids) + Channels) |-> i > Len(ids) \/ ids[i] # Pad]
MergedMask(ids) ==
  LET s == First(ids, Begin)
  IN  [i \in 1 .. (Len(ids) + Channels) |->
         \/ i <= s /\ ids[i] # Pad
         \/ i > s /\ i <= s + Channels
         \/ i > s + Channels /\ ids[i - Channels] # Pad]
Position(mask, i) == Cardinality({j \in 1 .. i : mask[j]}) - 1
Attended(embeds, mask, i) ==
  {[at |-> Position(mask, j), is |-> embeds[j]] : j \in {k \in 1 .. i : mask[k]}}

\* What _agent_loop_postprocess makes of a prompt and its response.
InputIds(row) ==
  LET prompt == Prompt(row.prompt)
      response == Response(row.sample)
      missing == PromptLength - Len(prompt)
  IN  [i \in 1 .. (PromptLength + ResponseLength) |->
         IF i <= missing \/ i > PromptLength + Len(response) THEN Pad
         ELSE IF i <= PromptLength THEN prompt[i - missing]
         ELSE response[i - PromptLength]]

\* log_probs of the tokens of a row that response_mask keeps.
LogProbs(row, adapter, encoder, training) ==
  LET ids == InputIds(row)
      embeds == MergedIds(ids, row.prompt, encoder, training)
      mask == MergedMask(ids)
      first == Len(embeds) - ResponseLength - 1
  IN  [i \in 1 .. length.response[row.sample] |->
         [label |-> ids[PromptLength + i], context |-> Attended(embeds, mask, first + i),
          adapter |-> adapter]]

\* The server: begin and end are replaced by the item's embeddings, which hold
\* both, and nothing is padded.  It is in eval mode and draws nothing; to compare
\* with it, a token as it would be with something drawn.
Expanded(p, encoder, drawn) ==
  LET ids == Prompt(p)
      s == First(ids, Begin)
  IN  SubSeq(ids, 1, s - 1) \o (<<Begin>> \o Series(p, encoder, Routing(FALSE), drawn) \o <<End>>)
        \o SubSeq(ids, s + 2, Len(ids))
Served(row, i, weights, drawn) ==
  LET seen == Expanded(row.prompt, weights, drawn) \o SubSeq(Response(row.sample), 1, i - 1)
  IN  [label |-> Response(row.sample)[i],
       context |-> {[at |-> j - 1, is |-> seen[j]] : j \in DOMAIN seen},
       adapter |-> weights]

-----------------------------------------------------------------------------
(* DataProto *)

Least(a, b) == IF a < b THEN a ELSE b
\* repeat(n, interleave=True)
Repeat(rows) == [i \in 1 .. (N * Len(rows)) |-> rows[((i - 1) \div N) + 1]]
\* chunk on dispatch, concat on collect
Chunk_RoundRobin(r) == [i \in 1 .. PerRank |-> batch[(i - 1) * NumRanks + r]]
Chunk(r) == SubSeq(batch, (r - 1) * PerRank + 1, r * PerRank)
Collected == [i \in Samples |-> out[((i - 1) \div PerRank) + 1][((i - 1) % PerRank) + 1]]
\* The part of split(size) that follows the first n rows.
Part(rows, n, size) == SubSeq(rows, n + 1, Least(n + size, Len(rows)))

NoScores == [own |-> 0, scores |-> {}, size |-> 0]
Nothing == [r \in Ranks |-> << >>]

-----------------------------------------------------------------------------
(* The driver *)

Init ==
  /\ pc = "load" /\ step = 0 /\ version = 0
  /\ length \in Lengths /\ gen = << >> /\ batch = << >> /\ out = Nothing
  /\ epoch = 0 /\ mini = 0 /\ loss = Nothing /\ trained = [s \in Samples |-> 0]

\* The servers hold the weights of the last update (module WeightSync) and
\* answer row by row (module AgentLoop).
Rollout ==
  /\ pc = "load" /\ step < MaxSteps
  /\ step' = step + 1 /\ pc' = "join"
  /\ length' \in Lengths
  /\ batch' = [p \in Prompts |-> [uid |-> p]]
  /\ gen' = [s \in Samples |->
               [sample |-> s, prompt |-> Repeat(batch')[s].uid, version |-> version]]
  /\ trained' = [s \in Samples |-> 0]
  /\ UNCHANGED <<version, out, epoch, mini, loss>>

Joined(uids) ==
  [i \in Samples |->
     [uid |-> uids[i].uid, sample |-> gen[i].sample, prompt |-> gen[i].prompt,
      version |-> gen[i].version, old |-> << >>, ref |-> << >>, adv |-> NoScores]]
Join_Stacked ==
  /\ pc = "join" /\ pc' = "balance"
  /\ batch' = Joined([i \in Samples |-> batch[((i - 1) % NumPrompts) + 1]])
  /\ UNCHANGED <<step, version, length, gen, out, loop>>
Join ==
  /\ pc = "join" /\ pc' = "balance"
  /\ batch' = Joined(Repeat(batch))
  /\ UNCHANGED <<step, version, length, gen, out, loop>>

\* Rows of a rank in the order of their workload, then every second one and
\* the others backwards.
Workload(i) == length.question[batch[i].prompt] + length.response[batch[i].sample]
Before(i, j) == Workload(i) < Workload(j) \/ (Workload(i) = Workload(j) /\ i < j)
Sorted(part) ==
  [n \in 1 .. Cardinality(part) |->
     CHOOSE i \in part : Cardinality({j \in part : Before(j, i)}) = n - 1]
Ends_OddsAgain(s) ==
  [i \in DOMAIN s |-> s[IF 2 * i - 1 <= Len(s) THEN 2 * i - 1 ELSE 2 * (Len(s) - i) + 1]]
Ends(s) ==
  [i \in DOMAIN s |-> s[IF 2 * i - 1 <= Len(s) THEN 2 * i - 1 ELSE 2 * (Len(s) - i + 1)]]

\* Any partition into parts of equal size (module SeqlenBalance).
Balance ==
  /\ pc = "balance" /\ pc' = "old"
  /\ \E rank \in [Samples -> Ranks] :
       LET Part_(r) == {i \in Samples : rank[i] = r}
       IN  /\ \A r \in Ranks : Cardinality(Part_(r)) = PerRank
           /\ batch' = [i \in Samples |->
                 batch[Ends(Sorted(Part_(((i - 1) \div PerRank) + 1)))[((i - 1) % PerRank) + 1]]]
  /\ UNCHANGED <<step, version, length, gen, out, loop>>

\* One micro-batch of compute_log_prob on every rank, in eval mode.
Score(size, adapter) ==
  /\ \A r \in Ranks : Len(out[r]) < PerRank
  /\ out' = [r \in Ranks |->
       LET rows == Part(Chunk(r), Len(out[r]), size)
       IN  out[r] \o [i \in DOMAIN rows |-> LogProbs(rows[i], adapter, version, FALSE)]]
  /\ UNCHANGED <<pc, step, version, length, gen, batch, loop>>
Scored == \A r \in Ranks : Len(out[r]) = PerRank

ScoreOld == pc = "old" /\ Score(OldMicro, version)
UnionOld ==
  /\ pc = "old" /\ Scored
  /\ batch' = [i \in Samples |-> [batch[i] EXCEPT !.old = Collected[i]]]
  /\ out' = Nothing /\ pc' = "ref"
  /\ UNCHANGED <<step, version, length, gen, loop>>

\* With LoRA the reference is the actor with its adapter disabled.
ScoreRef == pc = "ref" /\ Score(RefMicro, 0)
UnionRef ==
  /\ pc = "ref" /\ Scored
  /\ batch' = [i \in Samples |-> [batch[i] EXCEPT !.ref = Collected[i]]]
  /\ out' = Nothing /\ pc' = "advantage"
  /\ UNCHANGED <<step, version, length, gen, loop>>

\* A score is the sample it was given for; the mean and the deviation are of
\* the scores with one uid.
Advantage ==
  /\ pc = "advantage" /\ pc' = "update"
  /\ batch' = [i \in Samples |->
       LET group == {j \in Samples : batch[j].uid = batch[i].uid}
       IN  [batch[i] EXCEPT !.adv =
              [own |-> batch[i].sample, scores |-> {batch[j].sample : j \in group},
               size |-> Cardinality(group)]]]
  /\ UNCHANGED <<step, version, length, gen, out, loop>>

\* In update_policy the rank's rows are cut into mini-batches, and with only
\* one of them the old log-probabilities are those of the forward itself.
OnPolicy == NumMini = 1 /\ PpoEpochs = 1
MiniRows(r) == Part(Chunk(r), mini * MiniBatch, MiniBatch)
Term(row) ==
  LET new == LogProbs(row, version, version, TRUE)
  IN  [sample |-> row.sample, prompt |-> row.prompt, version |-> row.version, new |-> new,
       old |-> IF OnPolicy THEN new ELSE row.old, ref |-> row.ref, adv |-> row.adv]

\* One micro-batch of update_policy on every rank, in train mode.
UpdateMicroBatch ==
  /\ pc = "update"
  /\ \A r \in Ranks : Len(loss[r]) < Len(MiniRows(r))
  /\ loss' = [r \in Ranks |->
       LET rows == Part(MiniRows(r), Len(loss[r]), UpdateMicro)
       IN  loss[r] \o [i \in DOMAIN rows |-> Term(rows[i])]]
  /\ UNCHANGED <<pc, step, version, length, gen, batch, out, epoch, mini, trained>>

\* One for every row of a rank's mini-batch that holds the sample.
Stepped(s) ==
  LET places == {k \in Ranks \X (1 .. MiniBatch) :
                   k[2] \in DOMAIN loss[k[1]] /\ loss[k[1]][k[2]].sample = s}
  IN  trained[s] + Cardinality(places)

\* Where the loops of update_policy go, and what fit() drops at their end.
NextMiniBatch ==
  LET lastMini == mini + 1 = NumMini
      last == lastMini /\ epoch + 1 = PpoEpochs
  IN  /\ mini' = IF lastMini THEN 0 ELSE mini + 1
      /\ epoch' = IF last THEN 0 ELSE IF lastMini THEN epoch + 1 ELSE epoch
      /\ pc' = IF last THEN "load" ELSE "update"
      /\ batch' = IF last THEN << >> ELSE batch
      /\ gen' = IF last THEN << >> ELSE gen

\* The gradients of a mini-batch are complete.  The optimizer is not stepped
\* when their norm is not finite.
OptimizerStep_KeepsGradients ==
  /\ pc = "update"
  /\ \A r \in Ranks : Len(loss[r]) = Len(MiniRows(r))
  /\ version' \in {version, version + 1}
  /\ trained' = [s \in Samples |-> Stepped(s)]
  /\ NextMiniBatch
  /\ UNCHANGED <<step, length, out, loss>>
OptimizerStep ==
  /\ pc = "update"
  /\ \A r \in Ranks : Len(loss[r]) = Len(MiniRows(r))
  /\ version' \in {version, version + 1}
  /\ trained' = [s \in Samples |-> Stepped(s)]
  /\ loss' = Nothing
  /\ NextMiniBatch
  /\ UNCHANGED <<step, length, out>>

Next ==
  \/ Rollout \/ Join \/ Balance
  \/ ScoreOld \/ UnionOld \/ ScoreRef \/ UnionRef
  \/ Advantage \/ UpdateMicroBatch \/ OptimizerStep
Spec == Init /\ [][Next]_vars

-----------------------------------------------------------------------------
(* Properties *)

Terms == UNION {{loss[r][i] : i \in DOMAIN loss[r]} : r \in Ranks}

\* Type correctness; no part outgrows its rank or its mini-batch.
TypeOK ==
  /\ pc \in {"load", "join", "balance", "old", "ref", "advantage", "update"}
  /\ step \in 0 .. MaxSteps /\ version \in 0 .. (MaxSteps * PpoEpochs * NumMini)
  /\ epoch \in 0 .. (PpoEpochs - 1) /\ mini \in 0 .. (NumMini - 1)
  /\ \A r \in Ranks : Len(out[r]) <= PerRank /\ Len(loss[r]) <= MiniBatch
  /\ trained \in [Samples -> 0 .. PpoEpochs]

\* What the patch leaves random in update_policy (see RatioStartsAtOne).
LeftRandom == {"attention dropout", "membership"}

\* Every term of the loss compares, token by token, the policy in hand with the
\* policy that the row was sampled from and with the base model, each in the
\* context in which the server sampled the token: the series of the row's own
\* prompt at the same positions, under the right weights, with experts chosen by
\* the router and not all of them, whatever padding, merging and shuffling did to
\* the row in between.  Not in the same embeddings: update_policy draws
\* memberships and attention dropout where the server does not, so that its
\* router may choose other experts; it draws these two and nothing else, and the
\* stored log-probabilities draw nothing.
RatioInContext ==
  \A t \in Terms :
    /\ Len(t.new) = length.response[t.sample] /\ Len(t.old) = Len(t.new) /\ Len(t.ref) = Len(t.new)
    /\ \A i \in DOMAIN t.new :
         /\ t.new[i] = Served(t, i, version, LeftRandom)
         /\ t.old[i] = Served(t, i, t.version, IF OnPolicy THEN LeftRandom ELSE {})
         /\ t.ref[i] = [Served(t, i, t.version, {}) EXCEPT !.adapter = 0]

\* A response is judged by the scores of all N responses to its own prompt and
\* of no other, although the uid comes from the dataloader and the score from
\* the rollout.
JudgedByItsGroup ==
  \A t \in Terms :
    /\ t.adv.own = t.sample
    /\ t.adv.scores = {s \in Samples : gen[s].prompt = gen[t.sample].prompt}
    /\ t.adv.size = N

\* No row is trained twice while another waits, and none is left out when the
\* next rollout begins.
TrainsEachRowOnce ==
  /\ \A s, t \in Samples : trained[s] <= trained[t] + 1
  /\ pc = "load" /\ step > 0 => trained = [s \in Samples |-> PpoEpochs]

\* Until the first optimizer step of a batch the policy in hand is the one
\* that sampled it, and every ratio is one.
RatioStartsAtOne ==
  \A t \in Terms : version = t.version => t.new = t.old
=============================================================================
