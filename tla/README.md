# A formal model of TelePrism's reinforcement learning runtime

TelePrism trains a time-series language model with GRPO: a PyTorch FSDP *actor*
is updated, its weights are transferred into colocated vLLM *workers*, the
workers generate the next rollouts, and so on, on top of a vendored copy of verl
that TelePrism patches from outside (a worker extension in vLLM, monkey patches
on the FSDP side, a launcher script). What is hard to test in this code is not
the tensor arithmetic. It is who has which version of which weight, which row of a
batch belongs to which prompt, what a killed process leaves on disk, and which
ranks wait for which. This directory
holds TLA+ models of those parts, TLC configurations that check them on small
instances, and TLAPS proofs for every value of the constants.

All paths below are relative to the repository; `verl/` stands for
`src/rl/verl/verl/`.

## 1. The system

### Components

| Component | State it keeps | Operations | Talks to |
|---|---|---|---|
| Training loop (`verl/trainer/ppo/ray_trainer.py`, `fit`) | `global_steps`, epoch, dataloader position | resume, rollout, advantages, update, save, weight update, validate | every worker group, by blocking `ray.get` |
| Weight sender (`verl/workers/fsdp_workers.py` `rollout_mode`, `verl/workers/rollout/vllm_rollout/vllm_rollout.py`) | `base_sync_done` per rank, shared CUDA IPC buffer, ZMQ socket | collect, fill buckets, wait for acknowledgement, await RPC, reset prefix cache | its vLLM worker (ZMQ + shared memory), its server (RPC) |
| Weight receiver (`src/rl/training/worker_extension.py`) | model weights, `_base_weight_cache` | receive, clone, acknowledge, load, restore, merge LoRA | the sender |
| Parameter collection (`src/rl/training/fsdp_patches.py`, `verl/utils/fsdp_utils.py`) | none | `collect_lora_params` with the encoder appended, wrap policy, gradient norm | the FSDP module |
| Checkpointing (`ray_trainer.py` `_save_checkpoint`/`_load_checkpoint`, `verl/utils/checkpoint/*.py`) | `global_step_N/` directories, `data.pt`, `latest_checkpointed_iteration.txt`; `previous_saved_paths` in memory | save, rotate, find latest, load | all ranks, by barriers |
| Launcher and model directories (`scripts/run_grpo_training.sh`, `setup_model_dir.py`, `bake_checkpoint.py`) | unbaked and baked model directories, data files | download, overlay, bake, preprocess, start training | the file system |
| Request routing and agent loop (`verl/experimental/agent_loop/agent_loop.py`, `src/rl/training/agent_loop.py`) | heap of request counts, LRU map of sessions | choose server, generate, gather | vLLM servers |
| Actor worker (`verl/workers/actor/dp_actor.py`, `verl/workers/fsdp_workers.py`) | weights, optimizer, accumulated gradients | `compute_log_prob`, `compute_ref_log_prob`, `update_policy` | the driver, by dispatch and collect; the other ranks, by collectives |
| Batch balancing (`verl/utils/seqlen_balancing.py`, `_balance_batch`) | none | partition, reorder | the training loop |
| Prompt expansion and model (`src/models/ts_llm/tsllm_causal/vllm_plugin.py`, `modeling_tsllm.py`) | none | expand placeholders in the server, merge the series in the actor | vLLM; the actor |
| Supervised cold start (`src/train_tsllm.py`) | epoch, gradient window, checkpoints | train, evaluate, save on rank 0, resume | ranks, by collectives |
| Evaluation, inference, dataset, reward | none that survives a call | pure functions of data | - |

`PROJECT.json` lists each of them with its sources, its modules and its status.

### How they interact

    run_grpo_training.sh
       |  setup_model_dir -> unbaked/   bake_checkpoint -> baked dir   preprocess -> data
       v
    main_ppo / fit  ----------------------------------------------+
       | resume                                                    | save every save_freq,
       v                                                           | last step, expiring instance
    update_weights --> rollout_mode on every FSDP rank             v
       |                  | ZMQ + IPC buffer               FSDPCheckpointManager on every rank
       |                  v                                  (barriers), then data.pt, then tracker
       |               vLLM worker: clone, ack, restore, merge
       v
    generate (agent loop -> server manager -> vLLM server)
       |
       v
    join -> balance -> old, reference log-probs -> advantages -> update_actor --> update_weights ...

The parts meet in `fit` only: the weight update never looks at the disk, the
checkpoint never looks at the rollout side, and a batch of rows is built, used and
dropped inside one step. They are therefore modelled in separate modules that
share the order of `fit` and the notion of a model version. What one takes from
another is stated at the place: `GrpoBatch` rolls out with the weights of the last
update (which is what `WeightSync` shows), in row order (`AgentLoop`), and balances
with any partition of equal sizes (`SeqlenBalance`). The one place where resume
and weight update do influence each other, a resumed actor with `base_sync_done`
false, enters `WeightSync` as the constant `StartVersions`.

### What is hard, and what makes each part correct

- **Weight synchronisation.** Per rank a sender and a worker run concurrently
  over one buffer that is reused as soon as it is acknowledged; only one rank of
  a tensor-parallel replica awaits the RPC; LoRA is merged into weights that
  earlier syncs merged into before. *Correct* means: when generation starts,
  every worker holds exactly base + one merge of the current adapter, nothing is
  in flight, no cached KV block is older than the actor, and the sync ends.
- **Checkpointing.** Ranks write independently between barriers; retention
  removes directories while the tracker still names one; the job can be killed
  between any two writes. *Correct* means: what the tracker names is whole, a
  resume goes on at the batch and with the model it stopped at, the loss is
  bounded by `save_freq`, and no barrier hangs.
- **Launcher.** Every step is skipped if its output seems to exist, and seems to
  exist before it is complete. *Correct* means: whatever was killed or overlapped,
  a launch trains on the model of its start or stops with an error.
- **A step of GRPO.** A row is repeated, joined, partitioned, reordered from both
  ends, chunked, scored, collected, cut and trained, always by position; and the
  actor rebuilds from a padded row what the server saw unpadded. Nothing fails
  when an index is off or a mask grows at the wrong end. *Correct* means: every
  term of the loss compares policies on the row's own tokens in the context in
  which they were sampled, is judged by its own group, and every row is trained
  equally often.
- **Balancing.** A heap of partial partitions is merged pairwise. *Correct* means:
  every sample is placed once, no rank is empty, the ranks differ by no more than
  samples do.
- **Agent loop and routing.** Rows of concurrent coroutines, padded and chunked over
  workers; servers chosen from a heap of counts that are never decremented and an
  LRU map that forgets. *Correct* means: rows come back in order, nothing is in
  flight when the weights are replaced, sessions stay where their prefix is and
  are dealt evenly, and a rollout ends whatever dies.
- **Supervised cold start.** Under ZeRO-3 every forward is a sequence of collectives,
  and which ones depends on the routing of the rank's own batch. *Correct* means:
  no rank waits in a collective that another will not enter, whatever is routed,
  evaluated, saved or resumed.

`PROJECT.json` lists the hazards at their lines, with the properties that would
catch each.

## 2. The modules

| Module | Content |
|---|---|
| `PolicyHandoff` | Abstract: the actor changes hands in one step |
| `WeightSync` | Driver, senders, workers of the weight update; implements `PolicyHandoff` |
| `WeightSync_inv`, `WeightSync_proofs` | Inductive invariants; theorems |
| `DurableCheckpoint` | Abstract: one durable copy of the model |
| `CheckpointStore` | Save, rotate, crash, resume; implements `DurableCheckpoint` |
| `CheckpointStore_inv`, `CheckpointStore_proofs` | Inductive invariants; theorems |
| `LaunchPipeline` | Launches, model directories, data files |
| `LaunchPipeline_inv`, `LaunchPipeline_proofs` | Inductive invariants; theorems |
| `SeqlenBalance`, `SeqlenBalance_proofs` | The Karmarkar-Karp partition of `get_seqlen_balanced_partitions`; theorems |
| `AgentLoop`, `AgentLoop_proofs` | Manager, workers, row coroutines, routing to servers; theorems |
| `ColdStart`, `ColdStart_proofs` | The ranks of `train_tsllm.py` as sequences of collectives; theorems |
| `GrpoBatch`, `GrpoBatch_proofs` | One batch from the dataloader to the optimizer; theorems |
| `MCWeightSync`, `MCCheckpointStore`, `MCLaunchPipeline`, `MCGrpoBatch` | Instances for TLC |

An operator named `Something_Variant` next to `Something` is the definition with
a plausible bug in it; it is used by nothing. It documents which mistake the
property paired with it in `PROJECT.json` is there to catch.

### WeightSync

*Configuration.* What `run_grpo_training.sh` sets: LoRA with a merge in the
worker, `free_cache_engine=False` (so no sleep and wake-up), the naive checkpoint
engine, `load_format=dummy` (`DummyLoad`; FALSE is the other value and nothing is
run on it).

*Data.* A weight is an integer: 0 is its base value, merging the adapter of
version v adds v. A merge on top of a merge, a merge that got lost and a merge of
an older adapter all give a different number, which is all the properties need.
Encoder and alignment weights, which are trained in full, are the version they
were taken from. `Garbage` is uninitialised memory, `Uncached` no cache entry.
Tensors are `<<name, "A">>`, `<<name, "B">>` or `<<name, "full">>`; a fused
module names the projections it fuses (`qkv` from q, k, v), as
`worker_extension.py` groups them.

*Actions.*

| Code | Actions |
|---|---|
| `fit`, `update_weights` of the checkpoint engine | `BeginSync`, `EndSync`, `SyncFailed`, `Generate`, `UpdateActor`, `Finish` |
| `ServerAdapter.update_weights` | `StartRpc`, `SendHandle`, `RecvHandleAck`, `Put`, `Flush`, `RecvBucketAck`, `SendLast`, `RecvLastAck`, `AwaitFuture`, `FutureFails` |
| `update_weights_from_ipc`, `_apply_lora_to_model` | `RecvHandle`, `RecvBucket`, `CloneAndAck`, `LoadBucket`, `MergeBucket`, `ApplyFails` |

`spc` and `wpc` are the places at which a sender and a worker can be interleaved:
every send, receive, wait, and every access to the shared buffer is a step of its
own. `Put` is one tensor. `CloneAndAck` is one step because nobody can touch the
buffer before the acknowledgement; `MergeBucket` is one because nobody reads the
weights while a worker runs, except when it raises, which is `ApplyFails` with
any part of the bucket applied. `RecvBucketAck` crashes the sender on the
assertion that a tensor fits into a bucket. `baseSyncDone` is per rank and is set
at the end of `rollout_mode`, which for a rank that does not lead its replica is
before the leader's.

### CheckpointStore

`shard[s][r]` is what rank r has on disk for step s: nothing, `Torn` (cut off in
its first save), `Mixed` (cut off while overwriting, so that old and new files lie
side by side and may load), or a model. A model is the launch that trained it
last and the number of its updates, which tells a resumed training from a
restarted one. `data` and `tracker` are written in two steps each, because
`open(..., "w")` truncates first.

| Code | Actions |
|---|---|
| process start, kill | `Launch`, `Crash` |
| `_load_checkpoint`, `find_latest_ckpt_path`, `FSDPCheckpointManager.load_checkpoint` | `StartFresh`, `Resume`, `LoadFails` |
| `fit` | `EnterLoop`, `TakeBatch`, `NextEpoch`, `EpochsOver`, `UpdateActor`, `EndStep` |
| `FSDPCheckpointManager.save_checkpoint` | `EnsureCapacity`, `MakeDir`, `BarrierMade`, `OpenShard`, `CloseShard`, `BarrierWritten`, `Register`, `RemoveShard`, `RemovedCheckpoint`, `BarrierSaved` |
| `_save_checkpoint` | `OpenData`, `CloseData`, `OpenTracker`, `WriteTracker` |

`should_save_ckpt_esi` (the expiring instance) may return true at the steps of
`EsiSteps`. The position of the dataloader is what `StatefulDataLoader` of
torchdata, which is not part of the repository, restores: a pass saved at its last
batch is at its end, and the next loop over it yields nothing. The epoch, though, is
computed from the step alone (`ray_trainer.py:1314`), so at such a step it is already
the next one, and that epoch is the one that yields nothing. `resumed`, the step a
launch resumed from, is a history variable that no guard reads; `Skipped` says from it
what the launch leaves out: one pass if `resumed` is the end of a pass that another
follows, nothing otherwise. `ResumesInPlace` and `FinishedIsTrained` are exact with it,
wherever the saves fall.

### LaunchPipeline

Each launcher is a shell at a place `pc[l]`. The unbaked directory is its base
model files (`files`) and its `config.json` (`unbaked`); a baked directory exists
(`made`) before it has weights (`weights`) and config (`config`). Of a config only
the fields written after the download count: "overlay" (the class is
`TSLLMForCausalLM`) and "baked" (`weights_baked`, with the enlarged vocabulary).

| Code | Actions |
|---|---|
| start and kill of the script | `Launch`, `Interrupt` |
| script step 1, `setup_model_dir.py` | `CheckUnbaked`, `SetupGuard`, `Download`, `OverlayOpen`, `OverlayWrite` |
| script step 2, `bake_checkpoint.py` | `CheckBaked`, `BakeLoads`, `BakeDir`, `SaveWeightsOpen`, `SaveWeights`, `BakeCopy`, `BakeConfigOpen`, `BakeConfigWrite`, `BakeVerify` |
| data | `CheckData`, `WriteData` |
| `main_ppo.py`, `_build_model_optimizer`, `from_pretrained` | `LoadData`, `LoadConfig`, `LoadWeights` |

What the model assumes of code outside the repository: `snapshot_download`
fetches the files one by one in any order, each appears as a whole, and those
already there are left; `from_pretrained` on a config without the overlay loads
a plain Qwen3 model, none of whose parameters the baked file names (`Plain`);
on a config without "baked" it raises, because the saved embedding has two more
rows than the base model's vocabulary.

Writing `model.safetensors` is two steps. `SaveWeightsOpen` truncates it; launchers that
are at that moment still writing the same file (`Saving`) are `cut`: they go on at their
offset, behind a hole. `inFile` keeps whose bytes can be in the file. When a launcher
closes its file (`SaveWeights`), what the file holds is any of `Written`: his model; a
mix of it with what others wrote over the same bytes; or, of a file with a hole, any
part of it, and unreadable while the hole has its header. Loading is one step: a load
that another launcher's truncation overtakes ends in a bus error of the mapped file,
which is a kill.

`disturbed` (some launch was killed or overlapped another), `trusted` (some launch took
an unfinished unbaked directory as finished) and `clobbered` (the directories whose
file was truncated while another launcher wrote it) are history variables: no guard
reads them.

### SeqlenBalance

One step per turn of the loop of `karmarkar_karp`. A `Set` of the code is the set of
its items with their sum, a `State` a tuple of K sets in decreasing order. `Init`
is the heap the function builds (tuples of K items with `equal_size`, single items
without), `Merge` pops the two states of largest spread and pushes their merge, in
any order the ties allow, and `Return` is the end of the function with the checks
of `get_seqlen_balanced_partitions`.

### AgentLoop

A row is a coroutine at a place: `ask` for a server, `wait` for its answer, `score`,
`done`. Choosing a server awaits nothing in the code, so it is one step; every
`await` is a place where rows interleave.

| Code | Actions |
|---|---|
| `AgentLoopManager.generate_sequences`, padding | `StartBatch`, `FinishBatch` |
| `AgentLoopWorker.generate_sequences`, `asyncio.gather` | `WorkerReturns` |
| `AsyncLLMServerManager._choose_server` and `generate` | `Ask` (`ReusePlace`, `NewPlace`), `Answered`, `RequestRaises` |
| `_agent_loop_postprocess`, reward loop worker | `Scored`, `ScoreRaises` |
| death of an inference server | `ServerDies` |

A worker shuffles its list of servers, so a place of its heap is a place of its own
list (`handles`).

### ColdStart

`rank[r]` is where rank r of `train_tsllm.py` is, the collective it waits in, if any,
and its counters. A run of collectives that nothing comes between is one operation
with the set of experts it is about; `Meet` lets all ranks go on and is possible only
when all are in the same one. A rank that asks for other experts than another is in
another operation, and both wait for ever, as they do in NCCL.

| Code | Actions |
|---|---|
| training loop, DeepSpeed engine | `Forward`, `Backward`, `Norms`, `Step`, `Log`, `NextBatch`, `NextEpoch` |
| `evaluate` with forced dense routing | `StartEval`, `EvalForward`, `EndEval` |
| `gather_trainable_state_dict`, `torch.save` | `Save`, `Write`, `Written` |
| resume | `Load`, `Loaded` |
| exceptions, the launcher, the user | `Raises`, `LauncherKills`, `Relaunch` |

A rank has its weights twice, and the model counts the optimizer steps behind each:
`steps` behind the bf16 parameters that a forward gathers, `master` behind the fp32
copy that the optimizer steps and a save gathers. `Loaded` writes the first only, since
it comes after `deepspeed.initialize`; `Step` advances the copy and replaces the
parameters by it. `NameTellsSteps` says what follows: the checkpoint of an epoch holds
the windows of its own launch and none of the checkpoint that launch resumed from.

### GrpoBatch

*Data.* A log-probability is not a number but what it depends on: the token, the set
of embeddings it attends to with their positions, and the adapter. Two of them are comparable exactly when these agree. A token is
its origin (question or response, number, index), an embedding of a series is its
prompt, its channel, the version of the encoder, the kind of routing and what was drawn
at random for it. So a shifted mask, the series of another row, a dense routing or a
stale row all show.

*Randomness.* What a forward draws at random is drawn in the encoder, in train mode
only (the language model has no dropout: that of Qwen3 is 0 and the adapter is made
without), so it is part of the embeddings. `Stochastic` lists it:
dropout modules, the jitter of the router, the dropout inside `nn.MultiheadAttention`,
and the memberships of the channels in clusters, which `CCM._bernoulli_M` samples from
a relaxed Bernoulli in train mode and cuts at 0.5 in evaluation (`context.py:243-264`).
They reach the tokens, the bias of the router and the modulation. `fsdp_patches.py`
disables the first two. `LeftRandom` are the others: `RatioInContext` says that the
policy that is updated sees the context of the server in everything but these two, and
that the old and the reference policy, scored in evaluation mode, see it in everything
(when a batch is a single update the old policy is the new one itself, and has them). It
does not say that the embeddings, and what the router makes of them, are the server's,
nor that the ratio is one as long as the policy has not changed. They are not, which is
finding 4.

*Ranks.* Every forward gathers the parameters from all ranks (FSDP), so the ranks go
through their micro-batches together and one step is one micro-batch of all.

| Code | Actions and operators |
|---|---|
| `fit`: generation, `repeat`, `union` | `Rollout`, `Repeat`, `Join` |
| `_balance_batch` | `Balance`, `Sorted`, `Ends`; the partition is any of equal sizes |
| dispatch and collect | `Chunk`, `Collected` |
| `compute_log_prob`, `compute_ref_log_prob` | `ScoreOld`, `UnionOld`, `ScoreRef`, `UnionRef` |
| `compute_grpo_outcome_advantage` | `Advantage` |
| `update_policy`, `_optimizer_step` | `UpdateMicroBatch`, `OptimizerStep`, `NextMiniBatch` |
| `_agent_loop_postprocess`, `TSLLMForCausalLM.forward` | `InputIds`, `MergedIds`, `MergedMask`, `Position`, `LogProbs` |
| `vllm_plugin.py`, `embed_multimodal` | `Expanded`, `Served` |
| the patches of the encoder in `fsdp_patches.py` | `Membership`, `Stochastic`, `Disabled`, `EncoderEpoch`, `Routing` |

An optimizer step may leave the weights as they are: a gradient norm that is not
finite skips it. The patches apply when `train_encoder` is true, as in the shipped
YAML; the model has that case. Every prompt has one series. The reference is the
actor without its adapter, so it has the encoder of the current version:
`RatioInContext` says so for the reference term.

## 3. What is checked

| Run | Instance | Shows |
|---|---|---|
| `WeightSync_launcher` | 3 ranks (a replica of two and one alone), 2 updates, full payload of 2 buckets, LoRA payload of one | The launcher's case: `StagedIntact`, `RolloutMatchesActor`, `CacheIsCleanBase`, `NoStalePrefix`, `NoWorkerLeftBehind` in every interleaving; `SyncTerminates`; the refinement `HandsOverAtomically` |
| `WeightSync_failures` | 2 ranks, 1 update, any bucket may raise, and one LoRA tensor is larger than the bucket | A sync that hangs has a worker that raised, the sender's assertion does not make it hang (`HangsOnlyAfterFailure`) |
| `WeightSync_resume` | 2 ranks, actor starts at version 1 | Violation of `RolloutMatchesActor` (finding 1) |
| `CheckpointStore_resume` | 2 ranks, 3 launches, 3 epochs of 3 steps, save every 2, keep 2, expiring at step 1, 3 or 5 | `TrackedIsComplete`, `ResumesInPlace`, `FailsOnlyOnTornTracker`, `LossIsBounded`, `FinishedIsTrained`, `LaunchEnds`, refinement `IsDurable` |
| `LaunchPipeline_overlap` | 2 shells, 2 starting models, 2 shards, 3 launches | `TrainsFromItsStart`, `NeverSilentlyWrong`, `FailsOnlyWhenDisturbed` |
| `LaunchPipeline_partial` | 1 shell, 2 launches | Violation of `BakesWholeModel` (finding 2) |
| `SeqlenBalance_calls` | 6 samples of 3 workloads over 3 ranks, with and without equal sizes | `PlacedOnce`, `SpreadBounded`, `AssertionsHold` |
| `AgentLoop_rollouts` | 2 rollouts of 2 or 3 rows, 2 workers, 2 servers, sessions of 2 turns, an LRU map of 2, dying servers, raising rewards | `DealsEvenly`, `Sticky`, `InOrder`, `QuietBetweenRollouts`; `RolloutEnds` |
| `ColdStart_epochs` | 3 ranks, 2 experts, 3 epochs of 3 micro-batches, windows of 2, raising ranks, 3 launches | `NoMismatch`, `OneVersion`, `NameTellsSteps`; `AllEnd` |
| `ColdStart_warmup` | 2 ranks, a warm-up of 1 epoch | Violation of `WarmupEnds` (finding 3) |
| `GrpoBatch_batch` | 2 prompts with 4 responses on 2 ranks, 2 mini-batches of 2 rows a rank, 2 PPO epochs, 2 steps | `RatioInContext`, `JudgedByItsGroup`, `TrainsEachRowOnce` |
| `GrpoBatch_dropout` | the same with 1 PPO epoch | Violation of `RatioStartsAtOne` (finding 4) |

Every property of a passing run is paired with a variant of the model it fails
on (`mutants` in `PROJECT.json`): a dropped barrier, an early acknowledgement, a
cache refreshed on every bucket, a prefix cache that is not reset, and so on.

### Bounds, and why they are enough

- *WeightSync.* Ranks interact only through their replica's leader and the
  driver, so a replica of two (leader and follower) beside a replica of one shows
  every kind of pair. Buckets: the full payload needs two (the case the buffer
  reuse and the cache depend on), LoRA one; four full tensors of 3 bytes in a
  bucket of 7, so that a full bucket has room left and the LoRA payload of 7
  tensors of 1 byte fills its bucket to the last byte. Two updates give a full sync, a first and a second LoRA sync: the
  second is the first that restores merged weights. One module that fuses two
  projections, one that stands alone, one frozen weight and one encoder weight
  are the four kinds the merge tells apart.
- *CheckpointStore.* Two ranks (the one that removes and registers, and one that
  does not). Three epochs of three steps with a save every two place saves inside every
  pass and, by `save_freq` and by an expiring instance, on the end of each pass that
  another one follows; after a resume there a pass is left to be trained and crashed in,
  so that the launch after it resumes from a step of one that left a pass out. Keeping
  two checkpoints makes both `EnsureCapacity` and retention run; three launches give a
  crash in a resumed training.
- *LaunchPipeline.* Two shells so that each can be at any place of the other's
  launch; a third launch to use what both left; two starting models for two baked
  directories; two shards so that a download can be partial. Launchers and shards
  are symmetric. Loops have no counters besides `MaxLaunches`.
- *SeqlenBalance.* Six samples over three ranks give two tuples with equal sizes and
  five merges without; the workloads 1, 2 and 5 include ties and one sample that
  outweighs the rest.
- *AgentLoop.* Two workers and a batch they divide and one they do not; two turns, so
  that a session can be evicted between them (the map holds as many sessions as a
  worker has rows of one batch, and those of the next evict them); two rollouts, so
  that a count or a map left by the first is met by the second.
- *ColdStart.* Three ranks, so that two can agree against one; three micro-batches
  per epoch with windows of two, so that windows straddle epochs; evaluation and save
  every second epoch, so that there is an epoch without; three launches, for a resume
  of a resumed training.
- *GrpoBatch.* Two prompts are the least that can be mixed up. Four responses on two
  ranks give each rank rows of both prompts in every possible share; two
  mini-batches and two epochs make `OnPolicy` false, as in the launcher; micro-batches
  of 1, 2 and 4 rows for update, old and reference have the ratios of the 2, 4 and 8 of
  `grpo_tsllm.yaml`; questions and responses
  of different lengths give different padding on both sides. The second step finds
  whatever the first left.

`CHECK_DEADLOCK FALSE` is stated for `CheckpointStore` and `LaunchPipeline`, which
stop when the launches are used up, for `SeqlenBalance`, which is one call, and for
`AgentLoop`, `ColdStart` and `GrpoBatch`, which stop after their rollouts, launches
or steps. That they do not stop earlier is said by `LaunchEnds`, `RolloutEnds` and
`AllEnd`; `GrpoBatch` is sequential, and every one of its actions is taken. `WeightSync` has an explicit action
`Terminated` for the end of the training, so that a hang is a deadlock and TLC
reports it; only `WeightSync_failures` turns the check off, because there a sender
does hang, and says when in `HangsOnlyAfterFailure`.

### Fairness

- *WeightSync*: weak fairness of the driver, of each sender and of each worker.
  They are operating system processes and a Ray actor that nothing suspends; each
  has at most one enabled action (or a choice within one), so this only says that
  a process that can go on does. Nothing is assumed of message loss: ZMQ over IPC
  between two processes of one host loses nothing while both live.
- *CheckpointStore*: weak fairness of `Run`, the running launch. Neither
  `Launch` nor `Crash` is fair: nobody has to relaunch a training, and it need not
  be killed.
- *AgentLoop*: weak fairness of the rows together, of the workers together and of
  the manager: an event loop runs what is ready, and each of its rows has finitely
  many steps. `ScoreRaises` and `ServerDies` are not fair; that a request to a dead
  server raises is (Ray reports a dead actor).
- *ColdStart*: weak fairness of each rank, of a complete collective and of the
  launcher that kills the ranks a dead one leaves behind. `Raises` and `Relaunch` are
  not fair.
- *LaunchPipeline*, *SeqlenBalance*, *GrpoBatch*: none; all their properties are
  safety.

## 4. What is proved

TLAPS checks these for every value of the constants allowed by the `ASSUME`s.

| Theorem | Statement | Under |
|---|---|---|
| `WeightSync_proofs!TypeCorrect` | `TypeOK` | - |
| `WeightSync_proofs!NobodyLeftBehind` | `NoWorkerLeftBehind` | - |
| `WeightSync_proofs!StagedStaysIntact` | `StagedIntact` | - |
| `WeightSync_proofs!PrefixIsFresh` | `NoStalePrefix` | - |
| `WeightSync_proofs!RolloutIsOnPolicy` | `RolloutMatchesActor` | `Launcher` |
| `WeightSync_proofs!CacheStaysClean` | `CacheIsCleanBase` | `Launcher` |
| `WeightSync_proofs!SyncNeverDeadlocks` | until a worker raises, a weight update has somebody who can go on (`NoDeadlock`) | - |
| `WeightSync_proofs!ImplementsHandoff` | implements `PolicyHandoff!Spec` | `Launcher`, `Inhabited` |
| `CheckpointStore_proofs!TypeCorrect` | `TypeOK` | `Automatic` |
| `CheckpointStore_proofs!TrackedStaysComplete` | `TrackedIsComplete` | `Automatic` |
| `CheckpointStore_proofs!LaunchesLoad` | `FailsOnlyOnTornTracker` | `Automatic` |
| `CheckpointStore_proofs!ResumesGoOn` | `ResumesInPlace` | `Automatic` |
| `CheckpointStore_proofs!FinishedTrainings` | `FinishedIsTrained` | `Automatic` |
| `CheckpointStore_proofs!CrashCostsSaveFreq` | `LossIsBounded` | `Automatic`, `Saving` |
| `CheckpointStore_proofs!NoLaunchIsStuck` | a launch that has not stopped has a step to take (`NeverStandsStill`) | `Automatic` |
| `CheckpointStore_proofs!ImplementsDurable` | implements `DurableCheckpoint!Spec` (`IsDurable`) | `Automatic` |
| `LaunchPipeline_proofs!TypeCorrect` | `TypeOK` | - |
| `LaunchPipeline_proofs!OwnModel` | `TrainsFromItsStart` | - |
| `LaunchPipeline_proofs!WrongOnlyAfterPartialSetupOrTwoBakes` | `NeverSilentlyWrong` | - |
| `LaunchPipeline_proofs!UndisturbedLaunchesTrain` | `FailsOnlyWhenDisturbed` | - |
| `SeqlenBalance_proofs!TypeCorrect` | `TypeOK` | - |
| `SeqlenBalance_proofs!EverySampleOnce` | `PlacedOnce` | - |
| `SeqlenBalance_proofs!NoWiderThanSamples` | `SpreadBounded` | - |
| `SeqlenBalance_proofs!NoAssertionFails` | `AssertionsHold` | - |
| `AgentLoop_proofs!TypeCorrect` | `TypeOK` | - |
| `AgentLoop_proofs!SessionsDealtEvenly` | `DealsEvenly` | - |
| `AgentLoop_proofs!SessionsStayOnOneServer` | `Sticky` | - |
| `AgentLoop_proofs!RowsInOrder` | `InOrder` | - |
| `AgentLoop_proofs!NothingInFlight` | `QuietBetweenRollouts` | - |
| `ColdStart_proofs!TypeCorrect` | `TypeOK` | - |
| `ColdStart_proofs!RanksMeet` | `NoMismatch` | - |
| `ColdStart_proofs!LaunchesNeverHang` | while not every rank has ended, a rank runs, a collective is complete or the launcher has a dead rank to end the others for (`SomethingGoesOn`) | - |
| `ColdStart_proofs!VersionsMeet` | `OneVersion` | - |
| `ColdStart_proofs!CheckpointsHoldWindows` | `NameTellsSteps` | - |
| `ColdStart_proofs!ScheduleSuffices` | the schedule is at least as long as the training (`ScheduleCovers`) | - |
| `GrpoBatch_proofs!TypesHold` | `TypeOK` | - |
| `GrpoBatch_proofs!RatiosInContext` | `RatioInContext` | - |
| `GrpoBatch_proofs!GroupsKeepTogether` | `JudgedByItsGroup` | - |
| `GrpoBatch_proofs!TrainsAllAlike` | `TrainsEachRowOnce` | - |

`Launcher`: `load_format` dummy, a fresh actor, and a LoRA payload that fits into
one bucket. Without the second and third the property is false (finding 1 and the
first observation of section 5). `Automatic`: every launch resumes automatically and
`max_ckpt_to_keep` is not 1; without them it is false too (observations).
`Saving`: `save_freq` above 0, otherwise nothing is saved and a crash costs everything. The instance of
`CheckpointStore_resume` satisfies both. Nothing is assumed of where saves fall or of
`total_training_steps`: a `save_freq` of 25, the launcher's, meets the end of a pass
whatever the data, at the latest at that of the 25th. That `LaunchPipeline` assumes
some `Shards` is the base model having weights: `from_pretrained` fails in a directory
without any. The assumptions of `GrpoBatch` are checks of the code: `Sizes` those of `DataProto.chunk`
and of the actor's batch sizes (`verl/protocol.py:885`, `fsdp_workers.py:241-259`),
`LengthsFit` the launcher's `data.filter_overlong_prompts=True`. That mini-batches
divide a rank's rows is not among them, and is not needed.

### The invariants, and why they are needed

- *WeightSync* has three, each resting on the one before. `ProtocolInv` says, for
  each place of a sender, where its worker and the channel can be. It is the
  whole handshake: `StagedIntact` and `NoWorkerLeftBehind` are not inductive
  because they do not say that the sender waits while the worker clones, or that
  a leader is done only after its followers' workers. `ContentInv` adds what is in
  buffer and staging area: the tensors of the payload at the bucket's indices.
  `WeightInv` adds the induction over versions: until the base has
  arrived nothing is cached, from then on the cache is base everywhere, and a
  worker past its merge has the current version. It needs `FirstSync`: the full
  sync happens at version 0 only.
  `NoDeadlock` follows from `ProtocolInv`: a sender that waits for an acknowledgement
  has a worker that can go on, or a leader that has not called yet; once every sender
  is past its last acknowledgement, a leader's call is complete or one of its workers
  is applying.
- *CheckpointStore*: `StoreInv`. `Phases` is what the barriers do: the ranks are
  all before, all in, or all after the write. `Ahead` orders step and tracker, so
  that a save never writes into the directory the tracker names. `Paths` and
  `VictimsAreOld` say retention removes only what is older than the tracker's;
  they need the last path of the list to be what the tracker names or will.
  `Position` counts the batches: the step is a number of whole passes plus the
  position in the current one. Two more rest on it. `Aligned` says which pass: step and
  `Skipped` together are `epoch` passes and the position in this one, throughout a
  launch. What makes it inductive over a resume is `GoesOn`: what a save writes is the
  position of a batch that was trained, so the epoch computed from the step is that
  batch's own or, if it was the last of its pass, the next one, and `Skipped` is then
  a pass (`EpochResumed`). A resume computes all of it anew, so what one launch leaves
  out the next does not add to. `Kept` says that
  every multiple of `save_freq` the training has passed is at or below the tracker, so
  that what a crash takes lies between two multiples. `NeverStandsStill` needs of `Phases` that
  the ranks are at one barrier, and `Trimming`: who removes has something to remove.
- *LaunchPipeline*: `PipelineInv`. What can be read from a file and what a
  launcher has read is tied to its directory; as long as nobody was mistaken
  (`~trusted`), whoever is past the setup finds all files there, and a config
  that can be read has the overlay, because the setup is over and only the bake
  writes configs from then on. `Calm` is the other side: as long as nothing disturbed
  a launch, whoever is alone finds an unbaked directory that is absent or ready, baked
  directories that load, his own excepted while he is in the bake, and both data files
  or neither. It is stated of every launcher that could start next, the ones that are
  stopped included, which is what carries it from one launch to the next.
- *SeqlenBalance*: `BalanceInv` adds to the two properties that every state of the
  heap is in decreasing order: a merge puts the large sets of one to the small sets
  of the other, so the sums of the merge differ by no more than those of the one with
  the larger spread. `SizesInv` is what the assertions need: with equal sizes the sets of a
  state have one size, so those of the last one have all samples in equal shares (a
  pigeonhole on places and shares); without, a state with an empty set has none of two
  samples, so at the end, with at least as many samples as ranks, no set is empty.
- *AgentLoop*: `LoopInv`. The root of a heap is a least entry, so counts that only
  ever grow there differ by at most one; a worker that has returned has its chunk in
  order and no row of it that is not done (`Given`). `StickyInv` is about the map: a
  session has one entry, older batches come first, and a row of this batch that has
  asked is in the map with its server. A new session pushes out the first entry; were
  that one of this batch, all would be, and as many entries as the map holds, each of
  another row of the worker, leave no row that is not in it.
- *ColdStart*: `Lockstep`. `Ahead` takes a rank's state to its next collective; the
  ranks that live all have the same one ahead, with the same counters. It holds because
  `Runs` has one choice: in training the warm-up has not ended, in evaluation the
  routing is forced to be dense. With an encoder that learns its epoch it would be
  false: the end of the warm-up, which finding 3 misses, would bring back the deadlock
  unless `sparse_inference` is off.
- *GrpoBatch*: `BatchInv`. A position in the batch means something only together
  with the sample that is there, so `Shuffled` carries that the rows are the samples
  of the rollout in some order, each with its own prompt and uid; `Scoring` and
  `Accumulated` that what a rank has computed so far belongs to its first rows, in
  their order. The rest is about two places. Balancing keeps `Shuffled` because
  sorting a part by a total order, and taking it from both ends, are one-to-one (a
  pigeonhole on the number of earlier rows). And for one row, the position of a token
  in the padded, merged row counts exactly the tokens the server saw before it
  (`ContextAsSeen`). For `TrainsEachRowOnce`, `TrainedSoFar` says that in an epoch
  the first `mini * MiniBatch` rows of each rank are one step ahead of the others,
  and `Counted` bounds the optimizer steps by the turns of the loops.

### Only model-checked

Liveness and everything under fairness (`SyncTerminates`, `HangsOnlyAfterFailure`,
`LaunchEnds`, `RolloutEnds`, `AllEnd`, the fairness part of `HandsOverAtomically`): the prover has no rules
for fairness or ENABLED that would carry it. Three theorems prove the safety part of such
a property: `SyncNeverDeadlocks` that of `HangsOnlyAfterFailure` and `SyncTerminates`,
`NoLaunchIsStuck` that of `LaunchEnds`, `LaunchesNeverHang` that of `AllEnd`. They say
in place of ENABLED who can go on. For `ColdStart` that is any rank that has not ended
and is in no collective: each place of the script has its step. For the others it is
`DriverCanGo`, `SenderCanGo`, `WorkerCanGo` and `LaunchCanGo`. That the actions imply
them is proved (`GuardsOf`, `RunNeeds`); that they are enough for a step is
`GuardsMatch` in `MCWeightSync` and `MCCheckpointStore`, which TLC finds true in all
states of `WeightSync_launcher`, `WeightSync_failures` and `CheckpointStore_resume`
when it is put in the place of their properties. Every invariant a passing run checks is
stated by a theorem.

## 5. Findings

1. **A resumed actor's adapter is not in the first rollout**
   (`fsdp_utils.py:645`, run `WeightSync_resume`). The first sync is a full one and
   a full one skips adapter tensors.
2. **A partial download is baked**
   (`setup_model_dir.py:27`, run `LaunchPipeline_partial`): the guards test
   `config.json`, which is there before the weights are; `strict=False` hides what
   is missing.
3. **The dense warm-up of the cold start never ends**
   (`teleEncoder.py:272`, run `ColdStart_warmup`): nothing calls `set_current_epoch`,
   so the routers are never trained, while evaluation and GRPO route by them.
4. **The encoder stays random in the update**
   (`fsdp_patches.py:118`, run `GrpoBatch_dropout`): the patch zeroes `nn.Dropout`
   modules; the dropout of `nn.MultiheadAttention` is not one, and neither is the
   sampling of memberships in `CCM._bernoulli_M` (`context.py:249-264`), which the
   train mode of `update_policy` turns on. Either alone refutes the claim at 105-106.

Observations, met while modelling, of behaviour in a configuration the launcher does
not use or that no document speaks against. The models have them: with the constants
named here the property fails.

- A LoRA payload of more than one bucket loses merges (`worker_extension.py:224`;
  `WeightSync` with `LoraEnd` beyond one bucket, `RolloutMatchesActor`): the base
  weights are restored once per bucket. The default bucket of 2048 MB holds the
  launcher's adapter; a larger adapter or a smaller bucket does not.
- `max_actor_ckpt_to_keep=1` removes the tracked checkpoint (`checkpoint_manager.py:169`;
  `TrackedIsComplete`) before `data.pt` and the tracker of the new one are written.
- A restart with `resume_mode=disable`, which the launcher passes, killed while it
  overwrites the step the tracker names, followed by one with `auto`, loads shards of
  both trainings (`fsdp_checkpoint_manager.py:233`; `ResumesInPlace`).
- The tracker is truncated and then written (`ray_trainer.py:986`): a kill in between
  leaves an empty file that no launch can parse (`FailsOnlyOnTornTracker` says that
  nothing else does).
- With another `load_format`, adapters of successive versions add up.
- A relaunch of a finished training with an explicit `total_training_steps` trains one
  more step each time.
- A checkpoint of the last step of a pass resumes with an exhausted dataloader in the
  next epoch, which yields nothing: that epoch is lost (`ray_trainer.py:1314`), and no
  more than it (`ResumesInPlace`, `FinishedIsTrained`).
- Two launches that bake one start at the same time: opening `model.safetensors`
  truncates it (`bake_checkpoint.py:175`), and what the first then writes follows a
  hole. If the second is killed the hole stays. The baked file is loaded with
  `strict=False` (`modeling_tsllm.py:951-966`), and the check after the bake prints
  MISMATCH and then that it passed (`bake_checkpoint.py:279-283`), so the training starts
  from a model with parameters missing. `NeverSilentlyWrong` has this as the second of
  its two ways.
- A resumed cold start trains on, but not from its checkpoint: `train_tsllm.py:452-461`
  writes the loaded weights into bf16 parameters that DeepSpeed has already copied into
  fp32 masters, so the first optimizer step replaces them by the fresh initialisation
  plus one step, which is also what `safe_get_full_fp32_param` saves (`:651`). The
  comment at 430-431 says the load "sets each param correctly under Zero-3".
- The bake guard does not notice a changed checkpoint tag.
- With LoRA the reference policy is the actor without its adapter, and encoder and
  alignment layer are trained outside of the adapter: the reference moves.
- A series that cannot be deserialised leaves its row without one; in a micro-batch of
  several rows `_merge_ts_embeddings` indexes the embeddings by row
  (`modeling_tsllm.py:1006`), so a later row takes another's series or none.
- The option `filter_groups.enable=True` (`run_grpo_training.sh:213`) is read by
  nothing in `fit`.
- `train_tsllm.py:631-638` says a read of the parameters is local to a rank; every rank
  takes part in it, which is what keeps the ranks together.
- `is_gradient_accumulation_boundary` is asked again after the step has advanced the
  count, so the logged mean is not of one window (`train_tsllm.py:541`).

## 6. Not modelled

- Floating-point computation: the values of losses, advantages and KL, the layers of
  the encoders, the reward's regular expressions. Pure data.
- Sleep and wake-up of the engine, full-parameter training, HDFS, `async_save`,
  `resume_path`, the critic: not in the launcher's configuration. Of the actor,
  dynamic batch sizes, removed padding, Ulysses and fused kernels: off in the launcher.
- Validation, metrics and the logging of `fit`: they read what the models hold and
  write nothing back.
- The import hook of `fsdp_patches.py`: a question of Python's import machinery.
- Dataset, preprocessing, evaluation, inference and the export tools: sequential
  scripts over files that nothing else writes.
- Third-party code: Ray, vLLM, torch.distributed, transformers. Modelled only as
  used: blocking calls, a reliable socket, barriers, files.
- Megatron, SGLang, the VLA and transfer-queue experiments and the other verl
  backends, which are most of the lines of the repository: never selected.

## 7. Plan

Done, in this order because it follows what a training costs when it goes wrong:
`PolicyHandoff` and `WeightSync` (silently off-policy training), `DurableCheckpoint`
and `CheckpointStore` (lost work), `LaunchPipeline` (a wrong model), then
`SeqlenBalance`, `AgentLoop`, `ColdStart` and `GrpoBatch`, each with its proofs.

Next:

1. An abstract rollout service that `AgentLoop` implements and `GrpoBatch` uses.
2. Rows without a series in `GrpoBatch`.
3. A composition of `WeightSync` and `CheckpointStore` along `fit`, with the
   resumed first sync as an action and not a constant.

## 8. Running it

    tlc -config WeightSync_launcher.cfg MCWeightSync.tla
    tlapm WeightSync_proofs.tla

`X_y.cfg` belongs to the module `MCX` where there is one, else to `X`.
