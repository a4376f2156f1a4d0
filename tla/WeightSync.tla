----------------------------- MODULE WeightSync -----------------------------
(***************************************************************************)
(* The transfer of the actor's weights to the colocated vLLM workers, once *)
(* before the first rollout and once after every actor update:             *)
(*   fsdp_workers.py      rollout_mode: collects what to send              *)
(*   vllm_rollout.py      ServerAdapter.update_weights: the sender         *)
(*   worker_extension.py  TSColocateWorkerExtension: the receiver          *)
(* The launcher's configuration is modelled: LoRA, free_cache_engine=False *)
(* (no sleep, no resume), the "naive" checkpoint engine.                   *)
(*                                                                         *)
(* A weight is abstracted to a number: 0 is the base (SFT) value and the   *)
(* adapter of version v adds v to it, so adapter 0 (lora_B = 0) adds 0 and *)
(* two merges on top of each other are visible as a sum.  A fully trained  *)
(* encoder weight is the number of the version it was taken from.          *)
(***************************************************************************)
EXTENDS Integers, Sequences

CONSTANTS
  Ranks,          \* FSDP ranks; each has one colocated vLLM worker
  Leader,         \* [Ranks -> Ranks]: rollout_rank 0 of the rank's replica
  Modules,        \* fused language-model weights that LoRA adapts
  Projections,    \* the unfused projections PEFT trains (q_proj, k_proj, ...)
  Proj,           \* [Modules -> SUBSET Projections]: what each weight fuses
  Frozen,         \* the other language-model weights
  Encoder,        \* ts_encoder.* and align_layer.* weights
  FullOrder,      \* tensors of a full sync, in the order they are sent
  AdapterOrder,   \* tensors of get_peft_model_state_dict, in order
  EncoderOrder,   \* tensors the patched collect_lora_params appends
  FullEnd,        \* FullEnd[i]: bytes of the first i tensors of a full sync
  LoraEnd,        \* the same for a LoRA sync
  BucketSize,     \* update_weights_bucket_megabytes, in bytes
  TrainEncoder,   \* training.train_encoder
  DummyLoad,      \* rollout.load_format is "dummy"
  WorkerMayFail,  \* whether applying a bucket may raise for other reasons
  StartVersions,  \* versions the actor may start from: {0} unless resuming
  MaxVersion,     \* bound on the actor updates
  Garbage,        \* uninitialised memory: a dummy weight, a fresh buffer
  Uncached        \* no entry in _base_weight_cache

Param == Modules \cup Frozen \cup Encoder
Version == 0 .. MaxVersion
Kinds == {"full", "lora"}
Tensor == (Projections \X {"A", "B"}) \cup (Param \X {"full"})

Payload_NoEncoder(kind) == IF kind = "full" THEN FullOrder ELSE AdapterOrder

Payload(kind) ==
  IF kind = "full" THEN FullOrder
  ELSE IF TrainEncoder THEN AdapterOrder \o EncoderOrder ELSE AdapterOrder

End(kind) == IF kind = "full" THEN FullEnd ELSE LoraEnd

ASSUME RanksAssumption ==
  /\ Leader \in [Ranks -> Ranks]
  /\ \A r \in Ranks : Leader[Leader[r]] = Leader[r]

ASSUME ParamAssumption ==
  /\ Proj \in [Modules -> SUBSET Projections]
  /\ \A m \in Modules : Proj[m] # {}
  /\ Modules \cap (Frozen \cup Encoder) = {} /\ Frozen \cap Encoder = {}
  /\ Garbage \notin Int /\ Uncached \notin Int /\ Uncached # Garbage
  /\ Garbage \notin Param \cup Projections

ASSUME PayloadAssumption ==
  /\ FullOrder \in Seq(Param \X {"full"})
  /\ \A p \in Param : \E i \in 1 .. Len(FullOrder) : FullOrder[i] = <<p, "full">>
  /\ AdapterOrder \in Seq(Projections \X {"A", "B"})
  /\ \A j \in Projections, ab \in {"A", "B"} :
       \E i \in 1 .. Len(AdapterOrder) : AdapterOrder[i] = <<j, ab>>
  /\ EncoderOrder \in Seq(Encoder \X {"full"})
  /\ \A p \in Encoder : \E i \in 1 .. Len(EncoderOrder) : EncoderOrder[i] = <<p, "full">>
  /\ \A kind \in Kinds :
       /\ End(kind) \in [0 .. Len(Payload(kind)) -> Nat]
       /\ End(kind)[0] = 0
       /\ \A i, j \in 0 .. Len(Payload(kind)) : i < j => End(kind)[i] < End(kind)[j]

ASSUME BoundAssumption ==
  /\ BucketSize \in Nat
  /\ TrainEncoder \in BOOLEAN /\ DummyLoad \in BOOLEAN /\ WorkerMayFail \in BOOLEAN
  /\ MaxVersion \in Nat
  /\ StartVersions \subseteq Version

VARIABLES
  phase,         \* where the driver's fit loop is
  version,       \* version of the actor's adapter and encoder
  baseSyncDone,  \* ActorRolloutRefWorker.base_sync_done of each rank
  spc,           \* program counter of each rank's sender
  lo,            \* payload index of the first tensor of the open bucket
  next,          \* payload index of the next tensor to put in it
  buffer,        \* the shared CUDA IPC buffer, by slot
  req,           \* request in flight on the ZMQ pair, if any
  rep,           \* whether a reply is in flight
  wpc,           \* program counter of each vLLM worker
  wkind,         \* base_sync_done argument of the running RPC
  wmsg,          \* bucket metadata the worker holds
  staged,        \* tensors the worker has cloned out of the buffer
  weight,        \* parameters of each vLLM worker
  cache,         \* _base_weight_cache of each vLLM worker
  prefix         \* actor versions whose KV blocks a server's prefix cache holds

trainerVars == <<phase, version, baseSyncDone>>
senderVars  == <<spc, lo, next, buffer>>
workerVars  == <<wpc, wkind, wmsg, staged, weight, cache>>
vars == <<trainerVars, senderVars, req, rep, workerVars, prefix>>

Servers == {Leader[r] : r \in Ranks}
Replica(l) == {r \in Ranks : Leader[r] = l}
Slot == 1 .. Len(FullOrder) + Len(Payload("lora"))
Content == [tensor : Tensor, ver : Version]
NoContent == [tensor |-> <<Garbage, "full">>, ver |-> 0]
Index == 1 .. Len(FullOrder) + Len(Payload("lora")) + 1
Bucket == [lo : Index, hi : Index, last : BOOLEAN]
NoBucket == [lo |-> 1, hi |-> 1, last |-> FALSE]
NoReq == <<"none", NoBucket>>
Handle == <<"handle", NoBucket>>

\* What rank r has to send: all base weights first, then the adapter.
Kind(r) == IF baseSyncDone[r] THEN "lora" ELSE "full"

\* The value a parameter has in the actor at version v, without its adapter.
BaseValue(p, v) == IF p \in Encoder /\ TrainEncoder THEN v ELSE 0

\* The value a rollout parameter must have to be the policy of version v.
PolicyValue(p, v) == IF p \in Modules THEN v ELSE BaseValue(p, v)

-----------------------------------------------------------------------------
Init ==
  /\ phase = "collect"
  /\ version \in StartVersions
  /\ baseSyncDone = [r \in Ranks |-> ~DummyLoad]
  /\ spc = [r \in Ranks |-> "idle"]
  /\ lo = [r \in Ranks |-> 1]
  /\ next = [r \in Ranks |-> 1]
  /\ buffer = [r \in Ranks |-> [k \in Slot |-> NoContent]]
  /\ req = [r \in Ranks |-> NoReq]
  /\ rep = [r \in Ranks |-> FALSE]
  /\ wpc = [r \in Ranks |-> "idle"]
  /\ wkind = [r \in Ranks |-> "full"]
  /\ wmsg = [r \in Ranks |-> NoBucket]
  /\ staged = [r \in Ranks |-> {}]
  /\ weight = [r \in Ranks |-> [p \in Param |-> IF DummyLoad THEN Garbage ELSE 0]]
  /\ cache = [r \in Ranks |-> [p \in Param |-> Uncached]]
  /\ prefix = [l \in Servers |-> {}]

-----------------------------------------------------------------------------
(* The driver (ray_trainer.fit) *)

\* checkpoint_manager.update_weights calls rollout_mode on every rank, which
\* gathers the parameters with a collective.
BeginSync ==
  /\ phase = "collect"
  /\ phase' = "sync"
  /\ spc' = [r \in Ranks |-> "start"]
  /\ UNCHANGED <<version, baseSyncDone, lo, next, buffer, req, rep, workerVars, prefix>>

\* ray.get returns once rollout_mode has returned on every rank.
EndSync ==
  /\ phase = "sync"
  /\ \A r \in Ranks : spc[r] = "done"
  /\ phase' = "generate"
  /\ spc' = [r \in Ranks |-> "idle"]
  /\ UNCHANGED <<version, baseSyncDone, lo, next, buffer, req, rep, workerVars, prefix>>

\* ray.get raises what a rank raised, and the driver dies of it.
SyncFailed ==
  /\ phase = "sync"
  /\ \E r \in Ranks : spc[r] = "crashed"
  /\ phase' = "crashed"
  /\ UNCHANGED <<version, baseSyncDone, senderVars, req, rep, workerVars, prefix>>

\* A request is served: its KV blocks enter the server's prefix cache.
Generate(l) ==
  /\ phase = "generate"
  /\ prefix' = [prefix EXCEPT ![l] = @ \cup {version}]
  /\ UNCHANGED <<trainerVars, senderVars, req, rep, workerVars>>

UpdateActor ==
  /\ phase = "generate"
  /\ version < MaxVersion
  /\ version' = version + 1
  /\ phase' = "collect"
  /\ UNCHANGED <<baseSyncDone, senderVars, req, rep, workerVars, prefix>>

Finish ==
  /\ phase = "generate"
  /\ version = MaxVersion
  /\ phase' = "done"
  /\ UNCHANGED <<version, baseSyncDone, senderVars, req, rep, workerVars, prefix>>

-----------------------------------------------------------------------------
(* The sender: ServerAdapter.update_weights *)

SGoto(r, from, to) == spc[r] = from /\ spc' = [spc EXCEPT ![r] = to]

\* Whether the next tensor still fits into the bucket that starts at index i.
Fits(r, i) == End(Kind(r))[next[r]] - End(Kind(r))[i - 1] <= BucketSize

\* Only rollout_rank 0 calls the server; the RPC starts all its workers.
StartRpc(r) ==
  /\ SGoto(r, "start", "handle")
  /\ IF r = Leader[r]
     THEN /\ wpc' = [w \in Ranks |-> IF w \in Replica(r) THEN "handle" ELSE wpc[w]]
          /\ wkind' = [w \in Ranks |-> IF w \in Replica(r) THEN Kind(r) ELSE wkind[w]]
     ELSE UNCHANGED <<wpc, wkind>>
  /\ UNCHANGED <<trainerVars, lo, next, buffer, req, rep, wmsg, staged, weight, cache, prefix>>

SendHandle_ZeroBased(r) ==
  /\ SGoto(r, "handle", "handle_ack")
  /\ buffer' = [buffer EXCEPT ![r] = [k \in Slot |-> NoContent]]
  /\ lo' = [lo EXCEPT ![r] = 0]
  /\ next' = [next EXCEPT ![r] = 1]
  /\ req' = [req EXCEPT ![r] = Handle]
  /\ UNCHANGED <<trainerVars, rep, workerVars, prefix>>

\* A new buffer (torch.empty) and its handle.
SendHandle(r) ==
  /\ SGoto(r, "handle", "handle_ack")
  /\ buffer' = [buffer EXCEPT ![r] = [k \in Slot |-> NoContent]]
  /\ lo' = [lo EXCEPT ![r] = 1]
  /\ next' = [next EXCEPT ![r] = 1]
  /\ req' = [req EXCEPT ![r] = Handle]
  /\ UNCHANGED <<trainerVars, rep, workerVars, prefix>>

RecvHandleAck(r) ==
  /\ SGoto(r, "handle_ack", "fill")
  /\ rep[r]
  /\ rep' = [rep EXCEPT ![r] = FALSE]
  /\ UNCHANGED <<trainerVars, lo, next, buffer, req, workerVars, prefix>>

Put(r) ==
  /\ spc[r] = "fill"
  /\ next[r] <= Len(Payload(Kind(r)))
  /\ Fits(r, lo[r])
  /\ buffer' = [buffer EXCEPT ![r][next[r] - lo[r] + 1] =
                  [tensor |-> Payload(Kind(r))[next[r]], ver |-> version]]
  /\ next' = [next EXCEPT ![r] = @ + 1]
  /\ UNCHANGED <<trainerVars, spc, lo, req, rep, workerVars, prefix>>

SendBucket(r, last) ==
  req' = [req EXCEPT ![r] = <<"bucket", [lo |-> lo[r], hi |-> next[r], last |-> last]>>]

\* The next tensor does not fit: the bucket goes out as it is.
Flush(r) ==
  /\ SGoto(r, "fill", "bucket_ack")
  /\ next[r] <= Len(Payload(Kind(r)))
  /\ ~Fits(r, lo[r])
  /\ SendBucket(r, FALSE)
  /\ UNCHANGED <<trainerVars, lo, next, buffer, rep, workerVars, prefix>>

\* The bucket is empty again; the assertion that the tensor fits into it.
RecvBucketAck(r) ==
  /\ SGoto(r, "bucket_ack", IF Fits(r, next[r]) THEN "fill" ELSE "crashed")
  /\ rep[r]
  /\ rep' = [rep EXCEPT ![r] = FALSE]
  /\ lo' = [lo EXCEPT ![r] = next[r]]
  /\ UNCHANGED <<trainerVars, next, buffer, req, workerVars, prefix>>

SendLast(r) ==
  /\ SGoto(r, "fill", "last_ack")
  /\ next[r] > Len(Payload(Kind(r)))
  /\ SendBucket(r, TRUE)
  /\ UNCHANGED <<trainerVars, lo, next, buffer, rep, workerVars, prefix>>

\* The other ranks have no future to await: rollout_mode returns.
RecvLastAck(r) ==
  /\ SGoto(r, "last_ack", IF r = Leader[r] THEN "future" ELSE "done")
  /\ rep[r]
  /\ rep' = [rep EXCEPT ![r] = FALSE]
  /\ baseSyncDone' = [baseSyncDone EXCEPT ![r] = @ \/ r # Leader[r]]
  /\ UNCHANGED <<phase, version, lo, next, buffer, req, workerVars, prefix>>

AwaitFuture_KeepPrefix(r) ==
  /\ SGoto(r, "future", "done")
  /\ \A w \in Replica(r) : wpc[w] = "idle"
  /\ baseSyncDone' = [baseSyncDone EXCEPT ![r] = TRUE]
  /\ UNCHANGED <<phase, version, lo, next, buffer, req, rep, workerVars, prefix>>

AwaitFuture_OwnWorkerOnly(r) ==
  /\ SGoto(r, "future", "done")
  /\ wpc[r] = "idle"
  /\ prefix' = [prefix EXCEPT ![r] = {}]
  /\ baseSyncDone' = [baseSyncDone EXCEPT ![r] = TRUE]
  /\ UNCHANGED <<phase, version, lo, next, buffer, req, rep, workerVars>>

\* All workers of the replica have returned; the prefix cache is reset.
AwaitFuture(r) ==
  /\ SGoto(r, "future", "done")
  /\ \A w \in Replica(r) : wpc[w] = "idle"
  /\ prefix' = [prefix EXCEPT ![r] = {}]
  /\ baseSyncDone' = [baseSyncDone EXCEPT ![r] = TRUE]
  /\ UNCHANGED <<phase, version, lo, next, buffer, req, rep, workerVars>>

FutureFails(r) ==
  /\ SGoto(r, "future", "crashed")
  /\ \E w \in Replica(r) : wpc[w] = "failed"
  /\ UNCHANGED <<trainerVars, lo, next, buffer, req, rep, workerVars, prefix>>

-----------------------------------------------------------------------------
(* The receiver: TSColocateWorkerExtension.update_weights_from_ipc *)

WGoto(r, from, to) == wpc[r] = from /\ wpc' = [wpc EXCEPT ![r] = to]

RecvHandle(r) ==
  /\ WGoto(r, "handle", "recv")
  /\ req[r] = Handle
  /\ req' = [req EXCEPT ![r] = NoReq]
  /\ rep' = [rep EXCEPT ![r] = TRUE]
  /\ UNCHANGED <<trainerVars, senderVars, wkind, wmsg, staged, weight, cache, prefix>>

RecvBucket_EarlyAck(r) ==
  /\ WGoto(r, "recv", "clone")
  /\ req[r][1] = "bucket"
  /\ wmsg' = [wmsg EXCEPT ![r] = req[r][2]]
  /\ req' = [req EXCEPT ![r] = NoReq]
  /\ rep' = [rep EXCEPT ![r] = TRUE]
  /\ UNCHANGED <<trainerVars, senderVars, wkind, staged, weight, cache, prefix>>

RecvBucket(r) ==
  /\ WGoto(r, "recv", "clone")
  /\ req[r][1] = "bucket"
  /\ wmsg' = [wmsg EXCEPT ![r] = req[r][2]]
  /\ req' = [req EXCEPT ![r] = NoReq]
  /\ UNCHANGED <<trainerVars, senderVars, rep, wkind, staged, weight, cache, prefix>>

\* The tensors are cloned out of the shared buffer, and only then acknowledged.
CloneAndAck(r) ==
  /\ WGoto(r, "clone", "apply")
  /\ staged' = [staged EXCEPT ![r] = {buffer[r][k] : k \in 1 .. wmsg[r].hi - wmsg[r].lo}]
  /\ rep' = [rep EXCEPT ![r] = TRUE]
  /\ UNCHANGED <<trainerVars, senderVars, req, wkind, wmsg, weight, cache, prefix>>

Has(t, st) == \E x \in st : x.tensor = t
VersionOf(t, st) == (CHOOSE x \in st : x.tensor = t).ver

\* model.load_weights on what the bucket holds.
Loaded(w, st) ==
  [p \in Param |-> IF Has(<<p, "full">>, st)
                   THEN BaseValue(p, VersionOf(<<p, "full">>, st)) ELSE w[p]]

Restored_Nothing(w, c) == w

\* Step 1 of _apply_lora_to_model: language-model weights come from the cache.
Restored(w, c) ==
  [p \in Param |-> IF p \in Encoder \/ c[p] = Uncached THEN w[p] ELSE c[p]]

Plus(x, d) == IF x = Garbage THEN Garbage ELSE x + d

\* A fused weight is merged if the bucket has the lora_A of all it fuses ...
Ready(m, st) == \A j \in Proj[m] : Has(<<j, "A">>, st)
\* ... and the product raises if one of their lora_B is missing (None @ A).
Raises(m, st) == Ready(m, st) /\ \E j \in Proj[m] : ~Has(<<j, "B">>, st)
Delta(m, st) == VersionOf(<<CHOOSE j \in Proj[m] : TRUE, "A">>, st)

\* Steps 2-4 on the modules in M.
Merged(w, st, M) ==
  [p \in Param |-> IF p \in M THEN Plus(w[p], Delta(p, st)) ELSE w[p]]

AfterBucket_NoBreak(r) == "recv"

AfterBucket(r) == IF wmsg[r].last THEN "idle" ELSE "recv"

LoadBucket_CacheEach(r) ==
  /\ wkind[r] = "full"
  /\ WGoto(r, "apply", AfterBucket(r))
  /\ weight' = [weight EXCEPT ![r] = Loaded(weight[r], staged[r])]
  /\ cache' = [cache EXCEPT ![r] = Loaded(weight[r], staged[r])]
  /\ staged' = [staged EXCEPT ![r] = {}]
  /\ wmsg' = [wmsg EXCEPT ![r] = NoBucket]
  /\ UNCHANGED <<trainerVars, senderVars, req, rep, wkind, prefix>>

\* A full bucket; after the last one the weights are cached as clean base.
LoadBucket(r) ==
  /\ wkind[r] = "full"
  /\ WGoto(r, "apply", AfterBucket(r))
  /\ weight' = [weight EXCEPT ![r] = Loaded(weight[r], staged[r])]
  /\ cache' = [cache EXCEPT ![r] =
                 IF wmsg[r].last THEN Loaded(weight[r], staged[r]) ELSE @]
  /\ staged' = [staged EXCEPT ![r] = {}]
  /\ wmsg' = [wmsg EXCEPT ![r] = NoBucket]
  /\ UNCHANGED <<trainerVars, senderVars, req, rep, wkind, prefix>>

\* A LoRA bucket: restore, load the encoder tensors it has, merge what it has.
MergeBucket(r) ==
  LET base  == Loaded(Restored(weight[r], cache[r]), staged[r])
      ready == {m \in Modules : Ready(m, staged[r])}
  IN /\ wkind[r] = "lora"
     /\ \A m \in Modules : ~Raises(m, staged[r])
     /\ WGoto(r, "apply", AfterBucket(r))
     /\ weight' = [weight EXCEPT ![r] = Merged(base, staged[r], ready)]
     /\ staged' = [staged EXCEPT ![r] = {}]
     /\ wmsg' = [wmsg EXCEPT ![r] = NoBucket]
     /\ UNCHANGED <<trainerVars, senderVars, req, rep, wkind, cache, prefix>>

\* Applying a bucket raises, after some of its tensors took effect.
ApplyFails(r) ==
  LET base  == Loaded(Restored(weight[r], cache[r]), staged[r])
      ready == {m \in Modules : Ready(m, staged[r]) /\ ~Raises(m, staged[r])}
  IN /\ WGoto(r, "apply", "failed")
     /\ WorkerMayFail \/ (wkind[r] = "lora" /\ \E m \in Modules : Raises(m, staged[r]))
     /\ \/ /\ wkind[r] = "full"
           /\ \E S \in SUBSET staged[r] :
                weight' = [weight EXCEPT ![r] = Loaded(weight[r], S)]
        \/ /\ wkind[r] = "lora"
           /\ \E M \in SUBSET ready :
                weight' = [weight EXCEPT ![r] = Merged(base, staged[r], M)]
     /\ staged' = [staged EXCEPT ![r] = {}]
     /\ wmsg' = [wmsg EXCEPT ![r] = NoBucket]
     /\ UNCHANGED <<trainerVars, senderVars, req, rep, wkind, cache, prefix>>

-----------------------------------------------------------------------------
Driver == BeginSync \/ EndSync \/ SyncFailed \/ UpdateActor \/ Finish
Sender(r) ==
  \/ StartRpc(r) \/ SendHandle(r) \/ RecvHandleAck(r) \/ Put(r) \/ Flush(r)
  \/ RecvBucketAck(r) \/ SendLast(r) \/ RecvLastAck(r) \/ AwaitFuture(r)
  \/ FutureFails(r)
Worker(r) ==
  \/ RecvHandle(r) \/ RecvBucket(r) \/ CloneAndAck(r) \/ LoadBucket(r)
  \/ MergeBucket(r) \/ ApplyFails(r)

\* The end of the training, so that a deadlock is a hang.
Terminated == phase \in {"done", "crashed"} /\ UNCHANGED vars

Next ==
  \/ Driver
  \/ \E l \in Servers : Generate(l)
  \/ \E r \in Ranks : Sender(r) \/ Worker(r)
  \/ Terminated

\* Driver, senders and workers are processes that never pause for good.
Fairness ==
  /\ WF_vars(Driver)
  /\ \A r \in Ranks : WF_vars(Sender(r)) /\ WF_vars(Worker(r))

Spec == Init /\ [][Next]_vars
FairSpec == Spec /\ Fairness

-----------------------------------------------------------------------------
(* Properties *)

SenderPlace == {"idle", "start", "handle", "handle_ack", "fill", "bucket_ack",
                "last_ack", "future", "done", "crashed"}
WorkerPlace == {"idle", "handle", "recv", "clone", "apply", "failed"}

\* Every variable stays in its domain.
TypeOK ==
  /\ phase \in {"collect", "sync", "generate", "done", "crashed"}
  /\ version \in Version
  /\ baseSyncDone \in [Ranks -> BOOLEAN]
  /\ spc \in [Ranks -> SenderPlace]
  /\ lo \in [Ranks -> Index]
  /\ next \in [Ranks -> Index]
  /\ buffer \in [Ranks -> [Slot -> Content \cup {NoContent}]]
  /\ req \in [Ranks -> {NoReq, Handle} \cup ({"bucket"} \X Bucket)]
  /\ rep \in [Ranks -> BOOLEAN]
  /\ wpc \in [Ranks -> WorkerPlace]
  /\ wkind \in [Ranks -> Kinds]
  /\ wmsg \in [Ranks -> Bucket]
  /\ staged \in [Ranks -> SUBSET (Content \cup {NoContent})]
  /\ weight \in [Ranks -> [Param -> Int \cup {Garbage}]]
  /\ cache \in [Ranks -> [Param -> Int \cup {Garbage, Uncached}]]
  /\ prefix \in [Servers -> SUBSET Version]

\* What a worker has cloned is exactly what the sender had put into that
\* bucket, from the current actor, although the sender reuses the buffer for
\* the next bucket as soon as it is acknowledged (worker_extension.py:108-119).
StagedIntact ==
  \A r \in Ranks : wpc[r] = "apply" =>
    staged[r] = {[tensor |-> Payload(wkind[r])[i], ver |-> version] :
                 i \in wmsg[r].lo .. wmsg[r].hi - 1}

\* Whenever requests are served, every worker holds the policy of the actor's
\* current version: base plus one merge of its adapter, and its encoder.
RolloutMatchesActor ==
  phase = "generate" =>
    \A r \in Ranks, p \in Param : weight[r][p] = PolicyValue(p, version)

\* The cache every merge starts from holds clean base weights only: never a
\* dummy value of a partly loaded model, never a merged one
\* (worker_extension.py:125-130).
CacheIsCleanBase ==
  \A r \in Ranks, p \in Modules \cup Frozen : cache[r][p] \in {Uncached, 0}

\* No request reuses KV blocks computed with the weights of an older actor.
NoStalePrefix ==
  phase = "generate" => \A l \in Servers : prefix[l] \subseteq {version}

\* The driver never goes on while a worker is still applying weights: its RPC
\* outlives the return of the ranks that do not await it.
NoWorkerLeftBehind ==
  phase = "generate" => \A r \in Ranks : wpc[r] = "idle" /\ req[r] = NoReq /\ ~rep[r]

\* Every weight update ends: no sender waits for ever for an acknowledgement
\* and no worker for a bucket.
SyncTerminates == phase = "sync" ~> phase # "sync"

\* A weight update that never ends has a worker that raised: the sender's
\* recv has no timeout and sees nothing of the failed RPC.
HangsOnlyAfterFailure ==
  phase = "sync" ~> phase # "sync" \/ \E r \in Ranks : wpc[r] = "failed"

\* What the three components promise together: the weights change hands in
\* one step, and requests are served by the version that was handed over.
ServedVersion ==
  IF phase # "generate" THEN Uncached
  ELSE IF \E v \in Version : \A r \in Ranks, p \in Param : weight[r][p] = PolicyValue(p, v)
  THEN CHOOSE v \in Version : \A r \in Ranks, p \in Param : weight[r][p] = PolicyValue(p, v)
  ELSE Garbage

Handoff == INSTANCE PolicyHandoff WITH
  actor  <- version,
  served <- ServedVersion,
  Nobody <- Uncached,
  mode   <- CASE phase \in {"collect", "sync"} -> "train"
              [] phase = "generate" -> "rollout"
              [] OTHER -> "stopped"

HandsOverAtomically == Handoff!FairSpec
=============================================================================
