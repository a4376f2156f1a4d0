----------------------------- MODULE ColdStart -----------------------------
(***************************************************************************)
(* Supervised training of the cold start under ZeRO-3 (train_tsllm.py):    *)
(* every rank runs the same script on its own batches and stops in every   *)
(* collective until all ranks are in it.  Running an expert of the         *)
(* TeleEncoder gathers its parameters, so what a batch routes to decides   *)
(* which collectives a rank takes part in.                                 *)
(*                                                                         *)
(* A run of collectives that nothing comes between is one operation, with  *)
(* the set of experts it is about: ranks that differ in it never leave it. *)
(***************************************************************************)
EXTENDS Integers, FiniteSets

CONSTANTS
  NumRanks,         \* ranks of the launch
  NumExperts,       \* experts of a block
  SparseInference,  \* sparse_inference
  WarmupEpochs,     \* dense_routing_warmup_epochs
  Samples,          \* rows of the training split
  MicroBatch,       \* train_micro_batch_size_per_gpu
  Gas,              \* gradient_accumulation_steps
  Epochs,           \* args.epochs
  MaxStepsPerEpoch, \* max_steps_per_epoch; 0 for None
  EvalInterval, SaveInterval,
  EvalBatches,      \* batches evaluate() runs
  MaxLaunches       \* bound of the model: launches of the script

Ranks == 0 .. NumRanks - 1
Experts == 1 .. NumExperts
Names == 0 .. Epochs - 1

ASSUME ColdStartAssumption ==
  /\ NumRanks \in Nat \ {0} /\ NumExperts \in Nat \ {0}
  /\ SparseInference \in BOOLEAN /\ WarmupEpochs \in Nat
  /\ SparseInference => WarmupEpochs > 0
  /\ Samples \in Nat \ {0} /\ MicroBatch \in Nat \ {0} /\ Gas \in Nat \ {0}
  /\ Epochs \in Nat \ {0} /\ MaxStepsPerEpoch \in Nat
  /\ EvalInterval \in Nat \ {0} /\ SaveInterval \in Nat \ {0}
  /\ EvalBatches \in Nat /\ MaxLaunches \in Nat \ {0}

VARIABLES
  rank,    \* what each rank is doing: see Fresh
  launch,  \* launches of the script so far
  start,   \* optimizer steps behind the checkpoint this launch resumes from
  store    \* the checkpoint of each epoch in output_model

vars == <<rank, launch, start, store>>

-----------------------------------------------------------------------------
(* Sizes *)

CeilDiv(a, b) == (a + b - 1) \div b

\* DistributedSampler pads to a multiple of the ranks: the same on each.
Batches_NoPadding(r) ==
  CeilDiv((Samples \div NumRanks) + (IF r < Samples % NumRanks THEN 1 ELSE 0), MicroBatch)
Batches(r) == CeilDiv(CeilDiv(Samples, NumRanks), MicroBatch)

\* Micro-batches of an epoch: the loop breaks at max_steps_per_epoch.
PerEpoch(r) ==
  IF MaxStepsPerEpoch # 0 /\ MaxStepsPerEpoch < Batches(r) THEN MaxStepsPerEpoch
  ELSE Batches(r)

\* What the learning-rate schedule is told.
TotalSteps == CeilDiv(Samples, MicroBatch * Gas * NumRanks) * Epochs

\* DeepSpeed: a step is due when the micro-batch in hand fills the window.
Boundary(n) == (n + 1) % Gas = 0

Evaluates(e) == e % EvalInterval = 0
Saves(e) == e % SaveInterval = 0 \/ e = Epochs - 1

-----------------------------------------------------------------------------
(* Ranks *)

None == [kind |-> "none", experts |-> {}]
Op(kind, X) == [kind |-> kind, experts |-> X]

\* at: the place in the script; op: the collective the rank waits in; batch:
\* micro-batches of this epoch, or of this evaluation, so far; micros:
\* engine.micro_steps; steps and master: optimizer steps behind the rank's
\* slice of the weights the forward uses (bf16) and behind the optimizer's own
\* copy of that slice (fp32); ran: experts of the forward.
Fresh(at) ==
  [at |-> at, op |-> None, epoch |-> 0, batch |-> 0, micros |-> 0,
   steps |-> 0, master |-> 0, training |-> TRUE, forced |-> FALSE, ran |-> {}]

Torn == [whole |-> FALSE, steps |-> 0]

Init ==
  /\ rank = [r \in Ranks |-> Fresh("forward")]
  /\ launch = 1 /\ start = 0
  /\ store = << >>

\* Rank r, at that place of the script and in no collective.
At(r, place) == rank[r].at = place /\ rank[r].op = None

\* Nothing calls set_current_epoch, so the encoder stays in its first epoch.
EncoderEpoch_Trainer(r) == rank[r].epoch
EncoderEpoch(r) == 0

ForceDense(r) ==
  rank[r].forced \/ (rank[r].training /\ EncoderEpoch(r) < WarmupEpochs)

\* Experts rank r may run: those its tokens chose when sparse, else all.
Runs(r) ==
  IF SparseInference /\ ~ForceDense(r) THEN SUBSET Experts \ {{}} ELSE {Experts}

Forward(r) ==
  /\ At(r, "forward")
  /\ \E X \in Runs(r) :
       rank' = [rank EXCEPT ![r].at = "backward", ![r].op = Op("forward", X), ![r].ran = X]
  /\ UNCHANGED <<launch, start, store>>

\* Gathers the parameters again and reduces the gradients of what ran.
Backward(r) ==
  /\ At(r, "backward")
  /\ rank' = [rank EXCEPT ![r].at = "norms", ![r].op = Op("backward", rank[r].ran)]
  /\ UNCHANGED <<launch, start, store>>

\* Logged before the step that ends a window.
Norms(r) ==
  /\ At(r, "norms")
  /\ \/ Boundary(rank[r].micros) /\ rank' = [rank EXCEPT ![r].at = "step", ![r].op = Op("norms", {})]
     \/ ~Boundary(rank[r].micros) /\ rank' = [rank EXCEPT ![r].at = "step"]
  /\ UNCHANGED <<launch, start, store>>

\* The optimizer moves its own copy, at the end of a window only, and writes it
\* over the weights.
Step(r) ==
  /\ At(r, "step")
  /\ \/ /\ Boundary(rank[r].micros)
        /\ rank' = [rank EXCEPT ![r].at = "log", ![r].op = Op("step", {}), ![r].master = @ + 1,
                                ![r].steps = rank[r].master + 1, ![r].micros = @ + 1]
     \/ /\ ~Boundary(rank[r].micros)
        /\ rank' = [rank EXCEPT ![r].at = "log", ![r].micros = @ + 1]
  /\ UNCHANGED <<launch, start, store>>

Log(r) ==
  /\ At(r, "log")
  /\ \/ Boundary(rank[r].micros)
        /\ rank' = [rank EXCEPT ![r].at = "next", ![r].op = Op("loss", {})]
     \/ ~Boundary(rank[r].micros) /\ rank' = [rank EXCEPT ![r].at = "next"]
  /\ UNCHANGED <<launch, start, store>>

\* A window that an epoch leaves open goes on in the next one.
NextBatch(r) ==
  /\ At(r, "next")
  /\ \/ /\ rank[r].batch + 1 < PerEpoch(r)
        /\ rank' = [rank EXCEPT ![r].at = "forward", ![r].batch = @ + 1]
     \/ /\ rank[r].batch + 1 >= PerEpoch(r)
        /\ rank' = [rank EXCEPT ![r].at = "boundary", ![r].batch = 0]
  /\ UNCHANGED <<launch, start, store>>

-----------------------------------------------------------------------------
(* The end of an epoch: evaluation and checkpoint *)

StartEval_Sparse(r) ==
  /\ At(r, "boundary")
  /\ \/ /\ Evaluates(rank[r].epoch)
        /\ rank' = [rank EXCEPT ![r].at = "eval", ![r].training = FALSE]
     \/ ~Evaluates(rank[r].epoch) /\ rank' = [rank EXCEPT ![r].at = "save"]
  /\ UNCHANGED <<launch, start, store>>
StartEval(r) ==
  /\ At(r, "boundary")
  /\ \/ /\ Evaluates(rank[r].epoch)
        /\ rank' = [rank EXCEPT ![r].at = "eval", ![r].training = FALSE, ![r].forced = TRUE]
     \/ ~Evaluates(rank[r].epoch) /\ rank' = [rank EXCEPT ![r].at = "save"]
  /\ UNCHANGED <<launch, start, store>>

EvalForward(r) ==
  /\ At(r, "eval") /\ rank[r].batch < EvalBatches
  /\ \E X \in Runs(r) :
       rank' = [rank EXCEPT ![r].op = Op("forward", X), ![r].batch = @ + 1]
  /\ UNCHANGED <<launch, start, store>>

\* The mode and the flag are put back before the losses are reduced.
EndEval(r) ==
  /\ At(r, "eval") /\ rank[r].batch >= EvalBatches
  /\ rank' = [rank EXCEPT ![r].at = "save", ![r].op = Op("eval loss", {}), ![r].batch = 0,
                          ![r].training = TRUE, ![r].forced = FALSE]
  /\ UNCHANGED <<launch, start, store>>

\* Every rank takes part in gathering the trainable parameters.
Save(r) ==
  /\ At(r, "save")
  /\ \/ /\ Saves(rank[r].epoch)
        /\ rank' = [rank EXCEPT ![r].at = "write", ![r].op = Op("params", {})]
     \/ ~Saves(rank[r].epoch) /\ rank' = [rank EXCEPT ![r].at = "epoch"]
  /\ UNCHANGED <<launch, start, store>>

\* epoch-<epoch>-<micro_idx>; the last index is that of every epoch.
Name(r) == rank[r].epoch

Stored(name, c) == [e \in DOMAIN store \cup {name} |-> IF e = name THEN c ELSE store[e]]

\* torch.save writes in place, on rank 0; the others do not wait for it.  What
\* is gathered and saved is the optimizer's copy.
Write(r) ==
  /\ At(r, "write")
  /\ \/ /\ r = 0
        /\ store' = Stored(Name(r), Torn)
        /\ rank' = [rank EXCEPT ![r].at = "writing"]
     \/ /\ r # 0
        /\ rank' = [rank EXCEPT ![r].at = "epoch"]
        /\ UNCHANGED store
  /\ UNCHANGED <<launch, start>>

Written(r) ==
  /\ At(r, "writing")
  /\ store' = Stored(Name(r), [whole |-> TRUE, steps |-> rank[r].master])
  /\ rank' = [rank EXCEPT ![r].at = "epoch"]
  /\ UNCHANGED <<launch, start>>

NextEpoch_NewWindow(r) ==
  /\ At(r, "epoch")
  /\ \/ /\ rank[r].epoch + 1 < Epochs
        /\ rank' = [rank EXCEPT ![r].at = "forward", ![r].epoch = @ + 1, ![r].micros = 0]
     \/ rank[r].epoch + 1 >= Epochs /\ rank' = [rank EXCEPT ![r].at = "done"]
  /\ UNCHANGED <<launch, start, store>>
NextEpoch_OneMore(r) ==
  /\ At(r, "epoch")
  /\ \/ /\ rank[r].epoch + 1 <= Epochs
        /\ rank' = [rank EXCEPT ![r].at = "forward", ![r].epoch = @ + 1]
     \/ rank[r].epoch + 1 > Epochs /\ rank' = [rank EXCEPT ![r].at = "done"]
  /\ UNCHANGED <<launch, start, store>>
NextEpoch(r) ==
  /\ At(r, "epoch")
  /\ \/ /\ rank[r].epoch + 1 < Epochs
        /\ rank' = [rank EXCEPT ![r].at = "forward", ![r].epoch = @ + 1]
     \/ rank[r].epoch + 1 >= Epochs /\ rank' = [rank EXCEPT ![r].at = "done"]
  /\ UNCHANGED <<launch, start, store>>

-----------------------------------------------------------------------------
(* Launches *)

Ended(r) == rank[r].at \in {"done", "dead"}

\* The ranks of a resumed launch gather each parameter for rank 0 to fill.
Load(r) ==
  /\ At(r, "load")
  /\ rank' = [rank EXCEPT ![r].at = "loaded", ![r].op = Op("load", {})]
  /\ UNCHANGED <<launch, start, store>>

\* Leaving the gathering hands every rank its slice of what rank 0 put there:
\* of the weights.  deepspeed.initialize made the optimizer's copy before.
Loaded_OnRankZero(r) ==
  /\ At(r, "loaded")
  /\ rank' = [rank EXCEPT ![r].at = "forward", ![r].steps = IF r = 0 THEN start ELSE @]
  /\ UNCHANGED <<launch, start, store>>
Loaded(r) ==
  /\ At(r, "loaded")
  /\ rank' = [rank EXCEPT ![r].at = "forward", ![r].steps = start]
  /\ UNCHANGED <<launch, start, store>>

\* The collective: every rank is in it, about the same experts.
Meet ==
  /\ \A r \in Ranks : rank[r].op # None /\ rank[r].op = rank[0].op
  /\ rank' = [r \in Ranks |-> [rank[r] EXCEPT !.op = None]]
  /\ UNCHANGED <<launch, start, store>>

\* A bad row, memory, the network, the disk: one rank leaves the script.
Raises(r) ==
  /\ ~Ended(r)
  /\ rank' = [rank EXCEPT ![r] = Fresh("dead")]
  /\ UNCHANGED <<launch, start, store>>

\* The launcher ends the ranks a dead one leaves behind.
LauncherKills ==
  /\ \E r \in Ranks : rank[r].at = "dead"
  /\ \E r \in Ranks : ~Ended(r)
  /\ rank' = [r \in Ranks |-> IF Ended(r) THEN rank[r] ELSE Fresh("dead")]
  /\ UNCHANGED <<launch, start, store>>

\* The user starts again, from scratch or from a checkpoint the YAML names; the
\* file is there whether or not it is whole, and a torn one does not load.
Relaunch ==
  /\ \A r \in Ranks : Ended(r)
  /\ \E r \in Ranks : rank[r].at = "dead"
  /\ launch < MaxLaunches /\ launch' = launch + 1
  /\ \/ start' = 0 /\ rank' = [r \in Ranks |-> Fresh("forward")]
     \/ \E e \in DOMAIN store :
          /\ start' = store[e].steps
          /\ rank' = [r \in Ranks |-> Fresh(IF store[e].whole THEN "load" ELSE "dead")]
  /\ UNCHANGED store

RankStep(r) ==
  \/ Load(r) \/ Loaded(r) \/ Forward(r) \/ Backward(r) \/ Norms(r) \/ Step(r) \/ Log(r)
  \/ NextBatch(r) \/ StartEval(r) \/ EvalForward(r) \/ EndEval(r)
  \/ Save(r) \/ Write(r) \/ Written(r) \/ NextEpoch(r)

Next ==
  \/ \E r \in Ranks : RankStep(r) \/ Raises(r)
  \/ Meet \/ LauncherKills \/ Relaunch

\* Processes are scheduled, a complete collective ends, the launcher watches
\* its ranks.  Nothing makes a rank raise or the user launch again.
Spec ==
  /\ Init /\ [][Next]_vars
  /\ \A r \in Ranks : WF_vars(RankStep(r))
  /\ WF_vars(Meet) /\ WF_vars(LauncherKills)

-----------------------------------------------------------------------------
(* Properties *)

Places == {"load", "loaded", "forward", "backward", "norms", "step", "log", "next",
           "boundary", "eval", "save", "write", "writing", "epoch", "done", "dead"}
Kinds == {"none", "load", "forward", "backward", "norms", "step", "loss", "eval loss",
          "params"}

RankStates ==
  [at : Places, op : [kind : Kinds, experts : SUBSET Experts], epoch : Names,
   batch : Nat, micros : Nat, steps : Nat, master : Nat,
   training : BOOLEAN, forced : BOOLEAN, ran : SUBSET Experts]

\* Type correctness.
TypeOK ==
  /\ rank \in [Ranks -> RankStates]
  /\ launch \in 1 .. MaxLaunches /\ start \in Nat
  /\ DOMAIN store \subseteq Names
  /\ \A e \in DOMAIN store : store[e] \in [whole : BOOLEAN, steps : Nat]

Alive(r) == rank[r].at # "dead"
Waits(r) == rank[r].op # None

\* Whatever their batches route to, ranks that wait in a collective wait in the
\* same one, and none has left the script without it: no all-gather hangs.
NoMismatch ==
  \A r, s \in Ranks :
    Waits(r) /\ Alive(s) => rank[s].at # "done" /\ (Waits(s) => rank[r].op = rank[s].op)

\* A collective of the weights is about one version of them: no forward puts
\* together slices from before and after an optimizer step or a load, and no
\* checkpoint slices of the optimizer's copy from before and after a step.
OneVersion ==
  \A r, s \in Ranks :
    Waits(r) /\ Waits(s) =>
      rank[r].steps = rank[s].steps /\ rank[r].master = rank[s].master

\* Whichever launch wrote it, resumed or not, the checkpoint of epoch e holds
\* the whole windows of the epochs up to e, though windows do not end with
\* epochs, and nothing else: a load reaches the weights only, so the steps of the
\* checkpoint a launch resumed from are in none of its own.
NameTellsSteps ==
  \A e \in DOMAIN store :
    store[e].whole => store[e].steps = ((e + 1) * PerEpoch(0)) \div Gas

\* The learning-rate schedule, counted in rounded-up epochs, is never outrun.
ScheduleCovers ==
  \A r \in Ranks : rank[r].micros \div Gas <= TotalSteps

\* The ranks of a launch all end: no one is left waiting for another.
AllEnd == <>[](\A r \in Ranks : Ended(r))

\* After dense_routing_warmup_epochs epochs the batches of training are routed.
WarmupEnds ==
  \A r \in Ranks :
    At(r, "forward") /\ rank[r].training /\ rank[r].epoch >= WarmupEpochs => ~ForceDense(r)
=============================================================================
