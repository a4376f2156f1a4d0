-------------------------- MODULE CheckpointStore --------------------------
(***************************************************************************)
(* Saving and resuming of the GRPO training, over a directory that         *)
(* survives the process:                                                   *)
(*   ray_trainer.py              fit, _save_checkpoint, _load_checkpoint   *)
(*   checkpoint_manager.py       retention and find_latest_ckpt_path       *)
(*   fsdp_checkpoint_manager.py  the ranks' shards, between barriers       *)
(* A launch may be killed between any two writes and launched again.       *)
(*                                                                         *)
(* The three files of a rank (model, optimizer, extra) are one shard, Torn *)
(* until the last of them is written; one written over an older shard is   *)
(* Mixed in the meantime and may load.  A directory "global_step_N" is     *)
(* never removed, only the "actor" directory in it.  The dataloader is the *)
(* position in its pass: torchdata's StatefulDataLoader goes on from it.   *)
(***************************************************************************)
EXTENDS Integers, Sequences, FiniteSets

CONSTANTS
  Ranks,        \* FSDP ranks
  Chief,        \* the rank 0
  SaveFreq,     \* trainer.save_freq
  EpochLength,  \* len(train_dataloader)
  Epochs,       \* trainer.total_epochs
  TotalSteps,   \* total_training_steps, given or derived
  MaxKeep,      \* trainer.max_actor_ckpt_to_keep, 0 for null
  ResumeModes,  \* values of trainer.resume_mode the launches use
  EsiSteps,     \* steps at which should_save_ckpt_esi may return true
  MaxLaunches,  \* bound on the launches
  None,         \* no such file
  Torn,         \* a file or a shard that was not written to its end
  Mixed,        \* a shard of files of two saves
  Empty         \* the tracker file, truncated and not written yet

Steps == 1 .. EpochLength * Epochs
Runs == 0 .. MaxLaunches

\* A model: the launch that trained it last and the updates it went through.
Content == [run : Runs, updates : 0 .. EpochLength * Epochs]
Base == [run |-> 0, updates |-> 0]
DataState == [run : Runs, yielded : 0 .. EpochLength]

ASSUME CheckpointAssumption ==
  /\ Chief \in Ranks
  /\ EpochLength \in Nat \ {0} /\ Epochs \in Nat /\ TotalSteps \in Nat \ {0}
  /\ SaveFreq \in Nat /\ MaxKeep \in Nat /\ MaxLaunches \in Nat
  /\ EsiSteps \subseteq Steps
  /\ ResumeModes \subseteq {"auto", "disable"}
  /\ {None, Torn, Mixed} \cap Content = {} /\ {None, Torn} \cap DataState = {}
  /\ {None, Empty} \cap Int = {}
  /\ None # Torn /\ None # Mixed /\ Torn # Mixed /\ None # Empty

VARIABLES
  launch,    \* number of the current launch
  mode,      \* its resume_mode
  pc,        \* where the driver is
  step,      \* global_steps
  epoch,     \* the epoch of the loop in fit
  yielded,   \* batches the dataloader's pass has yielded
  resumed,   \* history: the step this launch resumed from, 0 for none
  model,     \* what each rank holds
  place,     \* where each rank is in save_checkpoint
  previous,  \* rank 0's previous_saved_paths, in memory
  victims,   \* checkpoints rank 0 is removing
  shard,     \* shard[s][r]: what rank r's files of step s hold
  data,      \* data[s]: what data.pt of step s holds
  tracker    \* what latest_checkpointed_iteration.txt holds

loopVars == <<step, epoch, yielded, resumed>>
saveVars == <<place, previous, victims>>
disk == <<shard, data, tracker>>
vars == <<launch, mode, pc, loopVars, model, saveVars, disk>>

Stopped == {"down", "finished", "failed"}
DriverPlace == Stopped \cup
  {"load", "begin", "batch", "train", "save", "data", "dataing", "track", "tracking", "next"}
RankPlace == {"idle", "enter", "trim", "made", "write", "writing", "written",
              "register", "rotate", "saved"}

Together(p) == \A r \in Ranks : place[r] = p

-----------------------------------------------------------------------------
Init ==
  /\ launch = 0 /\ mode \in ResumeModes /\ pc = "down"
  /\ step = 0 /\ epoch = 0 /\ yielded = 0 /\ resumed = 0
  /\ model = [r \in Ranks |-> Base]
  /\ place = [r \in Ranks |-> "idle"]
  /\ previous = <<>> /\ victims = <<>>
  /\ shard = [s \in Steps |-> [r \in Ranks |-> None]]
  /\ data = [s \in Steps |-> None]
  /\ tracker = None

\* A process holds the base model, no step and no paths it saved.
NewProcess ==
  /\ step' = 0 /\ epoch' = 0 /\ yielded' = 0 /\ resumed' = 0
  /\ model' = [r \in Ranks |-> Base]
  /\ place' = [r \in Ranks |-> "idle"]
  /\ previous' = <<>> /\ victims' = <<>>

Launch ==
  /\ pc \in Stopped /\ launch < MaxLaunches
  /\ launch' = launch + 1
  /\ mode' \in ResumeModes
  /\ pc' = "load"
  /\ NewProcess
  /\ UNCHANGED disk

Crash ==
  /\ pc \notin Stopped
  /\ pc' = "down"
  /\ NewProcess
  /\ UNCHANGED <<launch, mode, disk>>

-----------------------------------------------------------------------------
(* _load_checkpoint *)

StartFresh ==
  /\ pc = "load"
  /\ mode = "disable" \/ tracker = None
  /\ pc' = "begin"
  /\ UNCHANGED <<launch, mode, loopVars, model, saveVars, disk>>

\* Every rank finds its files; what it loads of shards of two saves is a model.
Loads(s) == \A r \in Ranks : shard[s][r] \notin {None, Torn}

Resume_NoData ==
  /\ pc = "load" /\ mode = "auto" /\ tracker \in Steps
  /\ Loads(tracker)
  /\ step' = tracker /\ resumed' = tracker
  /\ model' = shard[tracker]
  /\ yielded' = 0
  /\ pc' = "begin"
  /\ UNCHANGED <<launch, mode, epoch, saveVars, disk>>

Resume_NoModel ==
  /\ pc = "load" /\ mode = "auto" /\ tracker \in Steps
  /\ data[tracker] # Torn
  /\ step' = tracker /\ resumed' = tracker
  /\ yielded' = IF data[tracker] = None THEN 0 ELSE data[tracker].yielded
  /\ pc' = "begin"
  /\ UNCHANGED <<launch, mode, epoch, model, saveVars, disk>>

\* No file changes while the ranks load, so they load in one step.
Resume ==
  /\ pc = "load" /\ mode = "auto" /\ tracker \in Steps
  /\ Loads(tracker)
  /\ data[tracker] # Torn
  /\ step' = tracker /\ resumed' = tracker
  /\ model' = shard[tracker]
  /\ yielded' = IF data[tracker] = None THEN 0 ELSE data[tracker].yielded
  /\ pc' = "begin"
  /\ UNCHANGED <<launch, mode, epoch, saveVars, disk>>

LoadFails ==
  /\ pc = "load" /\ mode = "auto" /\ tracker # None
  /\ tracker \in Steps => \/ \E r \in Ranks : shard[tracker][r] \in {None, Torn, Mixed}
                          \/ data[tracker] = Torn
  /\ pc' = "failed"
  /\ UNCHANGED <<launch, mode, loopVars, model, saveVars, disk>>

-----------------------------------------------------------------------------
(* The loop of fit *)

EnterLoop ==
  /\ pc = "begin"
  /\ epoch' = step \div EpochLength
  /\ step' = step + 1
  /\ pc' = "batch"
  /\ UNCHANGED <<launch, mode, yielded, resumed, model, saveVars, disk>>

TakeBatch_OneMore ==
  /\ pc = "batch" /\ epoch < Epochs /\ yielded <= EpochLength
  /\ yielded' = yielded + 1
  /\ pc' = "train"
  /\ UNCHANGED <<launch, mode, step, epoch, resumed, model, saveVars, disk>>

TakeBatch ==
  /\ pc = "batch" /\ epoch < Epochs /\ yielded < EpochLength
  /\ yielded' = yielded + 1
  /\ pc' = "train"
  /\ UNCHANGED <<launch, mode, step, epoch, resumed, model, saveVars, disk>>

NextEpoch_OldPass ==
  /\ pc = "batch" /\ epoch < Epochs /\ yielded = EpochLength
  /\ epoch' = epoch + 1
  /\ UNCHANGED <<launch, mode, pc, step, yielded, resumed, model, saveVars, disk>>

NextEpoch ==
  /\ pc = "batch" /\ epoch < Epochs /\ yielded = EpochLength
  /\ epoch' = epoch + 1
  /\ yielded' = 0
  /\ UNCHANGED <<launch, mode, pc, step, resumed, model, saveVars, disk>>

EpochsOver ==
  /\ pc = "batch" /\ epoch >= Epochs
  /\ pc' = "finished"
  /\ UNCHANGED <<launch, mode, loopVars, model, saveVars, disk>>

\* An update of shards that do not belong together is no model of any step.
Updated ==
  IF \E c \in Content : \A r \in Ranks : model[r] = c
    THEN [r \in Ranks |-> [run |-> launch, updates |-> model[r].updates + 1]]
    ELSE [r \in Ranks |-> Mixed]

IsLastStep == step >= TotalSteps

SaveNow_AtEnd(esi) == SaveFreq > 0 /\ (IsLastStep \/ esi)

SaveNow(esi) == SaveFreq > 0 /\ (IsLastStep \/ step % SaveFreq = 0 \/ esi)

\* Reward, log-probabilities and advantages of the batch are data, then one
\* update and perhaps a save.
UpdateActor ==
  /\ pc = "train"
  /\ model' = Updated
  /\ \E esi \in BOOLEAN :
       /\ esi => step \in EsiSteps
       /\ \/ /\ SaveNow(esi)
             /\ pc' = "save"
             /\ place' = [r \in Ranks |-> "enter"]
          \/ /\ ~SaveNow(esi)
             /\ pc' = "next"
             /\ UNCHANGED place
  /\ UNCHANGED <<launch, mode, loopVars, previous, victims, disk>>

EndStep ==
  /\ pc = "next"
  /\ step' = step + 1
  /\ pc' = IF IsLastStep THEN "finished" ELSE "batch"
  /\ UNCHANGED <<launch, mode, epoch, yielded, resumed, model, saveVars, disk>>

-----------------------------------------------------------------------------
(* save_checkpoint of the ranks *)

Goto(r, p) == place' = [place EXCEPT ![r] = p]

\* Paths to forget: the first n of previous_saved_paths.
Drop(paths, n) ==
  /\ victims' = SubSeq(paths, 1, n)
  /\ previous' = SubSeq(paths, n + 1, Len(paths))

EnsureCapacity ==
  /\ place[Chief] = "enter"
  /\ IF MaxKeep > 1 /\ Len(previous) >= MaxKeep
       THEN /\ Drop(previous, Len(previous) - MaxKeep + 1)
            /\ Goto(Chief, "trim")
       ELSE /\ Goto(Chief, "made")
            /\ UNCHANGED <<previous, victims>>
  /\ UNCHANGED <<launch, mode, pc, loopVars, model, disk>>

MakeDir_NoBarrier(r) ==
  /\ r # Chief /\ place[r] = "enter"
  /\ Goto(r, "write")
  /\ UNCHANGED <<launch, mode, pc, loopVars, model, previous, victims, disk>>

MakeDir(r) ==
  /\ r # Chief /\ place[r] = "enter"
  /\ Goto(r, "made")
  /\ UNCHANGED <<launch, mode, pc, loopVars, model, previous, victims, disk>>

\* The directory exists and old checkpoints are gone: everyone may write.
BarrierMade ==
  /\ pc = "save" /\ Together("made")
  /\ place' = [r \in Ranks |-> "write"]
  /\ UNCHANGED <<launch, mode, pc, loopVars, model, previous, victims, disk>>

OpenShard(r) ==
  /\ place[r] = "write"
  /\ Goto(r, "writing")
  /\ shard' = [shard EXCEPT ![step][r] = IF @ \in {None, Torn} THEN Torn ELSE Mixed]
  /\ UNCHANGED <<launch, mode, pc, loopVars, model, previous, victims, data, tracker>>

CloseShard(r) ==
  /\ place[r] = "writing"
  /\ Goto(r, "written")
  /\ shard' = [shard EXCEPT ![step][r] = model[r]]
  /\ UNCHANGED <<launch, mode, pc, loopVars, model, previous, victims, data, tracker>>

BarrierWritten_ChiefOnly ==
  /\ pc = "save" /\ place[Chief] = "written"
  /\ \A r \in Ranks : place[r] \in {"writing", "written"}
  /\ place' = [r \in Ranks |-> IF r = Chief THEN "register" ELSE "saved"]
  /\ UNCHANGED <<launch, mode, pc, loopVars, model, previous, victims, disk>>

BarrierWritten ==
  /\ pc = "save" /\ Together("written")
  /\ place' = [r \in Ranks |-> IF r = Chief THEN "register" ELSE "saved"]
  /\ UNCHANGED <<launch, mode, pc, loopVars, model, previous, victims, disk>>

Register ==
  /\ place[Chief] = "register"
  /\ LET paths == Append(previous, step) IN
       IF MaxKeep > 0 /\ Len(paths) > MaxKeep
         THEN /\ Drop(paths, Len(paths) - MaxKeep)
              /\ Goto(Chief, "rotate")
         ELSE /\ previous' = paths
              /\ Goto(Chief, "saved")
              /\ UNCHANGED victims
  /\ UNCHANGED <<launch, mode, pc, loopVars, model, disk>>

\* remove_previous_save_local_path: rmtree takes the files one by one.
RemoveShard(r) ==
  /\ place[Chief] \in {"trim", "rotate"} /\ victims # <<>>
  /\ shard[Head(victims)][r] # None
  /\ shard' = [shard EXCEPT ![Head(victims)][r] = None]
  /\ UNCHANGED <<launch, mode, pc, loopVars, model, saveVars, data, tracker>>

RemovedCheckpoint ==
  /\ place[Chief] \in {"trim", "rotate"} /\ victims # <<>>
  /\ \A r \in Ranks : shard[Head(victims)][r] = None
  /\ victims' = Tail(victims)
  /\ IF Len(victims) = 1
       THEN Goto(Chief, IF place[Chief] = "trim" THEN "made" ELSE "saved")
       ELSE UNCHANGED place
  /\ UNCHANGED <<launch, mode, pc, loopVars, model, previous, disk>>

BarrierSaved_NoData ==
  /\ pc = "save" /\ Together("saved")
  /\ place' = [r \in Ranks |-> "idle"]
  /\ pc' = "track"
  /\ UNCHANGED <<launch, mode, loopVars, model, previous, victims, disk>>

BarrierSaved ==
  /\ pc = "save" /\ Together("saved")
  /\ place' = [r \in Ranks |-> "idle"]
  /\ pc' = "data"
  /\ UNCHANGED <<launch, mode, loopVars, model, previous, victims, disk>>

-----------------------------------------------------------------------------
(* The driver's part of _save_checkpoint *)

OpenData ==
  /\ pc = "data"
  /\ data' = [data EXCEPT ![step] = Torn]
  /\ pc' = "dataing"
  /\ UNCHANGED <<launch, mode, loopVars, model, saveVars, shard, tracker>>

CloseData ==
  /\ pc = "dataing"
  /\ data' = [data EXCEPT ![step] = [run |-> launch, yielded |-> yielded]]
  /\ pc' = "track"
  /\ UNCHANGED <<launch, mode, loopVars, model, saveVars, shard, tracker>>

\* open(..., "w") truncates the file before the number is written.
OpenTracker ==
  /\ pc = "track"
  /\ tracker' = Empty
  /\ pc' = "tracking"
  /\ UNCHANGED <<launch, mode, loopVars, model, saveVars, shard, data>>

WriteTracker ==
  /\ pc = "tracking"
  /\ tracker' = step
  /\ pc' = "next"
  /\ UNCHANGED <<launch, mode, loopVars, model, saveVars, shard, data>>

-----------------------------------------------------------------------------
Load == StartFresh \/ Resume \/ LoadFails
Loop == EnterLoop \/ TakeBatch \/ NextEpoch \/ EpochsOver \/ UpdateActor \/ EndStep
Save ==
  \/ EnsureCapacity \/ BarrierMade \/ BarrierWritten \/ Register
  \/ RemovedCheckpoint \/ BarrierSaved
  \/ \E r \in Ranks : MakeDir(r) \/ OpenShard(r) \/ CloseShard(r) \/ RemoveShard(r)
  \/ OpenData \/ CloseData \/ OpenTracker \/ WriteTracker
Run == Load \/ Loop \/ Save

Next == Launch \/ Crash \/ Run

Spec == Init /\ [][Next]_vars

\* A process that is not killed goes on; nobody has to launch it again.
FairSpec == Spec /\ WF_vars(Run)

-----------------------------------------------------------------------------
(* Properties *)

TypeOK ==
  /\ launch \in Runs /\ mode \in ResumeModes /\ pc \in DriverPlace
  /\ step \in 0 .. EpochLength * Epochs + 1
  /\ epoch \in 0 .. Epochs /\ yielded \in 0 .. EpochLength
  /\ resumed \in 0 .. EpochLength * Epochs
  /\ model \in [Ranks -> Content \cup {Mixed}]
  /\ place \in [Ranks -> RankPlace]
  /\ previous \in Seq(Steps) /\ victims \in Seq(Steps)
  /\ shard \in [Steps -> [Ranks -> Content \cup {None, Torn, Mixed}]]
  /\ data \in [Steps -> DataState \cup {None, Torn}]
  /\ tracker \in Steps \cup {None, Empty}

\* A checkpoint of step s that one save wrote to its end, on every rank.
Complete(s) ==
  \E run \in Runs :
    /\ \A r \in Ranks : shard[s][r] = [run |-> run, updates |-> s]
    /\ \E y \in 0 .. EpochLength : data[s] = [run |-> run, yielded |-> y]

\* The tracker only ever names a checkpoint that is whole: every rank's shard
\* and the dataloader state come from the same save, no matter which earlier
\* save of that step was cut off and which older ones retention removed.
TrackedIsComplete == tracker \in Steps => Complete(tracker)

\* The steps after which a pass is over and another one follows.  A dataloader
\* saved there is at the end of its pass, while the epoch computed from the step
\* is the next one already, which then yields nothing.
PassEnds == {k * EpochLength : k \in 1 .. Epochs - 1}

\* The batches a launch leaves out: one pass if it resumed at the end of one.
Skipped == IF resumed \in PassEnds THEN EpochLength ELSE 0

\* The ranks of a running job hold shards of one model, which went through as
\* many updates as the loop says, on the batches the dataloader has yielded:
\* a crash and a resume neither mix models nor repeat a batch, and skip none but
\* the one pass of a launch that resumed at the end of the pass before it.
ResumesInPlace ==
  /\ pc \in {"begin", "batch", "train", "save", "next"} =>
       \E c \in Content : \A r \in Ranks : model[r] = c
  /\ pc = "train" => \A r \in Ranks :
       /\ model[r].updates = step - 1
       /\ epoch * EpochLength + yielded = step + Skipped

\* A launch can only fail to load if the job died inside the write of the
\* tracker.
FailsOnlyOnTornTracker == pc = "failed" => tracker = Empty

\* A crash costs at most save_freq updates: what a resume would find is never
\* further behind the model in memory, unless the tracker is being written.
LossIsBounded ==
  pc \notin Stopped \cup {"load"} /\ tracker # Empty =>
    \A r \in Ranks :
      model[r].updates - (IF tracker = None THEN 0 ELSE tracker) <= SaveFreq

\* A training that ran to its end has made the updates it was asked for, or one
\* on every batch of its epochs but those the last launch left out.
FinishedIsTrained ==
  pc = "finished" => \A r \in Ranks :
    \/ model[r].updates >= TotalSteps
    \/ model[r].updates = EpochLength * Epochs - Skipped

\* No barrier, removal or loop holds a launch up for ever.
LaunchEnds == pc = "load" ~> pc \in Stopped

\* Launches that resume automatically implement the durable checkpoint.
Whole(f) ==
  IF \E c \in Content : \A r \in Ranks : f[r] = c THEN f[Chief] ELSE Mixed

Durable == INSTANCE DurableCheckpoint WITH
  Contents <- Content,
  Nothing <- None,
  Unreadable <- Empty,
  memory <- IF pc \in {"down", "load", "failed"} THEN None ELSE Whole(model),
  saved <- IF tracker \in Steps THEN Whole(shard[tracker]) ELSE tracker

\* Saving and resuming look like one durable copy of the model, replaced as a
\* whole and restored as a whole.
IsDurable == Durable!Spec
=============================================================================
