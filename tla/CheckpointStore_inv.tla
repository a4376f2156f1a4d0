------------------------ MODULE CheckpointStore_inv ------------------------
(***************************************************************************)
(* The inductive invariant behind TrackedIsComplete and IsDurable, for     *)
(* launches that resume automatically and a max_ckpt_to_keep other than 1, *)
(* and what ResumesInPlace, FinishedIsTrained and LossIsBounded add to it. *)
(***************************************************************************)
EXTENDS CheckpointStore

\* The configuration the theorems are about.
Automatic == ResumeModes = {"auto"} /\ MaxKeep # 1

Uniform(f, run, n) == f = [r \in Ranks |-> [run |-> run, updates |-> n]]

InSave == {"save", "data", "dataing", "track", "tracking"}
Training == {"batch", "train", "save", "data", "dataing", "track"}

\* The barriers keep the ranks in one of three phases of the save.
Phases ==
  /\ pc # "save" => Together("idle")
  /\ pc = "save" =>
       \/ /\ place[Chief] \in {"enter", "trim", "made"}
          /\ \A r \in Ranks \ {Chief} : place[r] \in {"enter", "made"}
       \/ \A r \in Ranks : place[r] \in {"write", "writing", "written"}
       \/ /\ place[Chief] \in {"register", "saved"}
          /\ \A r \in Ranks \ {Chief} : place[r] = "saved"

\* The batches of the passes so far are as many as the steps: the k-th pass is
\* under way, and no epoch has had more than its pass.
InPass(n, y, e) == \E k \in 0 .. e : n = k * EpochLength + y

Position ==
  /\ pc \in {"batch", "next"} \cup InSave \cup {"train"} =>
       InPass(IF pc = "batch" THEN step - 1 ELSE step, yielded, epoch)
  /\ pc \in {"train", "next"} \cup InSave => step \in Steps /\ epoch < Epochs
  /\ pc = "load" => yielded = 0 /\ step = 0
  /\ pc = "begin" => step <= EpochLength * Epochs /\ InPass(step, yielded, Epochs)

\* What the ranks hold.
ModelIs ==
  /\ pc \in {"down", "load"} => Uniform(model, 0, 0)
  /\ pc = "begin" => \E run \in Runs : Uniform(model, run, step)
  /\ pc \in {"batch", "train"} => \E run \in Runs : Uniform(model, run, step - 1)
  /\ pc \in {"next"} \cup InSave => Uniform(model, launch, step)
  /\ pc = "finished" => \E c \in Content : Uniform(model, c.run, c.updates)

\* Where the loop is with respect to the tracker.
Ahead ==
  /\ pc \in {"begin", "next"} \cup Training => tracker # Empty
  /\ pc = "begin" => step = IF tracker = None THEN 0 ELSE tracker
  /\ pc \in Training /\ tracker \in Steps => tracker < step
  /\ pc = "next" /\ tracker \in Steps => tracker <= step
  /\ pc = "tracking" => tracker = Empty

\* What the save in progress has written so far.
Written ==
  /\ pc = "save" => \A r \in Ranks :
       place[r] \in {"written", "register", "saved"} =>
         shard[step][r] = [run |-> launch, updates |-> step]
  /\ pc \in InSave \ {"save"} => Uniform(shard[step], launch, step)
  /\ pc \in {"track", "tracking"} => data[step] = [run |-> launch, yielded |-> yielded]

\* The paths of this launch are in the order of their steps.  The last one is
\* the one the tracker names, or will name.
Registered == pc \in InSave \ {"save"} \/ (pc = "save" /\ place[Chief] = "saved")

Paths ==
  /\ \A i, j \in 1 .. Len(previous) : i < j => previous[i] < previous[j]
  /\ previous # <<>> =>
       previous[Len(previous)] = IF Registered THEN step ELSE tracker
  /\ pc = "load" => previous = <<>>
  /\ pc = "save" /\ MaxKeep > 0 /\ place[Chief] \notin {"enter", "saved"} =>
       Len(previous) < MaxKeep

\* What is being removed is older than what the tracker names.
VictimsAreOld ==
  /\ \A i \in 1 .. Len(victims) :
       tracker \in Steps /\ victims[i] < tracker
  /\ place[Chief] # "trim" => victims = <<>>

\* The checkpoint the tracker names is whole, and says where its pass was.
TrackedIsWhole ==
  tracker \in Steps =>
    \E run \in Runs, y \in 0 .. EpochLength :
      /\ Uniform(shard[tracker], run, tracker)
      /\ data[tracker] = [run |-> run, yielded |-> y]
      /\ \E k \in 0 .. Epochs : tracker = k * EpochLength + y

StoreInv ==
  /\ TypeOK /\ Phases /\ Position /\ ModelIs /\ Ahead
  /\ Written /\ Paths /\ VictimsAreOld /\ TrackedIsWhole

-----------------------------------------------------------------------------
(* Where a resumed training goes on, and what a crash costs it *)

\* The n-th batch is one that was trained and y its place in its pass; or
\* nothing was trained and the pass not begun.
GoesOn(n, y) ==
  \/ n = 0 /\ y = 0
  \/ y > 0 /\ \E k \in 0 .. Epochs : n = k * EpochLength + y

\* The batches of the loop's epochs up to where the dataloader is.
Reached == IF epoch < Epochs THEN epoch * EpochLength + yielded ELSE EpochLength * Epochs

\* Epoch and dataloader are where the step says, or one pass further on for the
\* whole of a launch that resumed at the end of a pass.
Aligned ==
  /\ pc = "load" => resumed = 0
  /\ pc = "begin" => step = resumed /\ GoesOn(step, yielded)
  /\ pc = "batch" => step - 1 + Skipped = Reached
  /\ pc \in {"train", "next"} \cup InSave =>
       step + Skipped = epoch * EpochLength + yielded /\ yielded > 0
  /\ tracker \in Steps => GoesOn(tracker, data[tracker].yielded)

\* Checkpoints are saved at all.
Saving == SaveFreq > 0

\* The steps at which a training of n updates had to save are not ahead of the
\* tracker.
Tracked == IF tracker = None THEN 0 ELSE tracker
KeptUpTo(n) ==
  \A k \in 0 .. EpochLength * Epochs : k * SaveFreq <= n => k * SaveFreq <= Tracked
Kept ==
  /\ pc \in {"begin", "next"} => KeptUpTo(step)
  /\ pc \in Training => KeptUpTo(step - 1)

-----------------------------------------------------------------------------
(* Who can take a step *)

\* Rank 0 that removes checkpoints has one to remove.
Trimming == place[Chief] = "trim" => victims # <<>>

SaveCanGo ==
  \/ \E p \in {"made", "written", "saved"} : Together(p)
  \/ \E r \in Ranks : place[r] \in {"enter", "write", "writing", "register"}
  \/ place[Chief] \in {"trim", "rotate"} /\ victims # <<>>

\* The guards of Run.
LaunchCanGo ==
  \/ pc \in DriverPlace \ (Stopped \cup {"batch", "save"})
  \/ pc = "batch" /\ (epoch >= Epochs \/ yielded <= EpochLength)
  \/ pc = "save" /\ SaveCanGo

\* A launch that has not stopped is never stuck: the ranks do not wait at
\* different barriers, and rank 0 does not wait for a removal that has nothing
\* to remove.
NeverStandsStill == pc \notin Stopped => LaunchCanGo
=============================================================================
