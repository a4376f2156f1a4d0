----------------------- MODULE CheckpointStore_proofs -----------------------
(***************************************************************************)
(* Launches that resume automatically, and keep every checkpoint or at     *)
(* least two, never name a partial checkpoint, for any number of ranks,    *)
(* any save frequency and any number of crashes.  They go on where they   *)
(* were, or one pass further on when the save fell on the end of a pass,   *)
(* and a crash costs them at most save_freq updates.                       *)
(***************************************************************************)
EXTENDS CheckpointStore_inv, TLAPS

LEMMA Constants ==
  /\ Chief \in Ranks /\ EpochLength \in Nat \ {0} /\ Epochs \in Nat
  /\ MaxKeep \in Nat /\ MaxLaunches \in Nat
  /\ EpochLength * Epochs \in Nat
BY CheckpointAssumption

\* The k-th pass of fewer than Epochs ends within the steps.
LEMMA PassEnd ==
  ASSUME NEW k \in Nat, NEW y \in 0 .. EpochLength, k < Epochs
  PROVE  k * EpochLength + y \in 0 .. EpochLength * Epochs
<1>1. \A a, b, c \in Nat : a + 1 <= b => a * c + c <= c * b
  <2> SUFFICES ASSUME NEW a \in Nat, NEW b \in Nat, NEW c \in Nat, a + 1 <= b
               PROVE  a * c + c <= c * b
    OBVIOUS
  <2> DEFINE d == b - (a + 1)
  <2>1. d \in Nat /\ b = a + 1 + d
    OBVIOUS
  <2>2. d * c \in Nat
    BY <2>1
  <2> HIDE DEF d
  <2>3. c * b = a * c + c + d * c
    BY <2>1
  <2> QED BY <2>2, <2>3
<1>2. k * EpochLength + EpochLength <= EpochLength * Epochs
  BY <1>1, Constants
<1>3. k * EpochLength \in Nat
  BY Constants
<1> QED BY <1>2, <1>3, Constants

\* A step in its k-th pass is not before the epoch computed from it.
LEMMA EpochOfStep ==
  ASSUME NEW n \in Nat, n <= EpochLength * Epochs
  PROVE  /\ n \div EpochLength \in 0 .. Epochs
         /\ \A k \in Nat, y \in Nat : n = k * EpochLength + y => k <= n \div EpochLength
<1> DEFINE q == n \div EpochLength
           m == n % EpochLength
<1>1. q \in Int /\ m \in 0 .. EpochLength - 1 /\ n = EpochLength * q + m
  BY Constants
<1> HIDE DEF q, m
<1>2. \A a, b, c \in Int : c > 0 /\ a > b => c * a >= c * b + c
  <2> SUFFICES ASSUME NEW a \in Int, NEW b \in Int, NEW c \in Int, c > 0, a > b
               PROVE  c * a >= c * b + c
    OBVIOUS
  <2> DEFINE d == a - b - 1
  <2>1. d \in Nat /\ a = b + 1 + d
    OBVIOUS
  <2>2. c * d >= 0
    BY <2>1
  <2> HIDE DEF d
  <2>3. c * a = c * b + c + c * d
    BY <2>1
  <2> QED BY <2>1, <2>2, <2>3
<1>3. q >= 0
  <2> SUFFICES ASSUME q < 0 PROVE FALSE
    BY <1>1
  <2> QED BY <1>1, <1>2, Constants
<1>4. q <= Epochs
  <2> SUFFICES ASSUME q > Epochs PROVE FALSE
    BY <1>1, Constants
  <2> QED BY <1>1, <1>2, Constants
<1>5. ASSUME NEW k \in Nat, NEW y \in Nat, n = k * EpochLength + y
      PROVE  k <= q
  <2> SUFFICES ASSUME k > q PROVE FALSE
    BY <1>1
  <2>1. EpochLength * k >= EpochLength * q + EpochLength
    BY <1>1, <1>2, Constants
  <2> QED BY <2>1, <1>1, <1>5, Constants
<1> QED BY <1>1, <1>3, <1>4, <1>5 DEF q

LEMMA AutoMode == ASSUME Automatic, TypeOK PROVE mode = "auto"
BY DEF Automatic, TypeOK

\* A save runs between the update and the end of a step that exists.
LEMMA SavingStep ==
  ASSUME StoreInv
  PROVE  /\ \A r \in Ranks : place[r] # "idle" => pc = "save"
         /\ pc \in InSave => step \in Steps /\ Uniform(model, launch, step)
         /\ place[Chief] # "rotate"
BY Constants DEF StoreInv, Phases, Together, Position, ModelIs, InSave

-----------------------------------------------------------------------------
(* Types *)

LEMMA InitTypeOK == Init => TypeOK
BY Constants DEF Init, TypeOK, Runs, Content, Base, DriverPlace, Stopped, RankPlace, Steps

LEMMA NewProcessTypeOK ==
  ASSUME NewProcess
  PROVE  /\ step' = 0 /\ epoch' = 0 /\ yielded' = 0 /\ resumed' = 0
         /\ model' \in [Ranks -> Content \cup {Mixed}]
         /\ place' \in [Ranks -> RankPlace]
         /\ previous' = <<>> /\ victims' = <<>>
BY Constants DEF NewProcess, Runs, Content, Base, RankPlace

LEMMA DropType ==
  ASSUME NEW paths \in Seq(Steps), NEW n \in 0 .. Len(paths), Drop(paths, n)
  PROVE  /\ victims' \in Seq(Steps) /\ previous' \in Seq(Steps)
         /\ Len(victims') = n /\ Len(previous') = Len(paths) - n
         /\ \A i \in 1 .. n : victims'[i] = paths[i]
         /\ \A i \in 1 .. Len(paths) - n : previous'[i] = paths[n + i]
<1>1. /\ SubSeq(paths, 1, n) \in Seq(Steps) /\ Len(SubSeq(paths, 1, n)) = n
      /\ \A i \in 1 .. n : SubSeq(paths, 1, n)[i] = paths[i]
  OBVIOUS
<1>2. /\ SubSeq(paths, n + 1, Len(paths)) \in Seq(Steps)
      /\ Len(SubSeq(paths, n + 1, Len(paths))) = Len(paths) - n
      /\ \A i \in 1 .. Len(paths) - n : SubSeq(paths, n + 1, Len(paths))[i] = paths[n + i]
  OBVIOUS
<1> QED BY <1>1, <1>2 DEF Drop

\* The loop never runs past the last step of the last epoch.
LEMMA LoopTypeOK ==
  ASSUME StoreInv, Loop
  PROVE  TypeOK'
<1> USE DEF StoreInv
<1>0. TypeOK
  OBVIOUS
<1>1. CASE EnterLoop
  <2>1. step \in Nat /\ step <= EpochLength * Epochs
    BY <1>0, <1>1 DEF EnterLoop, TypeOK, Position
  <2>2. epoch' \in 0 .. Epochs
    BY <1>1, <2>1, EpochOfStep DEF EnterLoop
  <2>3. step' \in 0 .. EpochLength * Epochs + 1
    BY <1>1, <2>1, Constants DEF EnterLoop
  <2>4. UNCHANGED <<launch, mode, yielded, resumed, model, place, previous, victims, shard, data,
                 tracker>>
        /\ pc' \in DriverPlace
    BY <1>1 DEF EnterLoop, DriverPlace, saveVars, disk
  <2> QED BY <1>0, <2>2, <2>3, <2>4 DEF TypeOK
<1>2. CASE TakeBatch
  BY <1>0, <1>2, Constants DEF TakeBatch, TypeOK, DriverPlace, saveVars, disk
<1>3. CASE NextEpoch
  BY <1>0, <1>3, Constants DEF NextEpoch, TypeOK, saveVars, disk
<1>4. CASE EpochsOver
  BY <1>0, <1>4 DEF EpochsOver, TypeOK, DriverPlace, Stopped, loopVars, saveVars, disk
<1>5. CASE UpdateActor
  <2>1. step \in 1 .. EpochLength * Epochs
    BY <1>5 DEF UpdateActor, Position, Steps
  <2>2. PICK run \in Runs : Uniform(model, run, step - 1)
    BY <1>5 DEF UpdateActor, ModelIs
  <2>3. launch \in Runs
    BY <1>0 DEF TypeOK
  <2>4. [run |-> launch, updates |-> step] \in Content
    BY <2>1, <2>3 DEF Content
  <2>5. \A r \in Ranks : model[r].updates + 1 = step
    BY <2>1, <2>2 DEF Uniform
  <2>6. Updated \in [Ranks -> Content \cup {Mixed}]
    BY <2>4, <2>5 DEF Updated
  <2>7. place' \in [Ranks -> RankPlace] /\ pc' \in DriverPlace
    BY <1>0, <1>5 DEF UpdateActor, TypeOK, RankPlace, DriverPlace
  <2> QED BY <1>0, <1>5, <2>6, <2>7 DEF UpdateActor, TypeOK, loopVars, disk
<1>6. CASE EndStep
  <2>1. step \in 1 .. EpochLength * Epochs
    BY <1>6 DEF EndStep, Position, Steps
  <2>2. pc' \in DriverPlace
    BY <1>6 DEF EndStep, DriverPlace, Stopped
  <2> QED BY <1>0, <1>6, <2>1, <2>2, Constants DEF EndStep, TypeOK, saveVars, disk
<1> QED BY <1>1, <1>2, <1>3, <1>4, <1>5, <1>6 DEF Loop

LEMMA LoadTypeOK ==
  ASSUME StoreInv, Automatic, Load
  PROVE  TypeOK'
<1>0. TypeOK
  BY DEF StoreInv
<1>1. CASE StartFresh \/ LoadFails
  BY <1>0, <1>1 DEF StartFresh, LoadFails, TypeOK, DriverPlace, Stopped, loopVars, saveVars, disk
<1>2. CASE Resume
  <2>1. tracker \in 1 .. EpochLength * Epochs /\ step' = tracker /\ resumed' = tracker
    BY <1>2 DEF Resume, Steps
  <2>2. step' \in 0 .. EpochLength * Epochs + 1 /\ resumed' \in 0 .. EpochLength * Epochs
    BY <2>1, Constants
  <2>3. PICK run \in Runs, y \in 0 .. EpochLength :
          /\ Uniform(shard[tracker], run, tracker)
          /\ data[tracker] = [run |-> run, yielded |-> y]
    BY <1>2 DEF Resume, StoreInv, TrackedIsWhole
  <2>4. None \notin DataState
    BY CheckpointAssumption
  <2>5. yielded' = y
    BY <1>2, <2>3, <2>4 DEF Resume, DataState
  <2>6. [run |-> run, updates |-> tracker] \in Content
    BY <2>1, <2>3 DEF Content
  <2>7. model' \in [Ranks -> Content \cup {Mixed}]
    BY <1>2, <2>3, <2>6 DEF Resume, Uniform
  <2>8. /\ UNCHANGED <<launch, mode, epoch, place, previous, victims, shard, data, tracker>>
        /\ pc' \in DriverPlace
    BY <1>2 DEF Resume, DriverPlace, saveVars, disk
  <2> QED BY <1>0, <2>2, <2>5, <2>7, <2>8 DEF TypeOK
<1> QED BY <1>1, <1>2 DEF Load

LEMMA GotoType ==
  ASSUME TypeOK, NEW r \in Ranks, NEW p \in RankPlace, Goto(r, p)
  PROVE  /\ place' \in [Ranks -> RankPlace]
         /\ place'[r] = p
         /\ \A q \in Ranks : q # r => place'[q] = place[q]
BY DEF Goto, TypeOK

\* What every step of the save leaves alone.
LEMMA SaveFrame ==
  ASSUME Save
  PROVE  UNCHANGED <<launch, mode, step, epoch, yielded, resumed, model>>
BY DEF Save, EnsureCapacity, MakeDir, BarrierMade, OpenShard, CloseShard, BarrierWritten,
   Register, RemoveShard, RemovedCheckpoint, BarrierSaved, OpenData, CloseData, OpenTracker,
   WriteTracker, loopVars

\* The path lists a capacity check or a registration leaves.
LEMMA Trimmed ==
  ASSUME StoreInv, EnsureCapacity, MaxKeep > 1, Len(previous) >= MaxKeep
  PROVE  /\ victims' \in Seq(Steps) /\ previous' \in Seq(Steps)
         /\ Len(previous') = MaxKeep - 1
         /\ Len(victims') = Len(previous) - MaxKeep + 1
         /\ \A i \in 1 .. Len(victims') : victims'[i] = previous[i]
         /\ \A i \in 1 .. MaxKeep - 1 : previous'[i] = previous[Len(previous) - MaxKeep + 1 + i]
<1> DEFINE n == Len(previous) - MaxKeep + 1
<1>1. previous \in Seq(Steps) /\ Len(previous) \in Nat
  BY DEF StoreInv, TypeOK
<1>2. n \in 0 .. Len(previous)
  BY <1>1, Constants
<1>3. Drop(previous, n)
  BY DEF EnsureCapacity
<1>4. Len(previous) - n = MaxKeep - 1
  BY <1>1, Constants
<1> HIDE DEF n
<1>5. /\ victims' \in Seq(Steps) /\ previous' \in Seq(Steps)
      /\ Len(victims') = n /\ Len(previous') = Len(previous) - n
      /\ \A i \in 1 .. n : victims'[i] = previous[i]
      /\ \A i \in 1 .. Len(previous) - n : previous'[i] = previous[n + i]
  BY <1>1, <1>2, <1>3, DropType
<1> QED BY <1>4, <1>5 DEF n

\* With two checkpoints or more to keep, room was made before the save and
\* registering removes nothing.
LEMMA Registers ==
  ASSUME StoreInv, Automatic, Register
  PROVE  /\ previous' = Append(previous, step) /\ previous' \in Seq(Steps)
         /\ Goto(Chief, "saved") /\ victims' = victims
         /\ step \in Steps /\ pc = "save"
<1>1. place[Chief] = "register"
  BY DEF Register
<1>2. pc = "save" /\ step \in Steps
  BY <1>1, SavingStep, Constants DEF InSave
<1>3. previous \in Seq(Steps) /\ Len(previous) \in Nat
  BY DEF StoreInv, TypeOK
<1>4. Append(previous, step) \in Seq(Steps) /\ Len(Append(previous, step)) = Len(previous) + 1
  BY <1>2, <1>3
<1>5. MaxKeep > 0 => Len(previous) < MaxKeep
  BY <1>1, <1>2 DEF StoreInv, Paths
<1>6. ~(MaxKeep > 0 /\ Len(Append(previous, step)) > MaxKeep)
  BY <1>3, <1>4, <1>5, Constants
<1> QED BY <1>2, <1>4, <1>6 DEF Register

\* The ranks' part of a save and the driver's part of it.
RankSave ==
  \/ EnsureCapacity \/ BarrierMade \/ BarrierWritten \/ Register
  \/ RemovedCheckpoint \/ BarrierSaved
  \/ \E r \in Ranks : MakeDir(r) \/ OpenShard(r) \/ CloseShard(r) \/ RemoveShard(r)

DriverSave == OpenData \/ CloseData \/ OpenTracker \/ WriteTracker

LEMMA SaveSplit == Save <=> RankSave \/ DriverSave
BY DEF Save, RankSave, DriverSave

LEMMA ShardType ==
  ASSUME TypeOK, NEW s \in Steps, NEW r \in Ranks,
         NEW c \in Content \cup {None, Torn, Mixed},
         shard' = [shard EXCEPT ![s][r] = c]
  PROVE  /\ shard' \in [Steps -> [Ranks -> Content \cup {None, Torn, Mixed}]]
         /\ shard'[s][r] = c
         /\ \A q \in Ranks : q # r => shard'[s][q] = shard[s][q]
         /\ \A t \in Steps : t # s => shard'[t] = shard[t]
BY DEF TypeOK

\* The rank that writes is in the save of a step, the rank that removes is
\* the chief making room.
LEMMA WritesShard ==
  ASSUME StoreInv, NEW r \in Ranks, OpenShard(r) \/ CloseShard(r)
  PROVE  /\ step \in Steps /\ pc = "save"
         /\ \E c \in Content \cup {Torn, Mixed} :
              shard' = [shard EXCEPT ![step][r] = c]
         /\ CloseShard(r) =>
              shard' = [shard EXCEPT ![step][r] = [run |-> launch, updates |-> step]]
<1>1. place[r] \in {"write", "writing"}
  BY DEF OpenShard, CloseShard
<1>2. pc = "save" /\ step \in Steps /\ Uniform(model, launch, step)
  BY <1>1, SavingStep DEF InSave
<1>3. model[r] = [run |-> launch, updates |-> step]
  BY <1>2 DEF Uniform
<1>4. [run |-> launch, updates |-> step] \in Content
  BY <1>2, Constants DEF StoreInv, TypeOK, Content, Steps
<1>5. CASE OpenShard(r)
  <2>1. shard[step] \in [Ranks -> Content \cup {None, Torn, Mixed}] /\ shard \in [Steps -> [Ranks -> Content \cup {None, Torn, Mixed}]]
    BY <1>2 DEF StoreInv, TypeOK
  <2>2. PICK c \in {Torn, Mixed} : c = IF shard[step][r] \in {None, Torn} THEN Torn ELSE Mixed
    OBVIOUS
  <2>3. shard' = [shard EXCEPT ![step][r] = c]
    BY <1>2, <1>5, <2>1, <2>2 DEF OpenShard
  <2>4. ~CloseShard(r)
    BY <1>5 DEF OpenShard, CloseShard
  <2> QED BY <1>2, <2>2, <2>3, <2>4
<1>6. CASE CloseShard(r)
  BY <1>2, <1>3, <1>4, <1>6 DEF CloseShard
<1> QED BY <1>5, <1>6

LEMMA RemovesShard ==
  ASSUME StoreInv, Automatic, NEW r \in Ranks, RemoveShard(r)
  PROVE  /\ Head(victims) \in Steps /\ tracker \in Steps /\ Head(victims) < tracker
         /\ pc = "save" /\ place[Chief] = "trim" /\ tracker < step
         /\ shard' = [shard EXCEPT ![Head(victims)][r] = None]
<1>1. place[Chief] = "trim" /\ pc = "save"
  BY SavingStep, Constants DEF RemoveShard
<1>2. victims \in Seq(Steps) /\ victims # <<>>
  BY DEF RemoveShard, StoreInv, TypeOK
<1>3. Len(victims) \in Nat /\ Len(victims) >= 1 /\ Head(victims) = victims[1] /\ Head(victims) \in Steps
  BY <1>2
<1>4. tracker \in Steps /\ Head(victims) < tracker
  BY <1>3 DEF StoreInv, VictimsAreOld
<1>5. tracker < step
  BY <1>1, <1>4 DEF StoreInv, Ahead, Training
<1> QED BY <1>1, <1>3, <1>4, <1>5 DEF RemoveShard

LEMMA RankSaveTypeOK ==
  ASSUME StoreInv, Automatic, RankSave
  PROVE  TypeOK'
<1>0. TypeOK
  BY DEF StoreInv
<1>f. UNCHANGED <<launch, mode, step, epoch, yielded, resumed, model>>
  BY SaveFrame, SaveSplit
<1>1. CASE EnsureCapacity
  <2>1. UNCHANGED <<pc, shard, data, tracker>>
    BY <1>1 DEF EnsureCapacity, disk
  <2>2. place' \in [Ranks -> RankPlace]
    BY <1>0, <1>1, GotoType, Constants DEF EnsureCapacity, RankPlace
  <2>3. previous' \in Seq(Steps) /\ victims' \in Seq(Steps)
    BY <1>0, <1>1, Trimmed DEF EnsureCapacity, TypeOK
  <2> QED BY <1>0, <1>f, <2>1, <2>2, <2>3 DEF TypeOK
<1>2. CASE BarrierMade
  BY <1>0, <1>2, <1>f DEF BarrierMade, TypeOK, RankPlace, disk
<1>3. CASE BarrierWritten
  BY <1>0, <1>3, <1>f DEF BarrierWritten, TypeOK, RankPlace, disk
<1>4. CASE Register
  <2>1. place' \in [Ranks -> RankPlace] /\ previous' \in Seq(Steps) /\ victims' = victims
    BY <1>0, <1>4, Registers, GotoType, Constants DEF RankPlace
  <2>2. UNCHANGED <<pc, shard, data, tracker>>
    BY <1>4 DEF Register, disk
  <2> QED BY <1>0, <1>f, <2>1, <2>2 DEF TypeOK
<1>5. CASE RemovedCheckpoint
  <2>1. UNCHANGED <<pc, previous, shard, data, tracker>> /\ victims' \in Seq(Steps)
    BY <1>0, <1>5 DEF RemovedCheckpoint, TypeOK, disk
  <2>2. place' \in [Ranks -> RankPlace]
    <3>1. \A p \in RankPlace : Goto(Chief, p) => place' \in [Ranks -> RankPlace]
      BY <1>0, GotoType, Constants
    <3>2. "made" \in RankPlace /\ "saved" \in RankPlace
      BY DEF RankPlace
    <3> QED BY <1>0, <1>5, <3>1, <3>2 DEF RemovedCheckpoint, TypeOK
  <2> QED BY <1>0, <1>f, <2>1, <2>2 DEF TypeOK
<1>6. CASE BarrierSaved
  BY <1>0, <1>6, <1>f DEF BarrierSaved, TypeOK, RankPlace, DriverPlace, disk
<1>7. ASSUME NEW r \in Ranks, MakeDir(r) PROVE TypeOK'
  BY <1>0, <1>7, <1>f, GotoType DEF MakeDir, TypeOK, RankPlace, disk
<1>8. ASSUME NEW r \in Ranks, OpenShard(r) \/ CloseShard(r) PROVE TypeOK'
  <2>1. UNCHANGED <<pc, previous, victims, data, tracker>> /\ place' \in [Ranks -> RankPlace]
    BY <1>0, <1>8, GotoType DEF OpenShard, CloseShard, RankPlace
  <2>2. shard' \in [Steps -> [Ranks -> Content \cup {None, Torn, Mixed}]]
    BY <1>0, <1>8, WritesShard, ShardType
  <2> QED BY <1>0, <1>f, <2>1, <2>2 DEF TypeOK
<1>9. ASSUME NEW r \in Ranks, RemoveShard(r) PROVE TypeOK'
  <2>1. UNCHANGED <<pc, place, previous, victims, data, tracker>>
    BY <1>9 DEF RemoveShard, saveVars
  <2>2. shard' \in [Steps -> [Ranks -> Content \cup {None, Torn, Mixed}]]
    BY <1>0, <1>9, RemovesShard, ShardType
  <2> QED BY <1>0, <1>f, <2>1, <2>2 DEF TypeOK
<1> QED BY <1>1, <1>2, <1>3, <1>4, <1>5, <1>6, <1>7, <1>8, <1>9 DEF RankSave

LEMMA DriverSaveTypeOK ==
  ASSUME StoreInv, DriverSave
  PROVE  TypeOK'
<1>0. TypeOK
  BY DEF StoreInv
<1>f. UNCHANGED <<launch, mode, step, epoch, yielded, resumed, model, place, previous, victims,
               shard>>
  BY DEF DriverSave, OpenData, CloseData, OpenTracker, WriteTracker, loopVars, saveVars
<1>1. pc \in InSave /\ pc' \in DriverPlace
  BY DEF DriverSave, OpenData, CloseData, OpenTracker, WriteTracker, InSave, DriverPlace
<1>2. step \in Steps
  BY <1>1, SavingStep
<1>3. data' \in [Steps -> DataState \cup {None, Torn}]
  <2>1. [run |-> launch, yielded |-> yielded] \in DataState
    BY <1>0 DEF TypeOK, DataState
  <2> QED
    BY <1>0, <2>1 DEF DriverSave, OpenData, CloseData, OpenTracker, WriteTracker, TypeOK
<1>4. tracker' \in Steps \cup {None, Empty}
  BY <1>0, <1>2 DEF DriverSave, OpenData, CloseData, OpenTracker, WriteTracker, TypeOK
<1> QED BY <1>0, <1>f, <1>1, <1>3, <1>4 DEF TypeOK

LEMMA NextTypeOK ==
  ASSUME StoreInv, Automatic, [Next]_vars
  PROVE  TypeOK'
<1>0. TypeOK
  BY DEF StoreInv
<1>1. CASE Launch
  <2>1. launch' \in Runs /\ mode' \in ResumeModes /\ pc' \in DriverPlace
    BY <1>0, <1>1, Constants DEF Launch, TypeOK, Runs, DriverPlace
  <2>2. UNCHANGED <<shard, data, tracker>> /\ NewProcess
    BY <1>1 DEF Launch, disk
  <2> QED BY <1>0, <2>1, <2>2, NewProcessTypeOK, Constants DEF TypeOK
<1>2. CASE Crash
  <2>1. UNCHANGED <<launch, mode, shard, data, tracker>> /\ NewProcess /\ pc' \in DriverPlace
    BY <1>2 DEF Crash, disk, DriverPlace, Stopped
  <2> QED BY <1>0, <2>1, NewProcessTypeOK, Constants DEF TypeOK
<1>3. CASE Run
  BY <1>3, LoadTypeOK, LoopTypeOK, SaveSplit, RankSaveTypeOK, DriverSaveTypeOK DEF Run
<1>4. CASE UNCHANGED vars
  BY <1>0, <1>4 DEF TypeOK, vars, loopVars, saveVars, disk
<1> QED BY <1>1, <1>2, <1>3, <1>4 DEF Next

-----------------------------------------------------------------------------
(* The barriers *)

\* Steps outside the save leave every rank idle, except the one that opens it.
LEMMA PhasesNext ==
  ASSUME StoreInv, Automatic, [Next]_vars
  PROVE  Phases'
<1>0. TypeOK /\ Phases
  BY DEF StoreInv
<1>t. place' \in [Ranks -> RankPlace]
  BY NextTypeOK DEF TypeOK
<1>1. CASE Launch \/ Crash
  BY <1>1 DEF Launch, Crash, NewProcess, Phases, Together
<1>2. CASE Load
  BY <1>0, <1>2 DEF Load, StartFresh, Resume, LoadFails, Phases, Together, saveVars
<1>3. CASE Loop
  <2>1. CASE UpdateActor
    BY <1>0, <2>1, Constants DEF UpdateActor, Phases, Together
  <2>2. CASE EnterLoop \/ TakeBatch \/ NextEpoch \/ EpochsOver \/ EndStep
    BY <1>0, <2>2 DEF EnterLoop, TakeBatch, NextEpoch, EpochsOver, EndStep, Phases, Together, saveVars
  <2> QED BY <1>3, <2>1, <2>2 DEF Loop
<1>4. CASE RankSave
  <2>0. pc = "save"
    BY <1>4, SavingStep, Constants DEF RankSave, EnsureCapacity, BarrierMade, BarrierWritten, Register,
       RemovedCheckpoint, BarrierSaved, MakeDir, OpenShard, CloseShard, RemoveShard
  <2>1. CASE EnsureCapacity
    <3>1. \E p \in {"trim", "made"} : Goto(Chief, p) /\ pc' = pc
      BY <2>1 DEF EnsureCapacity
    <3>2. place[Chief] = "enter"
      BY <2>1 DEF EnsureCapacity
    <3>3. place'[Chief] \in {"trim", "made"} /\ \A q \in Ranks : q # Chief => place'[q] = place[q]
      BY <1>0, <3>1, GotoType, Constants DEF RankPlace
    <3> QED BY <1>0, <2>0, <3>1, <3>2, <3>3, Constants DEF Phases
  <2>2. CASE BarrierMade \/ BarrierWritten
    BY <2>0, <2>2, Constants DEF BarrierMade, BarrierWritten, Phases
  <2>3. CASE Register
    <3>1. Goto(Chief, "saved") /\ pc' = pc /\ place[Chief] = "register"
      BY <2>3, Registers DEF Register
    <3>2. place'[Chief] = "saved" /\ \A q \in Ranks : q # Chief => place'[q] = place[q]
      BY <1>0, <3>1, GotoType, Constants DEF RankPlace
    <3> QED BY <1>0, <2>0, <3>1, <3>2, Constants DEF Phases
  <2>4. CASE RemovedCheckpoint
    <3>1. place[Chief] = "trim" /\ pc' = pc /\ (Goto(Chief, "made") \/ UNCHANGED place)
      BY <2>4, SavingStep DEF RemovedCheckpoint
    <3>2. place'[Chief] \in {"trim", "made"} /\ \A q \in Ranks : q # Chief => place'[q] = place[q]
      BY <1>0, <3>1, GotoType, Constants DEF RankPlace
    <3> QED BY <1>0, <2>0, <3>1, <3>2, Constants DEF Phases
  <2>5. CASE BarrierSaved
    BY <2>5 DEF BarrierSaved, Phases, Together
  <2>6. ASSUME NEW r \in Ranks, MakeDir(r) PROVE Phases'
    <3>1. place'[r] = "made" /\ (\A q \in Ranks : q # r => place'[q] = place[q])
          /\ pc' = pc /\ r # Chief /\ place[r] = "enter"
      BY <1>0, <2>6, GotoType DEF MakeDir, RankPlace
    <3> QED BY <1>0, <2>0, <3>1, Constants DEF Phases
  <2>7. ASSUME NEW r \in Ranks, OpenShard(r) \/ CloseShard(r) PROVE Phases'
    <3>1. place'[r] \in {"writing", "written"} /\ (\A q \in Ranks : q # r => place'[q] = place[q])
          /\ pc' = pc /\ place[r] \in {"write", "writing"}
      BY <1>0, <2>7, GotoType DEF OpenShard, CloseShard, RankPlace
    <3> QED BY <1>0, <2>0, <3>1, Constants DEF Phases
  <2>8. ASSUME NEW r \in Ranks, RemoveShard(r) PROVE Phases'
    BY <1>0, <2>8 DEF RemoveShard, Phases, Together, saveVars
  <2> QED BY <1>4, <2>1, <2>2, <2>3, <2>4, <2>5, <2>6, <2>7, <2>8 DEF RankSave
<1>5. CASE DriverSave
  BY <1>0, <1>5 DEF DriverSave, OpenData, CloseData, OpenTracker, WriteTracker, Phases, Together, saveVars
<1>6. CASE UNCHANGED vars
  BY <1>0, <1>6 DEF vars, saveVars, Phases, Together
<1> QED BY <1>1, <1>2, <1>3, <1>4, <1>5, <1>6, SaveSplit DEF Next, Run

-----------------------------------------------------------------------------
(* Where the loop is, and what it holds *)

\* The places the driver moves through during a save, step and pass unchanged.
LEMMA SavePlaces ==
  ASSUME StoreInv, Save
  PROVE  /\ pc \in InSave /\ pc' \in InSave \cup {"next"}
         /\ UNCHANGED <<launch, mode, step, epoch, yielded, resumed, model>>
<1>1. UNCHANGED <<launch, mode, step, epoch, yielded, resumed, model>>
  BY SaveFrame
<1>2. CASE DriverSave
  BY <1>1, <1>2 DEF DriverSave, OpenData, CloseData, OpenTracker, WriteTracker, InSave
<1>3. CASE RankSave
  <2>1. pc = "save"
    BY <1>3, SavingStep, Constants DEF RankSave, EnsureCapacity, BarrierMade, BarrierWritten, Register,
       RemovedCheckpoint, BarrierSaved, MakeDir, OpenShard, CloseShard, RemoveShard
  <2>2. pc' \in {"save", "data"}
    BY <1>3, <2>1 DEF RankSave, EnsureCapacity, BarrierMade, BarrierWritten, Register,
       RemovedCheckpoint, BarrierSaved, MakeDir, OpenShard, CloseShard, RemoveShard
  <2> QED BY <1>1, <2>1, <2>2 DEF InSave
<1> QED BY <1>2, <1>3, SaveSplit

\* What a resume reads from the checkpoint the tracker names.
LEMMA Resumes ==
  ASSUME StoreInv, Resume
  PROVE  /\ pc' = "begin" /\ step' = tracker /\ tracker \in Steps
         /\ step' \in Nat /\ step' <= EpochLength * Epochs
         /\ (\E run \in Runs : model' = shard[tracker] /\ Uniform(shard[tracker], run, tracker))
         /\ \E k \in 0 .. Epochs : tracker = k * EpochLength + yielded'
<1>1. tracker \in Steps /\ step' = tracker /\ pc' = "begin" /\ model' = shard[tracker]
  BY DEF Resume
<1>2. PICK run \in Runs, y \in 0 .. EpochLength :
        /\ Uniform(shard[tracker], run, tracker)
        /\ data[tracker] = [run |-> run, yielded |-> y]
        /\ \E k \in 0 .. Epochs : tracker = k * EpochLength + y
  BY <1>1 DEF StoreInv, TrackedIsWhole
<1>3. None \notin DataState
  BY CheckpointAssumption
<1>4. yielded' = y
  BY <1>2, <1>3 DEF Resume, DataState
<1> QED BY <1>1, <1>2, <1>4, Constants DEF Steps

LEMMA PositionNext ==
  ASSUME StoreInv, Automatic, [Next]_vars
  PROVE  Position'
<1>0. TypeOK /\ Position
  BY DEF StoreInv
<1> USE DEF InSave
<1>1. CASE Launch \/ Crash
  BY <1>1 DEF Launch, Crash, NewProcess, Position
<1>2. CASE StartFresh
  <2>1. InPass(0, 0, Epochs)
    BY Constants DEF InPass
  <2> QED BY <1>0, <1>2, <2>1, Constants DEF StartFresh, Position, loopVars
<1>3. CASE LoadFails
  BY <1>3 DEF LoadFails, Position
<1>4. CASE Resume
  BY <1>4, Resumes DEF Position, InPass
<1>5. CASE EnterLoop
  <2>1. step \in Nat /\ step <= EpochLength * Epochs
    BY <1>0, <1>5 DEF EnterLoop, TypeOK, Position
  <2>2. PICK k \in 0 .. Epochs : step = k * EpochLength + yielded
    BY <1>0, <1>5 DEF EnterLoop, Position, InPass
  <2>3. k <= step \div EpochLength /\ step \div EpochLength \in 0 .. Epochs
    <3>1. k \in Nat /\ yielded \in Nat
      BY <1>0 DEF TypeOK
    <3>2. \A j \in Nat, y \in Nat : step = j * EpochLength + y => j <= step \div EpochLength
      BY <2>1, EpochOfStep
    <3>3. step \div EpochLength \in 0 .. Epochs
      BY <2>1, EpochOfStep
    <3> QED BY <2>2, <3>1, <3>2, <3>3, Zenon
  <2>4. InPass(step' - 1, yielded', epoch')
    BY <1>5, <2>1, <2>2, <2>3 DEF EnterLoop, InPass
  <2> QED BY <1>5, <2>4 DEF EnterLoop, Position
<1>6. CASE TakeBatch
  <2>1. PICK k \in 0 .. epoch : step - 1 = k * EpochLength + yielded
    BY <1>0, <1>6 DEF TakeBatch, Position, InPass
  <2>2. k * EpochLength \in Nat /\ yielded + 1 \in 0 .. EpochLength /\ k \in Nat /\ k < Epochs
    BY <1>0, <1>6, Constants DEF TakeBatch, TypeOK
  <2>3. step = k * EpochLength + (yielded + 1)
    <3>1. \A a, b, c \in Int : c - 1 = a + b => c = a + (b + 1)
      OBVIOUS
    <3>2. step \in Int /\ yielded \in Int /\ k * EpochLength \in Int
      BY <1>0, <2>2 DEF TypeOK
    <3> QED BY <2>1, <3>1, <3>2, Zenon
  <2>4. k * EpochLength + (yielded + 1) \in 0 .. EpochLength * Epochs
    BY <2>2, PassEnd
  <2>5. yielded \in Nat
    BY <1>0 DEF TypeOK
  <2>6. step \in Steps
    <3>1. \A a, b \in Nat : a + (b + 1) >= 1
      OBVIOUS
    <3>2. step >= 1 /\ step \in 0 .. EpochLength * Epochs
      BY <2>2, <2>3, <2>4, <2>5, <3>1
    <3> QED BY <3>2, Constants DEF Steps
  <2>7. InPass(step', yielded', epoch')
    BY <1>6, <2>1, <2>3 DEF TakeBatch, InPass
  <2> QED BY <1>6, <2>6, <2>7 DEF TakeBatch, Position
<1>7. CASE NextEpoch
  <2>1. PICK k \in 0 .. epoch : step - 1 = k * EpochLength + yielded
    BY <1>0, <1>7 DEF NextEpoch, Position, InPass
  <2>2. k + 1 \in 0 .. epoch + 1 /\ yielded = EpochLength /\ yielded' = 0
    BY <1>0, <1>7 DEF NextEpoch, TypeOK
  <2>3. (k + 1) * EpochLength = k * EpochLength + EpochLength
    BY Constants
  <2>4. step - 1 = (k + 1) * EpochLength + 0
    <3>1. (k + 1) * EpochLength \in Nat
      BY <2>2, Constants
    <3>2. step - 1 = (k + 1) * EpochLength
      BY <2>1, <2>2, <2>3
    <3> QED BY <3>1, <3>2
  <2>5. InPass(step' - 1, yielded', epoch')
    BY <1>7, <2>2, <2>4 DEF NextEpoch, InPass
  <2> QED BY <1>7, <2>5 DEF NextEpoch, Position
<1>8. CASE EpochsOver
  BY <1>8 DEF EpochsOver, Position
<1>9. CASE UpdateActor
  BY <1>0, <1>9 DEF UpdateActor, Position, loopVars
<1>10. CASE EndStep
  <2>1. InPass(step, yielded, epoch) /\ step' - 1 = step
    BY <1>0, <1>10 DEF EndStep, Position, TypeOK
  <2>2. UNCHANGED <<yielded, epoch>> /\ pc' \in {"finished", "batch"}
    BY <1>10 DEF EndStep
  <2> QED BY <2>1, <2>2 DEF Position
<1>11. CASE Save
  BY <1>0, <1>11, SavePlaces DEF Position
<1>12. CASE UNCHANGED vars
  BY <1>0, <1>12 DEF vars, loopVars, Position
<1> QED BY <1>1, <1>2, <1>3, <1>4, <1>5, <1>6, <1>7, <1>8, <1>9, <1>10, <1>11, <1>12 DEF Next, Run, Load, Loop

LEMMA ModelIsNext ==
  ASSUME StoreInv, Automatic, [Next]_vars
  PROVE  ModelIs'
<1>0. TypeOK /\ Position /\ ModelIs
  BY DEF StoreInv
<1> USE DEF InSave
<1>1. CASE Launch \/ Crash
  BY <1>1 DEF Launch, Crash, NewProcess, ModelIs, Uniform, Base
<1>2. CASE StartFresh
  <2>1. step = 0 /\ Uniform(model, 0, 0) /\ 0 \in Runs
    BY <1>0, <1>2, Constants DEF StartFresh, Position, ModelIs, Runs
  <2> QED BY <1>2, <2>1 DEF StartFresh, ModelIs, Uniform, loopVars
<1>3. CASE LoadFails
  BY <1>3 DEF LoadFails, ModelIs
<1>4. CASE Resume
  BY <1>4, Resumes DEF ModelIs, Uniform
<1>5. CASE EnterLoop
  <2>1. \E run \in Runs : Uniform(model, run, step)
    BY <1>0, <1>5 DEF EnterLoop, ModelIs
  <2>2. step' - 1 = step
    BY <1>0, <1>5 DEF EnterLoop, TypeOK
  <2> QED BY <1>5, <2>1, <2>2 DEF EnterLoop, ModelIs, Uniform
<1>6. CASE TakeBatch \/ NextEpoch
  BY <1>0, <1>6 DEF TakeBatch, NextEpoch, ModelIs, Uniform
<1>7. CASE EpochsOver
  <2>1. PICK run \in Runs : Uniform(model, run, step - 1)
    BY <1>0, <1>7 DEF EpochsOver, ModelIs
  <2>2. PICK k \in 0 .. epoch : step - 1 = k * EpochLength + yielded
    BY <1>0, <1>7 DEF EpochsOver, Position, InPass
  <2>3. k * EpochLength \in Nat /\ yielded \in Nat /\ step \in 0 .. EpochLength * Epochs + 1
    BY <1>0, Constants DEF TypeOK
  <2>4. step - 1 \in 0 .. EpochLength * Epochs
    BY <2>2, <2>3, Constants
  <2>5. [run |-> run, updates |-> step - 1] \in Content
    BY <2>4 DEF Content
  <2> QED BY <1>7, <2>1, <2>5 DEF EpochsOver, ModelIs, Uniform
<1>8. CASE UpdateActor
  <2>1. step \in 1 .. EpochLength * Epochs
    BY <1>0, <1>8 DEF UpdateActor, Position, Steps
  <2>2. PICK run \in Runs : Uniform(model, run, step - 1)
    BY <1>0, <1>8 DEF UpdateActor, ModelIs
  <2>3. [run |-> run, updates |-> step - 1] \in Content
    BY <2>1, Constants DEF Content
  <2>4. \A r \in Ranks : model[r] = [run |-> run, updates |-> step - 1]
    BY <2>2 DEF Uniform
  <2>5. \A r \in Ranks : model[r].updates + 1 = step
    BY <2>1, <2>4
  <2>6. Updated = [r \in Ranks |-> [run |-> launch, updates |-> step]]
    BY <2>3, <2>4, <2>5 DEF Updated
  <2>7. Uniform(model', launch', step')
    BY <1>8, <2>6 DEF UpdateActor, Uniform, loopVars
  <2>8. pc' \in {"save", "next"}
    BY <1>8 DEF UpdateActor
  <2> QED BY <2>7, <2>8 DEF ModelIs
<1>9. CASE EndStep
  <2>1. Uniform(model, launch, step) /\ step \in 1 .. EpochLength * Epochs
    BY <1>0, <1>9 DEF EndStep, ModelIs, Position, Steps
  <2>2. launch \in Runs /\ step' - 1 = step
    BY <1>0, <1>9, <2>1 DEF EndStep, TypeOK
  <2>3. [run |-> launch, updates |-> step] \in Content
    BY <2>1, <2>2 DEF Content
  <2>4. Uniform(model', launch, step' - 1) /\ pc' \in {"finished", "batch"}
    BY <1>9, <2>1, <2>2 DEF EndStep, Uniform
  <2>5. \E c \in Content : Uniform(model', c.run, c.updates)
    BY <2>2, <2>3, <2>4 DEF Uniform
  <2>6. \E run \in Runs : Uniform(model', run, step' - 1)
    BY <2>2, <2>4
  <2> QED BY <2>4, <2>5, <2>6 DEF ModelIs
<1>10. CASE Save
  <2>1. Uniform(model, launch, step)
    BY <1>0, <1>10, SavePlaces DEF ModelIs
  <2> QED BY <1>10, <2>1, SavePlaces DEF ModelIs, Uniform
<1>11. CASE UNCHANGED vars
  BY <1>0, <1>11 DEF vars, loopVars, ModelIs, Uniform
<1> QED BY <1>1, <1>2, <1>3, <1>4, <1>5, <1>6, <1>7, <1>8, <1>9, <1>10, <1>11 DEF Next, Run, Load, Loop

LEMMA AheadNext ==
  ASSUME StoreInv, Automatic, [Next]_vars
  PROVE  Ahead'
<1>0. TypeOK /\ Position /\ Ahead /\ mode = "auto"
  BY AutoMode DEF StoreInv
<1>n. None # Empty /\ None \notin Int /\ Empty \notin Int /\ Steps \subseteq Int
  BY CheckpointAssumption DEF Steps
<1> USE DEF InSave, Training
<1>1. CASE Launch \/ Crash
  BY <1>1 DEF Launch, Crash, Ahead
<1>2. CASE StartFresh
  BY <1>0, <1>2, <1>n DEF StartFresh, Position, Ahead, loopVars, disk
<1>3. CASE LoadFails
  BY <1>3 DEF LoadFails, Ahead
<1>4. CASE Resume
  BY <1>4, <1>n DEF Resume, Ahead, disk
<1>5. CASE EnterLoop
  BY <1>0, <1>5, <1>n DEF EnterLoop, TypeOK, Ahead, disk
<1>6. CASE TakeBatch \/ NextEpoch \/ EpochsOver
  BY <1>0, <1>6 DEF TakeBatch, NextEpoch, EpochsOver, Ahead, disk, loopVars
<1>7. CASE UpdateActor
  BY <1>0, <1>7, <1>n DEF UpdateActor, TypeOK, Ahead, disk, loopVars
<1>8. CASE EndStep
  BY <1>0, <1>8, <1>n DEF EndStep, TypeOK, Ahead, disk
<1>9. CASE RankSave
  <2>1. pc \in Training /\ pc' \in Training /\ tracker' = tracker /\ step' = step /\ pc' # "begin"
    BY <1>9, SavePlaces, SaveSplit, SavingStep, Constants DEF RankSave, EnsureCapacity, BarrierMade,
       BarrierWritten, Register, RemovedCheckpoint, BarrierSaved, MakeDir, OpenShard, CloseShard,
       RemoveShard, disk
  <2> QED BY <1>0, <2>1 DEF Ahead
<1>10. CASE DriverSave
  <2>1. CASE OpenData \/ CloseData
    BY <1>0, <2>1 DEF OpenData, CloseData, Ahead, loopVars
  <2>2. CASE OpenTracker
    BY <2>2, <1>n DEF OpenTracker, Ahead
  <2>3. CASE WriteTracker
    <3>1. pc = "tracking" /\ pc' = "next" /\ tracker' = step /\ step' = step
      BY <2>3 DEF WriteTracker, loopVars
    <3>2. step \in Steps /\ step \in Int
      BY <1>0, <1>n, <3>1 DEF Position
    <3> QED BY <1>n, <3>1, <3>2 DEF Ahead
  <2> QED BY <1>10, <2>1, <2>2, <2>3 DEF DriverSave
<1>11. CASE UNCHANGED vars
  BY <1>0, <1>11 DEF vars, loopVars, disk, Ahead
<1> QED BY <1>1, <1>2, <1>3, <1>4, <1>5, <1>6, <1>7, <1>8, <1>9, <1>10, <1>11, SaveSplit
        DEF Next, Run, Load, Loop

-----------------------------------------------------------------------------
(* What the disk holds *)

\* Outside a save the files and the lists of paths stay as they are.
LEMMA OutsideSave ==
  ASSUME StoreInv, Load \/ Loop \/ UNCHANGED vars
  PROVE  UNCHANGED <<previous, victims, shard, data, tracker>>
BY DEF Load, StartFresh, Resume, LoadFails, Loop, EnterLoop, TakeBatch, NextEpoch, EpochsOver,
   UpdateActor, EndStep, vars, saveVars, disk

\* Only UpdateActor enters a save.
LEMMA EntersSave ==
  ASSUME StoreInv, Load \/ Loop \/ Launch \/ Crash, pc' \in InSave
  PROVE  pc' = "save" /\ place' = [r \in Ranks |-> "enter"] /\ pc = "train"
BY DEF Load, StartFresh, Resume, LoadFails, Loop, EnterLoop, TakeBatch, NextEpoch, EpochsOver,
   UpdateActor, EndStep, Launch, Crash, InSave

\* How a step of the ranks' save moves the places.
LEMMA RankMoves ==
  ASSUME StoreInv, RankSave
  PROVE  /\ pc = "save" /\ UNCHANGED <<data, tracker>>
         /\ \A r \in Ranks : place'[r] \in RankPlace
         /\ BarrierSaved \/ pc' = "save"
BY SavingStep, Constants, GotoType DEF RankSave, EnsureCapacity, BarrierMade, BarrierWritten,
   Register, RemovedCheckpoint, BarrierSaved, MakeDir, OpenShard, CloseShard, RemoveShard, disk,
   StoreInv, TypeOK, RankPlace, Goto, saveVars

LEMMA WrittenNext ==
  ASSUME StoreInv, Automatic, [Next]_vars
  PROVE  Written'
<1>0. TypeOK /\ Phases /\ Written
  BY DEF StoreInv
<1> DEFINE Good(r) == shard[step][r] = [run |-> launch, updates |-> step]
           Late == {"written", "register", "saved"}
<1>1. CASE Launch \/ Crash \/ Load \/ Loop
  BY <1>1, EntersSave DEF Written, InSave
<1>2. CASE UNCHANGED vars
  BY <1>0, <1>2 DEF vars, loopVars, saveVars, disk, Written, Uniform
<1>3. CASE RankSave
  <2>0. pc = "save" /\ UNCHANGED <<launch, step, yielded>> /\ step \in Steps
    BY <1>3, RankMoves, SavePlaces, SaveSplit, SavingStep DEF InSave
  <2>1. \A r \in Ranks : place[r] \in Late => Good(r)
    BY <1>0, <2>0 DEF Written
  <2>2. /\ pc' = "save" /\ (\A r \in Ranks : place'[r] \in Late => Good(r)') => Written'
        /\ pc' = "data" /\ Uniform(shard[step], launch, step)' => Written'
    BY DEF Written
  <2>3. CASE EnsureCapacity
    <3>1. pc' = "save" /\ shard' = shard /\ \E p \in {"trim", "made"} : Goto(Chief, p)
      BY <2>0, <2>3 DEF EnsureCapacity, disk
    <3>2. \A r \in Ranks : place'[r] \in Late => place[r] = place'[r]
      BY <1>0, <3>1, GotoType, Constants DEF RankPlace
    <3> QED BY <2>0, <2>1, <2>2, <3>1, <3>2
  <2>4. CASE BarrierMade
    BY <2>0, <2>2, <2>4 DEF BarrierMade, disk
  <2>5. CASE BarrierWritten
    BY <2>0, <2>1, <2>2, <2>5 DEF BarrierWritten, Together, disk
  <2>6. CASE Register
    <3>1. pc' = "save" /\ shard' = shard /\ Goto(Chief, "saved") /\ place[Chief] = "register"
      BY <2>0, <2>6, Registers DEF Register, disk
    <3>2. \A r \in Ranks : place'[r] \in Late => place[r] \in Late
      BY <1>0, <3>1, GotoType, Constants DEF RankPlace
    <3> QED BY <2>0, <2>1, <2>2, <3>1, <3>2
  <2>7. CASE RemovedCheckpoint
    <3>1. pc' = "save" /\ shard' = shard /\ (UNCHANGED place \/ Goto(Chief, "made"))
      BY <2>0, <2>7, SavingStep DEF RemovedCheckpoint, disk
    <3>2. \A r \in Ranks : place'[r] \in Late => place[r] \in Late
      BY <1>0, <3>1, GotoType, Constants DEF RankPlace
    <3> QED BY <2>0, <2>1, <2>2, <3>1, <3>2
  <2>8. CASE BarrierSaved
    <3>1. \A r \in Ranks : Good(r)
      BY <2>1, <2>8 DEF BarrierSaved, Together
    <3>2. shard[step] = [r \in Ranks |-> shard[step][r]]
      BY <1>0, <2>0 DEF TypeOK
    <3>3. Uniform(shard[step], launch, step)
      BY <3>1, <3>2 DEF Uniform
    <3>4. pc' = "data" /\ shard' = shard
      BY <2>8 DEF BarrierSaved, disk
    <3> QED BY <2>0, <2>2, <3>3, <3>4 DEF Uniform
  <2>9. ASSUME NEW r \in Ranks, MakeDir(r) PROVE Written'
    <3>1. pc' = "save" /\ shard' = shard /\ Goto(r, "made")
      BY <2>0, <2>9 DEF MakeDir, disk
    <3>2. \A q \in Ranks : place'[q] \in Late => place[q] \in Late
      BY <1>0, <3>1, GotoType DEF RankPlace
    <3> QED BY <2>0, <2>1, <2>2, <3>1, <3>2
  <2>10. ASSUME NEW r \in Ranks, OpenShard(r) PROVE Written'
    <3>1. pc' = "save" /\ Goto(r, "writing")
      BY <2>0, <2>10 DEF OpenShard
    <3>2. place'[r] = "writing" /\ \A q \in Ranks : q # r => place'[q] = place[q]
      BY <1>0, <3>1, GotoType DEF RankPlace
    <3>3. \A q \in Ranks : q # r => shard'[step][q] = shard[step][q]
      BY <1>0, <2>0, <2>10, WritesShard, ShardType
    <3> QED BY <2>0, <2>1, <2>2, <3>1, <3>2, <3>3
  <2>11. ASSUME NEW r \in Ranks, CloseShard(r) PROVE Written'
    <3>1. pc' = "save" /\ Goto(r, "written")
      BY <2>0, <2>11 DEF CloseShard
    <3>2. \A q \in Ranks : q # r => place'[q] = place[q]
      BY <1>0, <3>1, GotoType DEF RankPlace
    <3>3. shard' = [shard EXCEPT ![step][r] = [run |-> launch, updates |-> step]]
      BY <2>11, WritesShard
    <3>4. [run |-> launch, updates |-> step] \in Content
      BY <1>0, <2>0, Constants DEF TypeOK, Content, Steps
    <3>5. /\ shard'[step][r] = [run |-> launch, updates |-> step]
          /\ \A q \in Ranks : q # r => shard'[step][q] = shard[step][q]
      BY <1>0, <2>0, <3>3, <3>4, ShardType
    <3> QED BY <2>0, <2>1, <2>2, <3>1, <3>2, <3>5
  <2>12. ASSUME NEW r \in Ranks, RemoveShard(r) PROVE Written'
    <3>1. pc' = "save" /\ UNCHANGED place
      BY <2>0, <2>12 DEF RemoveShard, saveVars
    <3>2. Head(victims) \in Steps /\ Head(victims) # step
      <4>1. /\ Head(victims) \in Steps /\ tracker \in Steps
            /\ Head(victims) < tracker /\ tracker < step
        BY <2>12, RemovesShard
      <4>2. Steps \subseteq Int
        BY DEF Steps
      <4>3. \A a, b, c \in Int : a < b /\ b < c => a # c
        OBVIOUS
      <4> QED BY <2>0, <4>1, <4>2, <4>3, Zenon
    <3>3. shard'[step] = shard[step]
      BY <1>0, <2>0, <2>12, <3>2, RemovesShard, ShardType
    <3> QED BY <2>0, <2>1, <2>2, <3>1, <3>3
  <2> QED BY <1>3, <2>3, <2>4, <2>5, <2>6, <2>7, <2>8, <2>9, <2>10, <2>11, <2>12 DEF RankSave
<1>4. CASE DriverSave
  <2>0. UNCHANGED <<launch, step, yielded, shard>> /\ pc \in InSave \ {"save"} /\ step \in Steps
    BY <1>4, SavingStep DEF DriverSave, OpenData, CloseData, OpenTracker, WriteTracker, InSave, loopVars
  <2>1. Uniform(shard[step], launch, step)'
    BY <1>0, <2>0 DEF Written, Uniform
  <2>2. pc' \in {"track", "tracking"} => data'[step] = [run |-> launch, yielded |-> yielded]
    <3>1. CASE OpenData
      BY <3>1 DEF OpenData
    <3>2. CASE CloseData
      BY <1>0, <2>0, <3>2 DEF CloseData, TypeOK
    <3>3. CASE OpenTracker \/ WriteTracker
      <4>1. pc \in {"track", "tracking"} /\ data' = data
        BY <3>3 DEF OpenTracker, WriteTracker
      <4> QED BY <1>0, <4>1 DEF Written
    <3> QED BY <1>4, <3>1, <3>2, <3>3 DEF DriverSave
  <2>3. pc' # "save"
    BY <1>4 DEF DriverSave, OpenData, CloseData, OpenTracker, WriteTracker
  <2> QED BY <2>0, <2>1, <2>2, <2>3 DEF Written
<1> QED BY <1>1, <1>2, <1>3, <1>4, SaveSplit DEF Next, Run

\* Outside EnsureCapacity, Register and RemovedCheckpoint the chief's place
\* moves on its own side of what the paths depend on.
LEMMA ChiefMoves ==
  ASSUME StoreInv, Automatic, RankSave
  PROVE  /\ EnsureCapacity \/ Register \/ previous' = previous
         /\ EnsureCapacity \/ RemovedCheckpoint \/ victims' = victims
         /\ place'[Chief] \in {"enter", "trim"} => place[Chief] \in {"enter", "trim"}
         /\ ~EnsureCapacity => /\ place'[Chief] = "enter" <=> place[Chief] = "enter"
                               /\ place'[Chief] = "trim" => place[Chief] = "trim"
         /\ ~RemovedCheckpoint /\ place[Chief] = "trim" => place'[Chief] = "trim"
         /\ ~Register => (Registered' <=> Registered)
<1>0. TypeOK /\ Phases
  BY DEF StoreInv
<1>c. Chief \in Ranks /\ pc = "save"
  BY Constants, RankMoves
<1>1. CASE EnsureCapacity
  <2>1. pc' = pc /\ place[Chief] = "enter" /\ \E p \in {"trim", "made"} : Goto(Chief, p)
    BY <1>1 DEF EnsureCapacity
  <2>2. place'[Chief] \in {"trim", "made"}
    BY <1>0, <1>c, <2>1, GotoType DEF RankPlace
  <2> QED BY <1>1, <1>c, <2>1, <2>2 DEF Registered, InSave
<1>2. CASE BarrierMade \/ BarrierWritten
  BY <1>2, <1>c DEF BarrierMade, BarrierWritten, Together, Registered, InSave
<1>3. CASE Register
  <2>1. place[Chief] = "register" /\ Goto(Chief, "saved") /\ victims' = victims
    BY <1>3, Registers DEF Register
  <2>2. place'[Chief] = "saved"
    BY <1>0, <1>c, <2>1, GotoType DEF RankPlace
  <2> QED BY <1>3, <2>1, <2>2
<1>4. CASE RemovedCheckpoint
  <2>1. /\ pc' = pc /\ place[Chief] = "trim" /\ previous' = previous
        /\ UNCHANGED place \/ Goto(Chief, "made")
    BY <1>4, SavingStep DEF RemovedCheckpoint
  <2>2. place'[Chief] \in {"trim", "made"}
    BY <1>0, <1>c, <2>1, GotoType DEF RankPlace
  <2> QED BY <1>4, <1>c, <2>1, <2>2 DEF Registered, InSave
<1>5. CASE BarrierSaved
  BY <1>5, <1>c DEF BarrierSaved, Together, Registered, InSave
<1>6. ASSUME NEW r \in Ranks, MakeDir(r)
      PROVE  pc' = pc /\ place'[Chief] = place[Chief] /\ UNCHANGED <<previous, victims>>
  BY <1>0, <1>6, <1>c, GotoType DEF MakeDir, RankPlace
<1>7. ASSUME NEW r \in Ranks, OpenShard(r) \/ CloseShard(r)
      PROVE  /\ pc' = pc /\ UNCHANGED <<previous, victims>>
             /\ \/ place'[Chief] = place[Chief]
                \/ place[Chief] \in {"write", "writing"} /\ place'[Chief] \in {"writing", "written"}
  BY <1>0, <1>7, <1>c, GotoType DEF OpenShard, CloseShard, RankPlace
<1>8. ASSUME NEW r \in Ranks, RemoveShard(r)
      PROVE  pc' = pc /\ UNCHANGED <<place, previous, victims>>
  BY <1>8 DEF RemoveShard, saveVars
<1>9. CASE \E r \in Ranks : MakeDir(r) \/ OpenShard(r) \/ CloseShard(r) \/ RemoveShard(r)
  BY <1>9, <1>6, <1>7, <1>8, <1>c DEF Registered, InSave
<1> QED BY <1>1, <1>2, <1>3, <1>4, <1>5, <1>9 DEF RankSave

\* The older half of an increasing list is below its last element.
LEMMA VictimsAreOldNext ==
  ASSUME StoreInv, Automatic, [Next]_vars
  PROVE  VictimsAreOld'
<1>0. TypeOK /\ Phases /\ Paths /\ VictimsAreOld /\ Chief \in Ranks
  BY Constants DEF StoreInv
<1>1. CASE Launch \/ Crash
  <2>1. victims' = <<>> /\ place'[Chief] = "idle"
    BY <1>0, <1>1 DEF Launch, Crash, NewProcess
  <2> QED BY <2>1 DEF VictimsAreOld
<1>2. CASE Load \/ Loop \/ UNCHANGED vars
  <2>1. UNCHANGED <<victims, tracker>>
    BY <1>2, OutsideSave
  <2>2. place' = place \/ (place[Chief] = "idle")
    BY <1>0, <1>2 DEF Load, StartFresh, Resume, LoadFails, Loop, EnterLoop, TakeBatch, NextEpoch,
       EpochsOver, UpdateActor, EndStep, vars, saveVars, Phases, Together
  <2>3. place[Chief] # "trim" => victims = <<>>
    BY <1>0 DEF VictimsAreOld
  <2> QED BY <1>0, <2>1, <2>2, <2>3 DEF VictimsAreOld
<1>3. CASE EnsureCapacity
  <2>1. place[Chief] = "enter" /\ victims = <<>> /\ tracker' = tracker /\ pc = "save"
    BY <1>0, <1>3, RankMoves DEF EnsureCapacity, RankSave, VictimsAreOld, disk
  <2>2. CASE MaxKeep > 1 /\ Len(previous) >= MaxKeep
    <3>1. /\ previous \in Seq(Steps) /\ Len(previous) \in Nat /\ MaxKeep \in Nat
          /\ Len(victims') = Len(previous) - MaxKeep + 1
          /\ \A i \in 1 .. Len(victims') : victims'[i] = previous[i]
      BY <1>0, <1>3, <2>2, Trimmed, Constants DEF TypeOK
    <3>2. previous # <<>> /\ Len(previous) \in 1 .. Len(previous)
      BY <2>2, <3>1
    <3>3. previous[Len(previous)] = tracker /\ tracker \in Steps
      BY <1>0, <2>1, <3>1, <3>2 DEF Paths, Registered, InSave
    <3>4. \A i \in 1 .. Len(victims') : i \in 1 .. Len(previous) /\ i < Len(previous)
      BY <2>2, <3>1
    <3>5. \A i \in 1 .. Len(victims') : victims'[i] < tracker
      BY <1>0, <3>1, <3>2, <3>3, <3>4 DEF Paths
    <3>6. place'[Chief] = "trim"
      BY <1>0, <1>3, <2>2, GotoType DEF EnsureCapacity, RankPlace
    <3> QED BY <2>1, <3>3, <3>5, <3>6 DEF VictimsAreOld
  <2>3. CASE ~(MaxKeep > 1 /\ Len(previous) >= MaxKeep)
    <3>1. victims' = <<>>
      BY <1>3, <2>1, <2>3 DEF EnsureCapacity
    <3> QED BY <3>1 DEF VictimsAreOld
  <2> QED BY <2>2, <2>3
<1>4. CASE RemovedCheckpoint
  <2>1. /\ tracker' = tracker /\ victims' = Tail(victims)
        /\ victims \in Seq(Steps) /\ victims # <<>> /\ place[Chief] = "trim"
        /\ Len(victims) # 1 => place' = place
    BY <1>0, <1>4, SavingStep DEF RemovedCheckpoint, TypeOK, disk
  <2>2. /\ Len(victims) \in Nat \ {0} /\ Len(victims') = Len(victims) - 1
        /\ \A i \in 1 .. Len(victims') : victims'[i] = victims[i + 1]
        /\ Len(victims) = 1 => victims' = <<>>
    BY <2>1
  <2>3. \A i \in 1 .. Len(victims') : i + 1 \in 1 .. Len(victims)
    BY <2>2
  <2>4. \A i \in 1 .. Len(victims') : tracker' \in Steps /\ victims'[i] < tracker'
    BY <1>0, <2>1, <2>2, <2>3 DEF VictimsAreOld
  <2> QED BY <2>1, <2>2, <2>4 DEF VictimsAreOld
<1>5. CASE RankSave /\ ~EnsureCapacity /\ ~RemovedCheckpoint
  <2>1. UNCHANGED <<victims, tracker>> /\ (place[Chief] = "trim" => place'[Chief] = "trim")
    BY <1>5, ChiefMoves, RankMoves
  <2> QED BY <1>0, <2>1 DEF VictimsAreOld
<1>6. CASE DriverSave
  <2>1. victims' = victims /\ pc # "save" /\ place' = place
    BY <1>6 DEF DriverSave, OpenData, CloseData, OpenTracker, WriteTracker, saveVars
  <2>2. place[Chief] = "idle"
    BY <1>0, <2>1 DEF Phases, Together
  <2>3. victims' = <<>>
    BY <1>0, <2>1, <2>2 DEF VictimsAreOld
  <2> QED BY <2>3 DEF VictimsAreOld
<1> QED BY <1>1, <1>2, <1>3, <1>4, <1>5, <1>6, SaveSplit DEF Next, Run

LEMMA TrackedIsWholeNext ==
  ASSUME StoreInv, Automatic, [Next]_vars
  PROVE  TrackedIsWhole'
<1>0. TypeOK /\ Position /\ Ahead /\ Written /\ TrackedIsWhole
  BY DEF StoreInv
<1>e. Empty \notin Steps /\ Steps \subseteq Int
  BY CheckpointAssumption DEF Steps
\* It is enough that the step does not touch the checkpoint.
<1>k. ASSUME tracker' = tracker,
             tracker \in Steps => shard'[tracker] = shard[tracker] /\ data'[tracker] = data[tracker]
      PROVE  TrackedIsWhole'
  BY <1>0, <1>k DEF TrackedIsWhole, Uniform
<1>1. CASE Launch \/ Crash
  BY <1>k, <1>1 DEF Launch, Crash, disk
<1>2. CASE Load \/ Loop \/ UNCHANGED vars
  BY <1>k, <1>2, OutsideSave
<1>3. CASE RankSave
  <2>1. UNCHANGED <<data, tracker>> /\ pc = "save"
    BY <1>3, RankMoves
  <2>2. CASE shard' = shard
    BY <1>k, <2>1, <2>2
  <2>3. tracker \in Steps => tracker # step
    BY <1>0, <1>e, <2>1 DEF Ahead, Training
  <2>4. ASSUME NEW r \in Ranks, OpenShard(r) \/ CloseShard(r) PROVE TrackedIsWhole'
    <3>1. tracker \in Steps => shard'[tracker] = shard[tracker]
      BY <1>0, <2>3, <2>4, WritesShard, ShardType
    <3> QED BY <1>k, <2>1, <3>1
  <2>5. ASSUME NEW r \in Ranks, RemoveShard(r) PROVE TrackedIsWhole'
    <3>1. Head(victims) \in Steps /\ Head(victims) # tracker
      <4>1. Head(victims) \in Steps /\ tracker \in Steps /\ Head(victims) < tracker
        BY <2>5, RemovesShard
      <4>2. \A a, b \in Int : a < b => a # b
        OBVIOUS
      <4> QED BY <1>e, <4>1, <4>2, Zenon
    <3>2. tracker \in Steps => shard'[tracker] = shard[tracker]
      BY <1>0, <2>5, <3>1, RemovesShard, ShardType
    <3> QED BY <1>k, <2>1, <3>2
  <2>6. \/ shard' = shard
        \/ \E r \in Ranks : OpenShard(r) \/ CloseShard(r) \/ RemoveShard(r)
    BY <1>3 DEF RankSave, EnsureCapacity, BarrierMade, BarrierWritten, Register, RemovedCheckpoint,
       BarrierSaved, MakeDir, disk
  <2> QED BY <2>2, <2>4, <2>5, <2>6
<1>4. CASE OpenData \/ CloseData
  <2>1. tracker' = tracker /\ shard' = shard /\ pc \in {"data", "dataing"}
    BY <1>4 DEF OpenData, CloseData
  <2>2. tracker \in Steps => tracker # step
    BY <1>0, <1>e, <2>1 DEF Ahead, Training
  <2>3. tracker \in Steps => data'[tracker] = data[tracker]
    BY <1>0, <1>4, <2>2 DEF OpenData, CloseData, TypeOK
  <2> QED BY <1>k, <2>1, <2>3
<1>5. CASE OpenTracker
  BY <1>5, <1>e DEF OpenTracker, TrackedIsWhole
<1>6. CASE WriteTracker
  <2>1. /\ tracker' = step /\ UNCHANGED <<shard, data>> /\ pc = "tracking"
        /\ launch \in Runs /\ yielded \in 0 .. EpochLength
    BY <1>0, <1>6 DEF WriteTracker, TypeOK
  <2>2. Uniform(shard[step], launch, step) /\ data[step] = [run |-> launch, yielded |-> yielded]
    BY <1>0, <2>1 DEF Written, InSave
  <2>3. PICK k \in 0 .. epoch : step = k * EpochLength + yielded
    BY <1>0, <2>1 DEF Position, InPass, InSave
  <2>4. k \in 0 .. Epochs
    BY <1>0, Constants DEF TypeOK
  <2> QED BY <2>1, <2>2, <2>3, <2>4 DEF TrackedIsWhole, Uniform
<1> QED BY <1>1, <1>2, <1>3, <1>4, <1>5, <1>6, SaveSplit DEF Next, Run, DriverSave

LEMMA PathsNext ==
  ASSUME StoreInv, Automatic, [Next]_vars
  PROVE  Paths'
<1>0. TypeOK /\ Phases /\ Position /\ Ahead /\ Paths /\ Chief \in Ranks
  BY Constants DEF StoreInv
<1>c. /\ previous \in Seq(Steps) /\ Len(previous) \in Nat
      /\ MaxKeep \in Nat /\ MaxKeep # 1 /\ Steps \subseteq Int
  BY <1>0, Constants DEF TypeOK, Automatic, Steps
<1>1. CASE Launch \/ Crash
  <2>1. previous' = <<>> /\ pc' # "save"
    BY <1>1 DEF Launch, Crash, NewProcess
  <2> QED BY <2>1 DEF Paths
<1>2. CASE Load \/ Loop
  <2>1. UNCHANGED <<previous, tracker>>
    BY <1>2, OutsideSave
  <2>2. ~Registered
    BY <1>2 DEF Load, StartFresh, Resume, LoadFails, Loop, EnterLoop, TakeBatch, NextEpoch,
       EpochsOver, UpdateActor, EndStep, Registered, InSave
  <2>3. pc' \in InSave => pc' = "save" /\ place'[Chief] = "enter"
    BY <1>0, <1>2, EntersSave
  <2>4. ~Registered' /\ pc' # "load"
    BY <1>2, <2>3 DEF Load, StartFresh, Resume, LoadFails, Loop, EnterLoop, TakeBatch, NextEpoch,
       EpochsOver, UpdateActor, EndStep, Registered, InSave
  <2> QED BY <1>0, <2>1, <2>2, <2>3, <2>4 DEF Paths, InSave
<1>3. CASE UNCHANGED vars
  BY <1>0, <1>3 DEF vars, loopVars, saveVars, disk, Paths, Registered, InSave
<1>4. CASE EnsureCapacity
  <2>1. /\ place[Chief] = "enter" /\ pc = "save" /\ pc' = "save" /\ tracker' = tracker
        /\ ~Registered /\ (Registered' <=> Registered)
    BY <1>4, RankMoves, ChiefMoves DEF EnsureCapacity, RankSave, Register, Registered, InSave
  <2>2. CASE MaxKeep > 1 /\ Len(previous) >= MaxKeep
    <3> DEFINE n == Len(previous) - MaxKeep + 1
    <3>1. /\ previous' \in Seq(Steps) /\ Len(previous') = MaxKeep - 1
          /\ \A i \in 1 .. MaxKeep - 1 : previous'[i] = previous[n + i]
      BY <1>4, <2>2, Trimmed
    <3>2. /\ n \in Nat /\ n + (MaxKeep - 1) = Len(previous) /\ Len(previous) \in 1 .. Len(previous)
          /\ MaxKeep - 1 \in 1 .. MaxKeep - 1
          /\ \A i \in 1 .. MaxKeep - 1 : n + i \in 1 .. Len(previous)
      BY <1>c, <2>2
    <3> HIDE DEF n
    <3>3. \A i, j \in 1 .. Len(previous') : i < j => previous'[i] < previous'[j]
      BY <1>0, <3>1, <3>2 DEF Paths
    <3>4. previous'[Len(previous')] = tracker'
      <4>1. previous # <<>> /\ previous[Len(previous)] = tracker
        BY <1>0, <2>1, <3>2 DEF Paths
      <4>2. previous'[MaxKeep - 1] = previous[n + (MaxKeep - 1)]
        BY <3>1, <3>2, Zenon
      <4> QED BY <2>1, <3>1, <3>2, <4>1, <4>2
    <3> QED BY <1>c, <2>1, <3>1, <3>3, <3>4 DEF Paths
  <2>3. CASE ~(MaxKeep > 1 /\ Len(previous) >= MaxKeep)
    <3>1. previous' = previous
      BY <1>4, <2>3 DEF EnsureCapacity
    <3>2. MaxKeep > 0 => Len(previous) < MaxKeep
      BY <1>c, <2>3
    <3> QED BY <1>0, <2>1, <3>1, <3>2 DEF Paths
  <2> QED BY <2>2, <2>3
<1>5. CASE Register
  <2>1. /\ previous' = Append(previous, step) /\ step \in Steps
        /\ pc = "save" /\ pc' = "save" /\ place'[Chief] = "saved"
        /\ tracker' = tracker /\ step' = step
    BY <1>0, <1>5, Registers, GotoType DEF Register, RankPlace, disk, loopVars
  <2>2. ~Registered
    BY <1>5, <2>1 DEF Registered, Register, InSave
  <2>3. \A i \in 1 .. Len(previous) : previous[i] < step
    <3> SUFFICES ASSUME NEW i \in 1 .. Len(previous) PROVE previous[i] < step
      OBVIOUS
    <3>1. /\ previous # <<>> /\ Len(previous) \in 1 .. Len(previous)
          /\ i = Len(previous) \/ i < Len(previous)
          /\ previous[i] \in Steps /\ previous[Len(previous)] \in Steps
      BY <1>c
    <3>2. previous[Len(previous)] = tracker
      BY <1>0, <2>2, <3>1 DEF Paths
    <3>3. tracker \in Steps /\ tracker < step
      BY <1>0, <2>1, <3>1, <3>2 DEF Ahead, Training
    <3>4. previous[i] = tracker \/ previous[i] < tracker
      BY <1>0, <3>1, <3>2 DEF Paths
    <3>5. \A a, b, c \in Int : (a = b \/ a < b) /\ b < c => a < c
      OBVIOUS
    <3> QED BY <1>c, <2>1, <3>1, <3>3, <3>4, <3>5, Zenon
  <2>4. /\ Len(previous') = Len(previous) + 1
        /\ \A i \in 1 .. Len(previous) : previous'[i] = previous[i]
        /\ previous'[Len(previous) + 1] = step
    BY <1>c, <2>1
  <2>5. \A i, j \in 1 .. Len(previous') : i < j => previous'[i] < previous'[j]
    <3> SUFFICES ASSUME NEW i \in 1 .. Len(previous'), NEW j \in 1 .. Len(previous'), i < j
                 PROVE  previous'[i] < previous'[j]
      OBVIOUS
    <3>1. i \in 1 .. Len(previous) /\ (j \in 1 .. Len(previous) \/ j = Len(previous) + 1)
      BY <1>c, <2>4
    <3>2. CASE j \in 1 .. Len(previous)
      BY <1>0, <2>4, <3>1, <3>2 DEF Paths
    <3>3. CASE j = Len(previous) + 1
      BY <2>3, <2>4, <3>1, <3>3
    <3> QED BY <3>1, <3>2, <3>3
  <2>6. Registered'
    BY <2>1 DEF Registered
  <2>7. previous'[Len(previous')] = step'
    BY <2>1, <2>4
  <2> QED BY <2>1, <2>5, <2>6, <2>7 DEF Paths
<1>6. CASE RankSave /\ ~EnsureCapacity /\ ~Register
  <2>1. /\ UNCHANGED <<previous, tracker, step>> /\ (Registered' <=> Registered) /\ pc = "save"
        /\ place'[Chief] = "enter" <=> place[Chief] = "enter"
    BY <1>6, RankMoves, ChiefMoves, SaveFrame, SaveSplit
  <2>2. pc' = "save" => (place'[Chief] = "saved" <=> place[Chief] = "saved")
    BY <2>1 DEF Registered, InSave
  <2>3. pc' # "load"
    BY <1>6, SavePlaces, SaveSplit DEF InSave
  <2> QED BY <1>0, <2>1, <2>2, <2>3 DEF Paths
<1>7. CASE DriverSave
  <2>1. /\ UNCHANGED <<previous, step>> /\ pc' \notin {"save", "load"} /\ Registered
        /\ (Registered' /\ tracker' \in {tracker, Empty}) \/ (~Registered' /\ tracker' = step)
    BY <1>7 DEF DriverSave, OpenData, CloseData, OpenTracker, WriteTracker, loopVars, saveVars,
       Registered, InSave
  <2> QED BY <1>0, <2>1 DEF Paths
<1> QED BY <1>1, <1>2, <1>3, <1>4, <1>5, <1>6, <1>7, SaveSplit DEF Next, Run

-----------------------------------------------------------------------------
LEMMA StoreInvInit == Init => StoreInv
<1> SUFFICES ASSUME Init PROVE StoreInv
  OBVIOUS
<1>1. TypeOK
  BY InitTypeOK
<1>2. Phases /\ Position /\ Ahead /\ Written
  BY CheckpointAssumption DEF Init, Phases, Together, Position, Ahead, Written, InSave, Training
<1>3. ModelIs
  BY DEF Init, ModelIs, Uniform, Base, InSave
<1>4. Paths /\ VictimsAreOld
  BY DEF Init, Paths, VictimsAreOld
<1>5. TrackedIsWhole
  BY CheckpointAssumption DEF Init, TrackedIsWhole, Steps
<1> QED BY <1>1, <1>2, <1>3, <1>4, <1>5 DEF StoreInv

LEMMA StoreInvNext == StoreInv /\ Automatic /\ [Next]_vars => StoreInv'
<1> SUFFICES ASSUME StoreInv, Automatic, [Next]_vars PROVE StoreInv'
  OBVIOUS
<1> QED
  BY NextTypeOK, PhasesNext, PositionNext, ModelIsNext, AheadNext, WrittenNext, PathsNext,
     VictimsAreOldNext, TrackedIsWholeNext DEF StoreInv

LEMMA StoreInvAlways == Automatic => (Spec => []StoreInv)
<1>1. Automatic => Automatic'
  BY DEF Automatic
<1> QED BY <1>1, StoreInvInit, StoreInvNext, PTL DEF Spec

\* Launches that resume automatically keep every variable in its type: no loop
\* runs past the last batch of a pass or the last step of the last epoch.
THEOREM TypeCorrect == Automatic => (Spec => []TypeOK)
<1>1. StoreInv => TypeOK
  BY DEF StoreInv
<1> QED BY <1>1, StoreInvAlways, PTL

\* Whatever the number of ranks, of crashes, the save frequency and the number
\* of checkpoints kept, the tracker only ever names a checkpoint of which one
\* save wrote every shard and the dataloader state.
THEOREM TrackedStaysComplete == Automatic => (Spec => []TrackedIsComplete)
<1>1. StoreInv => TrackedIsComplete
  <2> SUFFICES ASSUME StoreInv, tracker \in Steps PROVE Complete(tracker)
    BY DEF TrackedIsComplete
  <2> QED BY DEF StoreInv, TrackedIsWhole, Complete, Uniform
<1> QED BY <1>1, StoreInvAlways, PTL

\* A launch only fails to load in the state its predecessor leaves when it dies
\* inside the write of the tracker: no save, retention or resume before that
\* makes a checkpoint that does not load.
THEOREM LaunchesLoad == Automatic => (Spec => []FailsOnlyOnTornTracker)
<1>1. Init => FailsOnlyOnTornTracker
  BY DEF Init, FailsOnlyOnTornTracker
<1>2. ASSUME StoreInv, FailsOnlyOnTornTracker, [Next]_vars PROVE FailsOnlyOnTornTracker'
  <2>1. CASE LoadFails
    <3>1. tracker' = tracker /\ tracker # None /\ tracker \in Steps \cup {None, Empty}
      BY <1>2, <2>1 DEF LoadFails, StoreInv, TypeOK, disk
    <3>2. tracker \notin Steps
      <4> SUFFICES ASSUME tracker \in Steps PROVE FALSE
        OBVIOUS
      <4>1. PICK run \in Runs, y \in 0 .. EpochLength :
              /\ Uniform(shard[tracker], run, tracker)
              /\ data[tracker] = [run |-> run, yielded |-> y]
        BY <1>2 DEF StoreInv, TrackedIsWhole
      <4>2. [run |-> run, updates |-> tracker] \in Content
        BY Constants DEF Content, Steps
      <4>3. \A r \in Ranks : shard[tracker][r] \notin {None, Torn, Mixed}
        BY <4>1, <4>2, CheckpointAssumption DEF Uniform
      <4>4. [run |-> run, yielded |-> y] \in DataState
        BY DEF DataState
      <4>5. data[tracker] # Torn
        BY <4>1, <4>4, CheckpointAssumption
      <4> QED BY <2>1, <4>3, <4>5 DEF LoadFails
    <3> QED BY <3>1, <3>2 DEF FailsOnlyOnTornTracker
  <2>2. CASE Launch \/ Crash \/ StartFresh \/ Resume \/ Loop
    BY <2>2 DEF Launch, Crash, StartFresh, Resume, Loop, EnterLoop, TakeBatch, NextEpoch, EpochsOver,
       UpdateActor, EndStep, FailsOnlyOnTornTracker
  <2>3. CASE Save
    BY <1>2, <2>3, SavePlaces DEF FailsOnlyOnTornTracker, InSave
  <2>4. CASE UNCHANGED vars
    BY <1>2, <2>4 DEF vars, disk, FailsOnlyOnTornTracker
  <2> QED BY <1>2, <2>1, <2>2, <2>3, <2>4 DEF Next, Run, Load
<1> QED BY <1>1, <1>2, StoreInvAlways, PTL DEF Spec

-----------------------------------------------------------------------------
(* The refinement *)

LEMMA WholeIs ==
  ASSUME NEW f, NEW run \in Runs, NEW n \in 0 .. EpochLength * Epochs, Uniform(f, run, n)
  PROVE  Whole(f) = [run |-> run, updates |-> n] /\ Whole(f) \in Content
BY Constants DEF Whole, Uniform, Content

\* A step that leaves the tracked checkpoint alone does not change the copy.
LEMMA TrackedUntouched ==
  ASSUME StoreInv, Automatic, RankSave \/ OpenData \/ CloseData
  PROVE  tracker' = tracker /\ (tracker \in Steps => shard'[tracker] = shard[tracker])
<1>0. TypeOK /\ Ahead /\ Steps \subseteq Int
  BY DEF StoreInv, Steps
<1>1. CASE RankSave
  <2>1. tracker' = tracker /\ pc = "save"
    BY <1>1, RankMoves
  <2>2. tracker \in Steps => tracker # step
    BY <1>0, <2>1 DEF Ahead, Training
  <2>3. \/ shard' = shard
        \/ \E r \in Ranks : OpenShard(r) \/ CloseShard(r) \/ RemoveShard(r)
    BY <1>1 DEF RankSave, EnsureCapacity, BarrierMade, BarrierWritten, Register, RemovedCheckpoint,
       BarrierSaved, MakeDir, disk
  <2>4. ASSUME NEW r \in Ranks, OpenShard(r) \/ CloseShard(r), tracker \in Steps
        PROVE  shard'[tracker] = shard[tracker]
    BY <1>0, <2>2, <2>4, WritesShard, ShardType
  <2>5. ASSUME NEW r \in Ranks, RemoveShard(r)
        PROVE  shard'[tracker] = shard[tracker]
    <3>1. Head(victims) \in Steps /\ tracker \in Steps /\ Head(victims) < tracker
      BY <2>5, RemovesShard
    <3>2. \A a, b \in Int : a < b => a # b
      OBVIOUS
    <3>3. Head(victims) # tracker
      BY <1>0, <3>1, <3>2, Zenon
    <3> QED BY <1>0, <2>5, <3>1, <3>3, RemovesShard, ShardType
  <2> QED BY <2>1, <2>3, <2>4, <2>5
<1>2. CASE OpenData \/ CloseData
  BY <1>2 DEF OpenData, CloseData
<1> QED BY <1>1, <1>2

\* Every step of a launch is a step of the durable checkpoint or none.
LEMMA DurableNext ==
  ASSUME StoreInv, StoreInv', Automatic, [Next]_vars
  PROVE  [Durable!Next]_(Durable!durableVars)
<1> DEFINE Off == {"down", "load", "failed"}
           mem == IF pc \in Off THEN None ELSE Whole(model)
           sav == IF tracker \in Steps THEN Whole(shard[tracker]) ELSE tracker
<1>0. TypeOK /\ Position /\ ModelIs /\ Ahead /\ Written /\ TrackedIsWhole /\ mode = "auto"
  BY AutoMode DEF StoreInv
<1>e. None \notin Content /\ Empty \notin Steps /\ None \notin Steps /\ None # Empty
  BY CheckpointAssumption DEF Steps
<1>s. Steps = 1 .. EpochLength * Epochs /\ EpochLength * Epochs \in Nat /\ launch \in Runs
  BY <1>0, Constants DEF Steps, TypeOK
<1> USE DEF Durable!Next, Durable!durableVars
<1>w. (mem' = mem /\ sav' = sav) => [Durable!Next]_(Durable!durableVars)
  BY DEF Whole
<1>p. (mem' = None /\ sav' = sav) => [Durable!Next]_(Durable!durableVars)
  BY DEF Durable!Stop
<1>1. CASE Launch \/ Crash
  BY <1>p, <1>1 DEF Launch, Crash, disk
<1>2. CASE StartFresh
  <2>1. pc = "load" /\ pc' = "begin" /\ model' = model /\ UNCHANGED <<shard, tracker>> /\ tracker = None
    BY <1>0, <1>2 DEF StartFresh, disk
  <2>2. Uniform(model, 0, 0) /\ 0 \in Runs /\ 0 \in 0 .. EpochLength * Epochs
    BY <1>0, <1>s, <2>1, Constants DEF ModelIs, Runs
  <2>3. Whole(model) = Base
    BY <2>2, WholeIs DEF Base
  <2>4. mem = None /\ mem' = Base /\ sav = None /\ sav' = None
    BY <1>e, <2>1, <2>3 DEF Whole
  <2> QED BY <2>4 DEF Durable!StartFresh
<1>3. CASE LoadFails
  BY <1>w, <1>3 DEF LoadFails, disk
<1>4. CASE Resume
  <2>1. pc = "load" /\ pc' = "begin" /\ model' = shard[tracker] /\ UNCHANGED <<shard, tracker>> /\ tracker \in Steps
    BY <1>4 DEF Resume, disk
  <2>2. PICK run \in Runs : Uniform(shard[tracker], run, tracker)
    BY <1>4, Resumes
  <2>3. tracker \in 0 .. EpochLength * Epochs
    BY <1>s, <2>1
  <2>4. Whole(shard[tracker]) \in Content
    BY <2>2, <2>3, WholeIs
  <2>5. mem = None /\ sav \in Content /\ mem' = sav /\ sav' = sav
    BY <2>1, <2>4 DEF Whole
  <2> QED BY <2>5 DEF Durable!Restore
<1>5. CASE EnterLoop \/ TakeBatch \/ NextEpoch \/ EpochsOver \/ EndStep
  <2>1. /\ UNCHANGED <<model, shard, tracker>> /\ pc \notin Off /\ pc' \notin Off
    BY <1>5 DEF EnterLoop, TakeBatch, NextEpoch, EpochsOver, EndStep, disk
  <2> QED BY <1>w, <2>1 DEF Whole
<1>6. CASE UpdateActor
  <2>1. /\ pc = "train" /\ pc' \in {"save", "next"} /\ UNCHANGED <<shard, tracker, step, launch>>
    BY <1>6 DEF UpdateActor, disk, loopVars
  <2>2. PICK run \in Runs : Uniform(model, run, step - 1)
    BY <1>0, <2>1 DEF ModelIs
  <2>3. Uniform(model', launch, step)
    BY <2>1 DEF StoreInv, ModelIs, InSave
  <2>4. step \in 0 .. EpochLength * Epochs /\ step - 1 \in 0 .. EpochLength * Epochs /\ step - 1 + 1 = step
    BY <1>0, <1>s, <2>1 DEF Position
  <2>5. Whole(model) = [run |-> run, updates |-> step - 1] /\ Whole(model) \in Content
    BY <2>2, <2>4, WholeIs
  <2>6. Whole(model') = [run |-> launch, updates |-> step] /\ Whole(model') \in Content
    BY <1>s, <2>3, <2>4, WholeIs
  <2>7. mem = Whole(model) /\ mem' = Whole(model') /\ sav' = sav
    BY <2>1 DEF Whole
  <2>8. mem.updates = step - 1 /\ mem'.updates = step
    BY <2>5, <2>6, <2>7
  <2>9. mem' \in {c \in Content : c.updates = mem.updates + 1}
    BY <2>4, <2>6, <2>7, <2>8
  <2> QED BY <2>5, <2>7, <2>9 DEF Durable!Train
<1>7. CASE Save
  <2>1. pc \notin Off /\ pc' \notin Off /\ model' = model /\ mem = Whole(model) /\ mem' = Whole(model)
    BY <1>7, SavePlaces DEF InSave, Whole
  <2>2. PICK n \in 0 .. EpochLength * Epochs : n = step
    BY <1>0, <1>7, <1>s, SavePlaces DEF Position
  <2>3. Whole(model) \in Content /\ Whole(model) = [run |-> launch, updates |-> step]
    BY <1>0, <1>7, <1>s, <2>2, SavePlaces, WholeIs DEF ModelIs
  <2>4. CASE RankSave \/ OpenData \/ CloseData
    BY <1>w, <2>1, <2>4, TrackedUntouched
  <2>5. CASE OpenTracker
    <3>1. sav' = Empty
      BY <1>e, <2>5 DEF OpenTracker
    <3> QED BY <2>1, <2>3, <3>1 DEF Durable!Open
  <2>6. CASE WriteTracker
    <3>1. pc = "tracking" /\ tracker' = step /\ shard' = shard /\ step \in Steps
      BY <1>0, <2>6 DEF WriteTracker, Position, InSave
    <3>2. sav = Empty
      BY <1>0, <1>e, <3>1 DEF Ahead
    <3>3. Uniform(shard[step], launch, step)
      BY <1>0, <3>1 DEF Written, InSave
    <3>4. Whole(shard[step]) = [run |-> launch, updates |-> step]
      BY <1>s, <2>2, <3>3, WholeIs
    <3>5. sav' = Whole(shard[step])
      BY <3>1 DEF Whole
    <3> QED BY <2>1, <2>3, <3>2, <3>4, <3>5 DEF Durable!Commit
  <2> QED BY <1>7, <2>4, <2>5, <2>6, SaveSplit DEF DriverSave
<1>8. CASE UNCHANGED vars
  BY <1>w, <1>8 DEF vars, disk, Whole
<1> QED BY <1>1, <1>2, <1>3, <1>4, <1>5, <1>6, <1>7, <1>8 DEF Next, Run, Load, Loop

\* Saving, retention, crashes, torn files and resumes look like one durable
\* copy of the model, replaced as a whole and restored as a whole.
THEOREM ImplementsDurable == Automatic => (Spec => IsDurable)
<1>1. Init => Durable!Init
  BY CheckpointAssumption DEF Init, Durable!Init, Steps
<1>2. StoreInv /\ StoreInv' /\ Automatic /\ [Next]_vars => [Durable!Next]_(Durable!durableVars)
  BY DurableNext
<1>3. Automatic => Automatic'
  BY DEF Automatic
<1> QED BY <1>1, <1>2, <1>3, StoreInvAlways, PTL DEF Spec, IsDurable, Durable!Spec

-----------------------------------------------------------------------------
(* Where a resumed training goes on *)

LEMMA PassOfStep ==
  ASSUME NEW k \in Nat, NEW y \in 0 .. EpochLength - 1
  PROVE  (k * EpochLength + y) \div EpochLength = k
BY Constants

LEMMA WholePass ==
  ASSUME NEW k \in Nat
  PROVE  /\ k * EpochLength \in Nat /\ (k + 1) * EpochLength = k * EpochLength + EpochLength
         /\ Epochs * EpochLength = EpochLength * Epochs
BY Constants

LEMMA SkippedPass == Skipped \in {0, EpochLength} /\ (resumed' = resumed => Skipped' = Skipped)
BY DEF Skipped, PassEnds

\* No step within a pass is the end of one, and neither is step 0 or the last.
LEMMA NoPassEnd ==
  ASSUME NEW k \in Nat, NEW y \in 0 .. EpochLength - 1,
         y > 0 \/ k = 0 \/ k = Epochs
  PROVE  k * EpochLength + y \notin PassEnds
<1> SUFFICES ASSUME NEW j \in 1 .. Epochs - 1, k * EpochLength + y = j * EpochLength + 0
             PROVE  FALSE
  BY WholePass, Constants DEF PassEnds
<1>1. j \in Nat /\ 0 \in 0 .. EpochLength - 1 /\ Epochs \in Nat
  BY Constants
<1>2. (k * EpochLength + y) \div EpochLength = k /\ (j * EpochLength + 0) \div EpochLength = j
  BY <1>1, PassOfStep
<1>3. k = j
  BY <1>2
<1>4. y = 0
  <2>1. k * EpochLength \in Nat /\ k * EpochLength + y = k * EpochLength + 0
    BY <1>3, WholePass
  <2> QED BY <2>1
<1> QED BY <1>1, <1>3, <1>4

\* Where the loop begins after a resume: in the epoch of the last batch, or in the
\* next one when that batch ended its pass.
LEMMA EpochResumed ==
  ASSUME NEW n \in 0 .. EpochLength * Epochs, NEW y \in 0 .. EpochLength, GoesOn(n, y)
  PROVE  \E e \in Nat :
           /\ e = n \div EpochLength
           /\ n + (IF n \in PassEnds THEN EpochLength ELSE 0)
                = IF e < Epochs THEN e * EpochLength + y ELSE EpochLength * Epochs
<1>0. EpochLength \in Nat \ {0} /\ Epochs \in Nat /\ EpochLength * Epochs \in Nat
      /\ 0 \in 0 .. EpochLength - 1 /\ Epochs * EpochLength = EpochLength * Epochs
  BY Constants, WholePass
<1>1. CASE n = 0 /\ y = 0
  <2>1. 0 * EpochLength = 0 /\ EpochLength * 0 = 0
    BY <1>0
  <2>2. n \div EpochLength = 0 /\ n \notin PassEnds
    <3>1. n = 0 * EpochLength + 0
      BY <1>1, <2>1
    <3> QED BY <1>0, <3>1, PassOfStep, NoPassEnd
  <2>3. ~ (0 < Epochs) => EpochLength * Epochs = 0
    BY <1>0, <2>1
  <2> QED BY <1>1, <2>1, <2>2, <2>3
<1>2. CASE y > 0 /\ \E k \in 0 .. Epochs : n = k * EpochLength + y
  <2>1. PICK k \in 0 .. Epochs : n = k * EpochLength + y
    BY <1>2
  <2>2. k \in Nat /\ k * EpochLength \in Nat /\ (k + 1) * EpochLength = k * EpochLength + EpochLength
    BY <1>0, WholePass
  <2>3. k < Epochs
    <3>1. k # Epochs
      BY <1>0, <1>2, <2>1, <2>2
    <3> QED BY <1>0, <2>2, <3>1
  <2>4. CASE y = EpochLength
    <3>1. n = (k + 1) * EpochLength + 0 /\ n = (k + 1) * EpochLength /\ k + 1 \in Nat
      BY <1>0, <2>1, <2>2, <2>4
    <3>2. n \div EpochLength = k + 1
      BY <1>0, <3>1, PassOfStep
    <3>3. CASE k + 1 = Epochs
      <4>1. n \notin PassEnds
        BY <1>0, <3>1, <3>3, NoPassEnd
      <4>2. n = EpochLength * Epochs
        BY <1>0, <3>1, <3>3
      <4> QED BY <1>0, <3>1, <3>2, <3>3, <4>1, <4>2
    <3>4. CASE k + 1 # Epochs
      <4>1. k + 1 \in 1 .. Epochs - 1 /\ k + 1 < Epochs
        BY <1>0, <2>2, <2>3, <3>4
      <4>2. n \in PassEnds
        BY <3>1, <4>1 DEF PassEnds
      <4> QED BY <2>4, <3>1, <3>2, <4>1, <4>2
    <3> QED BY <3>3, <3>4
  <2>5. CASE y # EpochLength
    <3>1. y \in 0 .. EpochLength - 1
      BY <1>0, <2>5
    <3>2. n \div EpochLength = k /\ n \notin PassEnds
      BY <1>2, <2>1, <2>2, <3>1, PassOfStep, NoPassEnd
    <3> QED BY <2>1, <2>2, <2>3, <3>2
  <2> QED BY <2>4, <2>5
<1> QED BY <1>1, <1>2 DEF GoesOn

LEMMA AlignedInit == Init => Aligned
BY CheckpointAssumption DEF Init, Aligned, InSave, Steps

LEMMA LoopAligned ==
  ASSUME StoreInv, Aligned, Loop
  PROVE  Aligned'
<1>0. /\ TypeOK /\ Position
      /\ tracker' = tracker /\ data' = data /\ EpochLength \in Nat \ {0} /\ Epochs \in Nat
      /\ step \in Nat /\ epoch \in Nat /\ yielded \in 0 .. EpochLength
      /\ EpochLength * Epochs \in Nat /\ epoch * EpochLength \in Nat
  BY OutsideSave, Constants DEF StoreInv, TypeOK
<1>t. tracker' \in Steps => GoesOn(tracker', data'[tracker'].yielded)
  BY <1>0 DEF Aligned
<1>r. resumed' = resumed /\ Skipped' = Skipped /\ Skipped \in Nat
  BY <1>0, SkippedPass
     DEF Loop, EnterLoop, TakeBatch, NextEpoch, EpochsOver, UpdateActor, EndStep, loopVars
<1> USE DEF InSave
<1>1. CASE EnterLoop
  <2>1. /\ step = resumed /\ GoesOn(step, yielded) /\ step \in 0 .. EpochLength * Epochs
        /\ epoch' = step \div EpochLength
        /\ step' = step + 1 /\ yielded' = yielded /\ pc' = "batch" /\ step' - 1 = step
    BY <1>0, <1>1 DEF EnterLoop, Position, Aligned
  <2>2. step + Skipped
          = IF epoch' < Epochs THEN epoch' * EpochLength + yielded ELSE EpochLength * Epochs
    BY <1>0, <2>1, EpochResumed DEF Skipped
  <2> QED BY <1>t, <1>r, <2>1, <2>2 DEF Aligned, Reached
<1>2. CASE TakeBatch
  <2> DEFINE n == epoch * EpochLength
  <2>1. step - 1 + Skipped = n + yielded /\ yielded' = yielded + 1 /\ step' = step
        /\ epoch' = epoch /\ pc' = "train" /\ n \in Nat
    BY <1>0, <1>2 DEF TakeBatch, Aligned, Reached
  <2> HIDE DEF n
  <2>2. step' + Skipped' = n + yielded' /\ yielded' > 0
    BY <1>0, <1>r, <2>1
  <2> QED BY <1>t, <2>1, <2>2 DEF Aligned, n
<1>3. CASE NextEpoch
  <2>1. /\ step - 1 + Skipped = epoch * EpochLength + EpochLength /\ yielded' = 0 /\ step' = step
        /\ epoch' = epoch + 1 /\ pc' = "batch" /\ epoch' <= Epochs
    BY <1>0, <1>3 DEF NextEpoch, Aligned, Reached
  <2>2. step - 1 + Skipped = epoch' * EpochLength /\ epoch' * EpochLength \in Nat
    BY <1>0, <2>1, WholePass
  <2>3. epoch' >= Epochs => epoch' = Epochs
    BY <1>0, <2>1
  <2>4. step' - 1 + Skipped'
          = IF epoch' < Epochs THEN epoch' * EpochLength + yielded' ELSE EpochLength * Epochs
    BY <1>0, <1>r, <2>1, <2>2, <2>3, WholePass
  <2> QED BY <1>t, <2>1, <2>4 DEF Aligned, Reached
<1>4. CASE UpdateActor
  <2>1. pc' \in {"save", "next"} /\ step' = step /\ epoch' = epoch /\ yielded' = yielded
        /\ step + Skipped = epoch * EpochLength + yielded /\ yielded > 0
    BY <1>4 DEF UpdateActor, Aligned, loopVars
  <2> QED BY <1>t, <1>r, <2>1 DEF Aligned
<1>5. CASE EndStep
  <2>1. step + Skipped = epoch * EpochLength + yielded /\ epoch < Epochs /\ step' - 1 = step
        /\ epoch' = epoch /\ yielded' = yielded /\ pc' \in {"batch", "finished"}
    BY <1>0, <1>5 DEF EndStep, Aligned, Position
  <2> QED BY <1>t, <1>r, <2>1 DEF Aligned, Reached
<1>6. CASE EpochsOver
  BY <1>t, <1>6 DEF EpochsOver, Aligned
<1> QED BY <1>1, <1>2, <1>3, <1>4, <1>5, <1>6 DEF Loop

LEMMA AlignedNext ==
  ASSUME StoreInv, Automatic, Aligned, [Next]_vars
  PROVE  Aligned'
<1>0. TypeOK /\ Position /\ Ahead /\ Written
  BY DEF StoreInv
<1>1. CASE Loop
  BY <1>1, LoopAligned
<1>2. CASE Launch \/ Crash
  BY <1>2 DEF Launch, Crash, NewProcess, Aligned, InSave, disk
<1>3. CASE StartFresh
  BY <1>0, <1>3 DEF StartFresh, Position, Aligned, GoesOn, loopVars, disk, InSave
<1>4. CASE LoadFails
  BY <1>4 DEF LoadFails, Aligned, InSave, disk
<1>5. CASE Resume
  <2>1. pc' = "begin" /\ step' = tracker /\ resumed' = tracker
        /\ tracker \in Steps /\ tracker' = tracker /\ data' = data
    BY <1>5 DEF Resume, disk
  <2>2. data[tracker] # None
    <3>1. PICK run \in Runs, y \in 0 .. EpochLength : data[tracker] = [run |-> run, yielded |-> y]
      BY <2>1 DEF StoreInv, TrackedIsWhole
    <3>2. None \notin DataState
      BY CheckpointAssumption
    <3> QED BY <3>1, <3>2 DEF DataState
  <2>3. yielded' = data[tracker].yielded
    BY <1>5, <2>2 DEF Resume
  <2> QED BY <2>1, <2>3 DEF Aligned, InSave
<1>6. CASE RankSave
  <2>1. pc \in InSave /\ pc' \in InSave /\ tracker' = tracker /\ data' = data
        /\ step' = step /\ epoch' = epoch /\ yielded' = yielded /\ resumed' = resumed
    BY <1>6, RankMoves, SavePlaces, SaveSplit DEF BarrierSaved, InSave
  <2> QED BY <2>1, SkippedPass DEF Aligned, InSave
<1>7. CASE DriverSave
  <2>1. pc \in InSave /\ pc' \in InSave \cup {"next"}
        /\ step' = step /\ epoch' = epoch /\ yielded' = yielded /\ resumed' = resumed
    BY <1>7, SavePlaces, SaveSplit
  <2>2. step + Skipped = epoch * EpochLength + yielded /\ yielded > 0
    BY <2>1 DEF Aligned
  <2>3. tracker' \in Steps => GoesOn(tracker', data'[tracker'].yielded)
    <3>1. CASE OpenData \/ CloseData
      <4>1. tracker' = tracker /\ (tracker \in Steps => data'[tracker] = data[tracker])
        <5>1. tracker \in Steps => tracker # step
          BY <1>0, <2>1, <3>1 DEF OpenData, CloseData, Ahead, Training, Steps
        <5>2. tracker' = tracker /\ \E d : data' = [data EXCEPT ![step] = d]
          BY <3>1 DEF OpenData, CloseData
        <5> QED BY <1>0, <5>1, <5>2 DEF TypeOK
      <4> QED BY <4>1 DEF Aligned
    <3>2. CASE OpenTracker
      <4>1. tracker' = Empty /\ Empty \notin Int /\ Steps \subseteq Int
        BY <3>2, CheckpointAssumption DEF OpenTracker, Steps
      <4> QED BY <4>1
    <3>3. CASE WriteTracker
      <4>1. tracker' = step /\ data'[step].yielded = yielded
        BY <1>0, <3>3 DEF WriteTracker, Written
      <4>2. \E k \in 0 .. Epochs : step = k * EpochLength + yielded
        <5>1. pc # "batch" /\ InPass(step, yielded, epoch)
          BY <1>0, <2>1 DEF Position, InSave
        <5>2. 0 .. epoch \subseteq 0 .. Epochs
          BY <1>0, Constants DEF TypeOK
        <5> QED BY <5>1, <5>2 DEF InPass
      <4> QED BY <2>2, <4>1, <4>2 DEF GoesOn
    <3> QED BY <1>7, <3>1, <3>2, <3>3 DEF DriverSave
  <2> QED BY <2>1, <2>2, <2>3, SkippedPass DEF Aligned, InSave
<1>8. CASE UNCHANGED vars
  BY <1>8, SkippedPass DEF vars, loopVars, disk, Aligned, Reached
<1> QED BY <1>1, <1>2, <1>3, <1>4, <1>5, <1>6, <1>7, <1>8, SaveSplit DEF Next, Run, Load

LEMMA AlignedAlways == Automatic => (Spec => []Aligned)
<1>1. Automatic => Automatic'
  BY DEF Automatic
<1>2. StoreInv /\ Automatic /\ Aligned /\ [Next]_vars => Aligned'
  BY AlignedNext
<1> QED BY <1>1, <1>2, AlignedInit, StoreInvAlways, PTL DEF Spec

\* A crash and a resume neither mix models nor repeat a batch, and skip none but
\* the one pass of a launch that resumed at the end of the pass before it, for any
\* number of ranks, crashes and launches and wherever the saves fall.
THEOREM ResumesGoOn == Automatic => (Spec => []ResumesInPlace)
<1>1. StoreInv /\ Aligned => ResumesInPlace
  <2> SUFFICES ASSUME StoreInv, Aligned
               PROVE  ResumesInPlace
    OBVIOUS
  <2>0. TypeOK /\ Position /\ ModelIs
    BY DEF StoreInv
  <2>1. ASSUME NEW run \in Runs, NEW n \in 0 .. EpochLength * Epochs, Uniform(model, run, n)
        PROVE  \E c \in Content : \A r \in Ranks : model[r] = c
    <3>1. [run |-> run, updates |-> n] \in Content
      BY DEF Content
    <3> QED BY <2>1, <3>1 DEF Uniform
  <2>2. pc \in {"begin", "batch", "train", "save", "next"} =>
          \E c \in Content : \A r \in Ranks : model[r] = c
    <3>1. CASE pc = "begin"
      <4>1. step \in 0 .. EpochLength * Epochs
        BY <2>0, <3>1, Constants DEF TypeOK, Position
      <4> QED BY <2>0, <2>1, <3>1, <4>1 DEF ModelIs
    <3>2. CASE pc = "batch"
      <4>1. step - 1 \in 0 .. EpochLength * Epochs
        <5>1. PICK k \in 0 .. epoch : step - 1 = k * EpochLength + yielded
          BY <2>0, <3>2 DEF Position, InPass
        <5>2. k \in Nat /\ step \in 0 .. EpochLength * Epochs + 1 /\ yielded \in Nat
          BY <2>0, Constants DEF TypeOK
        <5>3. k * EpochLength \in Nat
          BY <5>2, WholePass
        <5>4. \A a, b \in Nat : a + b >= 0
          OBVIOUS
        <5> QED BY <5>1, <5>2, <5>3, <5>4, Constants
      <4> QED BY <2>0, <2>1, <3>2, <4>1 DEF ModelIs
    <3>3. CASE pc = "train"
      <4>1. step - 1 \in 0 .. EpochLength * Epochs
        BY <2>0, <3>3, Constants DEF Position, Steps
      <4> QED BY <2>0, <2>1, <3>3, <4>1 DEF ModelIs
    <3>4. CASE pc \in {"save", "next"}
      <4>1. step \in 0 .. EpochLength * Epochs /\ launch \in Runs
        BY <2>0, <3>4, Constants DEF Position, Steps, TypeOK, InSave
      <4> QED BY <2>0, <2>1, <3>4, <4>1 DEF ModelIs, InSave
    <3> QED BY <3>1, <3>2, <3>3, <3>4
  <2>3. pc = "train" => \A r \in Ranks :
          /\ model[r].updates = step - 1
          /\ epoch * EpochLength + yielded = step + Skipped
    BY <2>0 DEF ModelIs, Uniform, Aligned
  <2> QED BY <2>2, <2>3 DEF ResumesInPlace
<1> QED BY <1>1, StoreInvAlways, AlignedAlways, PTL

\* A training that ran to its end has made the updates it was asked for, or one on
\* every batch of its epochs but a pass that its last launch left out because it
\* resumed at the end of the one before, in however many launches.
THEOREM FinishedTrainings == Automatic => (Spec => []FinishedIsTrained)
<1>1. Init => FinishedIsTrained
  BY DEF Init, FinishedIsTrained
<1>2. StoreInv /\ Aligned /\ FinishedIsTrained /\ [Next]_vars => FinishedIsTrained'
  <2> SUFFICES ASSUME StoreInv, Aligned, FinishedIsTrained, [Next]_vars, pc' = "finished"
               PROVE  \A r \in Ranks : \/ model'[r].updates >= TotalSteps
                                       \/ model'[r].updates = EpochLength * Epochs - Skipped'
    BY DEF FinishedIsTrained
  <2>0. TypeOK /\ Position /\ ModelIs /\ Epochs \in Nat /\ EpochLength * Epochs \in Nat
        /\ EpochLength \in Nat
    BY Constants DEF StoreInv
  <2>1. CASE EndStep
    <3>1. step >= TotalSteps /\ step \in Steps /\ Uniform(model, launch, step) /\ model' = model
      BY <2>0, <2>1 DEF EndStep, IsLastStep, Position, ModelIs
    <3> QED BY <3>1 DEF Uniform
  <2>2. CASE EpochsOver
    <3>1. step - 1 + Skipped = EpochLength * Epochs /\ model' = model /\ resumed' = resumed
          /\ step \in Nat
      BY <2>0, <2>2 DEF EpochsOver, Aligned, Reached, TypeOK, loopVars
    <3>2. Skipped' = Skipped /\ step - 1 = EpochLength * Epochs - Skipped
      BY <2>0, <3>1, SkippedPass
    <3>3. \E run \in Runs : Uniform(model, run, step - 1)
      BY <2>0, <2>2 DEF EpochsOver, ModelIs
    <3> QED BY <3>1, <3>2, <3>3 DEF Uniform
  <2>3. CASE UNCHANGED vars
    BY <2>3, SkippedPass DEF vars, loopVars, FinishedIsTrained
  <2>4. ~ Save
    BY SavePlaces DEF InSave
  <2> QED BY <2>1, <2>2, <2>3, <2>4 DEF Next, Launch, Crash, Run, Load, StartFresh, Resume, LoadFails,
             Loop, EnterLoop, TakeBatch, NextEpoch, UpdateActor
<1> QED BY <1>1, <1>2, StoreInvAlways, AlignedAlways, PTL DEF Spec

-----------------------------------------------------------------------------
(* What a crash costs *)

LEMMA MultipleOf ==
  ASSUME NEW k \in Nat, NEW p \in Nat \ {0}
  PROVE  (k * p) % p = 0 /\ k * p \in Nat
OBVIOUS

\* The last multiple of p up to n.
LEMMA LastMultiple ==
  ASSUME NEW n \in Nat, NEW p \in Nat \ {0}
  PROVE  \E k \in 0 .. n : k * p \in Nat /\ k * p <= n /\ n < k * p + p
<1> DEFINE q == n \div p
           m == n % p
<1>1. q \in Int /\ m \in 0 .. p - 1 /\ n = q * p + m
  OBVIOUS
<1> HIDE DEF q, m
<1>2. q >= 0
  <2> SUFFICES ASSUME q < 0 PROVE FALSE
    BY <1>1
  <2> DEFINE d == 0 - (q + 1)
  <2>1. d \in Nat /\ q = 0 - (1 + d)
    BY <1>1
  <2>2. d * p \in Nat
    BY <2>1
  <2> HIDE DEF d
  <2>3. q * p = 0 - (p + d * p)
    BY <2>1
  <2> QED BY <1>1, <2>2, <2>3
<1>3. q \in Nat /\ q * p \in Nat /\ q <= q * p
  BY <1>1, <1>2
<1>4. q <= n /\ q * p <= n /\ n < q * p + p
  BY <1>1, <1>3
<1>5. q \in 0 .. n
  BY <1>3, <1>4
<1> QED BY <1>3, <1>4, <1>5

LEMMA TrackedType == ASSUME TypeOK, tracker # Empty PROVE Tracked \in 0 .. EpochLength * Epochs
BY Constants DEF TypeOK, Tracked, Steps

LEMMA KeptNext ==
  ASSUME StoreInv, Automatic, SaveFreq > 0, Kept, [Next]_vars
  PROVE  Kept'
<1>0. /\ TypeOK /\ Position /\ Ahead /\ SaveFreq \in Nat \ {0}
      /\ None \notin Steps /\ Steps \subseteq Int /\ step \in Nat
  BY CheckpointAssumption DEF StoreInv, TypeOK, Steps
<1> USE DEF InSave, Training
<1>1. CASE Launch \/ Crash \/ LoadFails
  BY <1>1 DEF Launch, Crash, LoadFails, Kept
<1>2. CASE StartFresh \/ Resume
  <2>1. pc' = "begin" /\ tracker' = tracker
    BY <1>2 DEF StartFresh, Resume, disk
  <2>2. step' = Tracked
    <3>1. CASE StartFresh
      <4>1. tracker = None /\ step' = 0
        BY <1>0, <3>1, AutoMode DEF StartFresh, Position, loopVars
      <4> QED BY <4>1 DEF Tracked
    <3>2. CASE Resume
      BY <1>0, <3>2 DEF Resume, Tracked
    <3> QED BY <1>2, <3>1, <3>2
  <2>3. Tracked' = Tracked
    BY <2>1 DEF Tracked
  <2> QED BY <2>1, <2>2, <2>3 DEF Kept, KeptUpTo
<1>3. CASE EnterLoop \/ TakeBatch \/ NextEpoch \/ EpochsOver \/ EndStep
  <2>1. /\ tracker' = tracker
        /\ \/ pc' \in {"batch", "train", "finished"} /\ pc = "batch" /\ step' - 1 = step - 1
           \/ pc' \in {"batch", "finished"} /\ pc \in {"begin", "next"} /\ step' - 1 = step
    BY <1>0, <1>3 DEF EnterLoop, TakeBatch, NextEpoch, EpochsOver, EndStep, disk, loopVars
  <2>2. Tracked' = Tracked
    BY <2>1 DEF Tracked
  <2> QED BY <2>1, <2>2 DEF Kept, KeptUpTo
<1>4. CASE UpdateActor
  <2>1. /\ pc = "train" /\ tracker' = tracker /\ step' = step
        /\ pc' = "save" \/ (pc' = "next" /\ step % SaveFreq # 0)
    BY <1>0, <1>4 DEF UpdateActor, SaveNow, disk, loopVars
  <2>2. Tracked' = Tracked /\ KeptUpTo(step - 1)
    BY <2>1 DEF Tracked, Kept
  <2>3. ASSUME step % SaveFreq # 0
        PROVE  KeptUpTo(step)
    <3>1. ASSUME NEW k \in 0 .. EpochLength * Epochs, k * SaveFreq <= step
          PROVE  k * SaveFreq <= step - 1
      <4>1. k \in Nat /\ SaveFreq \in Nat \ {0}
        BY <1>0
      <4>2. (k * SaveFreq) % SaveFreq = 0 /\ k * SaveFreq \in Nat
        BY <4>1, MultipleOf
      <4>3. k * SaveFreq # step
        BY <2>3, <4>2
      <4> QED BY <1>0, <3>1, <4>2, <4>3
    <3> QED BY <2>2, <3>1 DEF KeptUpTo
  <2> QED BY <2>1, <2>2, <2>3 DEF Kept, KeptUpTo
<1>5. CASE RankSave \/ OpenData \/ CloseData
  <2>1. pc \in Training /\ pc' \in Training /\ tracker' = tracker /\ step' = step
    BY <1>5, RankMoves, SavePlaces, SaveSplit DEF BarrierSaved, OpenData, CloseData, loopVars
  <2>2. Tracked' = Tracked
    BY <2>1 DEF Tracked
  <2> QED BY <2>1, <2>2 DEF Kept, KeptUpTo
<1>6. CASE OpenTracker
  BY <1>6 DEF OpenTracker, Kept
<1>7. CASE WriteTracker
  <2>1. pc' = "next" /\ step' = step /\ tracker' = step /\ step \in Steps
    BY <1>0, <1>7 DEF WriteTracker, Position, loopVars
  <2>2. Tracked' = step
    BY <1>0, <2>1 DEF Tracked
  <2> QED BY <2>1, <2>2 DEF Kept, KeptUpTo
<1>8. CASE UNCHANGED vars
  <2>1. pc' = pc /\ step' = step /\ tracker' = tracker
    BY <1>8 DEF vars, loopVars, disk
  <2>2. Tracked' = Tracked
    BY <2>1 DEF Tracked
  <2> QED BY <2>1, <2>2 DEF Kept, KeptUpTo
<1> QED BY <1>1, <1>2, <1>3, <1>4, <1>5, <1>6, <1>7, <1>8, SaveSplit DEF Next, Run, Load, Loop, DriverSave

\* A step that has to be saved is saved before the next one, so a resume is never
\* more than save_freq updates behind, whatever was killed before: the constant
\* SaveFreq is the bound for every retention, number of ranks and of crashes.
THEOREM CrashCostsSaveFreq == Automatic /\ Saving => (Spec => []LossIsBounded)
<1>1. Init => Kept
  BY DEF Init, Kept, Training
<1>2. StoreInv /\ Automatic /\ Saving /\ Kept /\ [Next]_vars => Kept'
  BY KeptNext DEF Saving
<1>3. StoreInv /\ Saving /\ Kept => LossIsBounded
  <2> SUFFICES ASSUME StoreInv, SaveFreq > 0, Kept, pc \notin Stopped \cup {"load"},
                      tracker # Empty, NEW r \in Ranks
               PROVE  model[r].updates - Tracked <= SaveFreq
    BY DEF LossIsBounded, Tracked, Saving
  <2>0. /\ TypeOK /\ Position /\ ModelIs /\ Ahead
        /\ SaveFreq \in Nat \ {0} /\ Tracked \in Nat /\ EpochLength * Epochs \in Nat
    BY CheckpointAssumption, TrackedType, Constants DEF StoreInv
  <2> DEFINE n == model[r].updates
  <2>1. ASSUME NEW m \in 0 .. EpochLength * Epochs, KeptUpTo(m), n \in Nat, n <= m + 1
        PROVE  n - Tracked <= SaveFreq
    <3>0. m \in Nat /\ SaveFreq \in Nat \ {0}
      BY <2>0
    <3>1. PICK k \in 0 .. m : k * SaveFreq \in Nat /\ k * SaveFreq <= m /\ m < k * SaveFreq + SaveFreq
      BY ONLY <3>0, LastMultiple
    <3>2. k * SaveFreq <= Tracked
      BY <2>0, <2>1, <3>1 DEF KeptUpTo
    <3> HIDE DEF n
    <3> QED BY <2>0, <2>1, <3>1, <3>2
  <2>2. CASE pc \in {"begin", "next"}
    <3>1. n = step /\ step \in 0 .. EpochLength * Epochs /\ KeptUpTo(step)
      BY <2>0, <2>2 DEF ModelIs, Uniform, Position, Steps, Kept, TypeOK
    <3> QED BY <2>1, <3>1
  <2>3. CASE pc \in {"batch", "train"}
    <3>1. n = step - 1 /\ KeptUpTo(step - 1)
      BY <2>0, <2>3 DEF ModelIs, Uniform, Kept, Training
    <3>2. step - 1 \in 0 .. EpochLength * Epochs
      <4>1. PICK k \in 0 .. epoch : (IF pc = "batch" THEN step - 1 ELSE step) = k * EpochLength + yielded
        BY <2>0, <2>3 DEF Position, InPass
      <4>2. k \in Nat /\ step \in 0 .. EpochLength * Epochs + 1 /\ yielded \in Nat
        BY <2>0, Constants DEF TypeOK
      <4>3. k * EpochLength \in Nat
        BY <4>2, WholePass
      <4>4. \A a, b \in Nat : a + b >= 0
        OBVIOUS
      <4>5. pc = "train" => step \in Steps
        BY <2>0 DEF Position
      <4> QED BY <2>0, <2>3, <4>1, <4>2, <4>3, <4>4, <4>5 DEF Steps
    <3> QED BY <2>1, <3>1, <3>2
  <2>4. CASE pc \in InSave
    <3>1. n = step /\ step \in Steps /\ pc # "tracking"
      BY <2>0, <2>4 DEF ModelIs, Uniform, Position, InSave, Ahead
    <3>2. KeptUpTo(step - 1) /\ step - 1 \in 0 .. EpochLength * Epochs
      BY <2>4, <3>1, Constants DEF Kept, Training, InSave, Steps
    <3>3. n \in Nat /\ n <= (step - 1) + 1
      BY <3>1 DEF Steps
    <3> QED BY <2>1, <3>2, <3>3
  <2> QED BY <2>0, <2>2, <2>3, <2>4 DEF TypeOK, DriverPlace, InSave
<1>4. (Automatic => Automatic') /\ (Saving => Saving')
  BY DEF Automatic, Saving
<1> QED BY <1>1, <1>2, <1>3, <1>4, StoreInvAlways, PTL DEF Spec

-----------------------------------------------------------------------------
(* No launch stands still *)

LEMMA RunNeeds == ASSUME TypeOK, Phases, Run PROVE LaunchCanGo
<1> USE DEF Stopped, DriverPlace, LaunchCanGo
<1>1. CASE Load
  BY <1>1 DEF Load, StartFresh, Resume, LoadFails
<1>2. CASE Loop
  BY <1>2, Constants DEF Loop, EnterLoop, TakeBatch, NextEpoch, EpochsOver, UpdateActor, EndStep, TypeOK
<1>3. CASE DriverSave
  BY <1>3 DEF DriverSave, OpenData, CloseData, OpenTracker, WriteTracker
<1>4. CASE RankSave
  <2>1. SaveCanGo
    BY <1>4, CheckpointAssumption DEF RankSave, EnsureCapacity, BarrierMade, BarrierWritten, Register,
       RemovedCheckpoint, BarrierSaved, MakeDir, OpenShard, CloseShard, RemoveShard, SaveCanGo
  <2>2. \E r \in Ranks : place[r] # "idle"
    BY <2>1, CheckpointAssumption DEF SaveCanGo, Together
  <2>3. pc = "save"
    BY <2>2 DEF Phases, Together
  <2> QED BY <2>1, <2>3
<1> QED BY <1>1, <1>2, <1>3, <1>4, SaveSplit DEF Run

LEMMA TrimmingNext ==
  ASSUME StoreInv, Trimming, [Next]_vars
  PROVE  Trimming'
<1>0. TypeOK /\ Phases /\ Chief \in Ranks /\ MaxKeep \in Nat
  BY CheckpointAssumption DEF StoreInv
<1> USE DEF Trimming
<1>1. CASE Launch \/ Crash
  BY <1>0, <1>1 DEF Launch, Crash, NewProcess
<1>2. CASE Load \/ DriverSave
  BY <1>2 DEF Load, StartFresh, Resume, LoadFails, DriverSave, OpenData, CloseData, OpenTracker,
     WriteTracker, saveVars
<1>3. CASE Loop
  BY <1>0, <1>3 DEF Loop, EnterLoop, TakeBatch, NextEpoch, EpochsOver, UpdateActor, EndStep, saveVars
<1>4. CASE EnsureCapacity
  <2>1. CASE MaxKeep > 1 /\ Len(previous) >= MaxKeep
    <3> DEFINE n == Len(previous) - MaxKeep + 1
    <3>1. previous \in Seq(Steps) /\ n \in 1 .. Len(previous)
      BY <1>0, <2>1 DEF TypeOK
    <3>2. victims' = SubSeq(previous, 1, n)
      BY <1>4, <2>1 DEF EnsureCapacity, Drop
    <3> HIDE DEF n
    <3>3. Len(victims') = n
      BY <3>1, <3>2
    <3> QED BY <3>1, <3>3
  <2>2. CASE ~(MaxKeep > 1 /\ Len(previous) >= MaxKeep)
    BY <1>0, <1>4, <2>2 DEF EnsureCapacity, Goto, TypeOK
  <2> QED BY <2>1, <2>2
<1>5. CASE RemovedCheckpoint
  <2>1. CASE Len(victims) = 1
    BY <1>0, <1>5, <2>1 DEF RemovedCheckpoint, Goto, TypeOK
  <2>2. CASE Len(victims) # 1
    <3>1. victims \in Seq(Steps) /\ victims # <<>> /\ victims' = Tail(victims)
      BY <1>0, <1>5 DEF RemovedCheckpoint, TypeOK
    <3>2. Len(victims') = Len(victims) - 1 /\ Len(victims) \in Nat \ {0, 1}
      BY <2>2, <3>1
    <3> QED BY <3>2
  <2> QED BY <2>1, <2>2
<1>6. CASE BarrierMade \/ BarrierWritten \/ BarrierSaved \/ Register
  BY <1>0, <1>6 DEF BarrierMade, BarrierWritten, BarrierSaved, Register, Goto, TypeOK
<1>7. ASSUME NEW r \in Ranks, MakeDir(r) \/ OpenShard(r) \/ CloseShard(r) \/ RemoveShard(r)
      PROVE  Trimming'
  BY <1>0, <1>7 DEF MakeDir, OpenShard, CloseShard, RemoveShard, Goto, saveVars, TypeOK
<1>8. CASE UNCHANGED vars
  BY <1>8 DEF vars, saveVars
<1> QED BY <1>1, <1>2, <1>3, <1>4, <1>5, <1>6, <1>7, <1>8, SaveSplit DEF Next, Run, RankSave

\* However many ranks save, and whatever retention removes meanwhile, a launch
\* always has a step to take until it stops: the safety part of LaunchEnds.
THEOREM NoLaunchIsStuck == Automatic => (Spec => []NeverStandsStill)
<1>1. StoreInv /\ Trimming => NeverStandsStill
  <2> SUFFICES ASSUME StoreInv, Trimming, pc \notin Stopped
               PROVE  LaunchCanGo
    BY DEF NeverStandsStill
  <2>0. TypeOK /\ Phases /\ Chief \in Ranks
    BY CheckpointAssumption DEF StoreInv
  <2>1. CASE pc = "batch"
    BY <2>0, <2>1, Constants DEF LaunchCanGo, TypeOK
  <2>2. CASE pc = "save"
    <3>1. SaveCanGo
      BY <2>0, <2>2 DEF Phases, SaveCanGo, Together, Trimming
    <3> QED BY <2>2, <3>1 DEF LaunchCanGo
  <2> QED BY <2>0, <2>1, <2>2 DEF TypeOK, LaunchCanGo
<1>2. Init => Trimming
  BY CheckpointAssumption DEF Init, Trimming
<1>3. StoreInv /\ Trimming /\ [Next]_vars => Trimming'
  BY TrimmingNext
<1> QED BY <1>1, <1>2, <1>3, StoreInvAlways, PTL DEF Spec
=============================================================================
