------------------------ MODULE LaunchPipeline_proofs ------------------------
(***************************************************************************)
(* For any number of launchers, starting models, shards and launches: what *)
(* a launch trains is the model of its own start, and it is that model in  *)
(* full unless a launch took an unfinished unbaked directory for a         *)
(* finished one.  Launches that run one after the other, none of them      *)
(* killed, all reach the training.                                         *)
(***************************************************************************)
EXTENDS LaunchPipeline_inv, TLAPS

\* Every start has a directory of its own.
LEMMA DirOf ==
  /\ \A s \in Starts : Dir(s) \in Dirs
  /\ \A s, t \in Starts : Dir(s) = Dir(t) => s = t
BY DEF Dir, Dirs

LEMMA Distinct ==
  /\ None # Torn /\ None # Plain /\ Torn # Plain
  /\ None \notin Models /\ Torn \notin Models /\ Plain \notin Models
  /\ None \notin Configs /\ Torn \notin Configs
BY LaunchAssumption

\* What the steps write into a config.json is a config.
LEMMA Overlaid ==
  /\ [fields |-> {}] \in Configs
  /\ \A c \in Configs :
       /\ [fields |-> c.fields \cup {"overlay"}] \in Configs
       /\ [fields |-> c.fields \cup {"baked"}] \in Configs
BY DEF Configs

LEMMA ModelWith ==
  ASSUME NEW s \in Starts, NEW S \in SUBSET Shards
  PROVE  [start |-> s, shards |-> S] \in Models
BY DEF Models

\* The directory of a launcher's start.
LEMMA OutOf ==
  ASSUME TypeOK, NEW l \in Launchers
  PROVE  start[l] \in Starts /\ Out(l) \in Dirs /\ Out(l) = Dir(start[l])
BY DirOf DEF TypeOK, Out

-----------------------------------------------------------------------------
(* Steps that change nothing but where the launcher is *)

FileWrites == {"saving", "writing train", "writing test"}

LEMMA MovesOn ==
  ASSUME NEW l \in Launchers, PipelineInv, pc[l] \notin FileWrites,
         NEW p \in {"failed", "guard", "download", "loadBase", "data", "train",
                    "loadData", "loadConfig"},
         p \in AfterSetup => pc[l] \in AfterSetup,
         Move(l, p)
  PROVE  PipelineInv'
<1> USE DEF PipelineInv, Move, Goto, disk, unbakedDir, bakedDirs, openFiles, history
<1>1. TypeOK'
  BY DEF TypeOK, Places, Splits, Stopped
<1>2. SetUp'
  BY DEF TypeOK, SetUp
<1>3. HasRead'
  BY DEF TypeOK, HasRead
<1>4. Baking'
  BY DEF TypeOK, Baking, IsModelOf
<1>5. Baked'
  BY DEF Baked, IsFileOf
<1>6. Trained'
  BY DEF TypeOK, Trained, IsFileOf
<1>7. Overwriting'
  BY DEF TypeOK, Overwriting, Out, FileWrites
<1> QED BY <1>1, <1>2, <1>3, <1>4, <1>5, <1>6, <1>7

LEMMA Fails ==
  ASSUME NEW l \in Launchers, PipelineInv, Fail(l), pc[l] \notin FileWrites
  PROVE  PipelineInv'
BY MovesOn DEF Fail, AfterSetup

\* A launcher past the guards, with or without a setup of its own.
LEMMA FoundSetup ==
  ASSUME NEW l \in Launchers, PipelineInv, FoundUnbaked(l), pc[l] \notin FileWrites
  PROVE  PipelineInv'
<1> USE DEF PipelineInv, FoundUnbaked, Goto, disk, unbakedDir, bakedDirs, openFiles
<1>1. TypeOK'
  BY DEF TypeOK, Places
<1>2. SetUp'
  BY DEF TypeOK, SetUp, UnbakedIsReady
<1>3. HasRead'
  BY DEF TypeOK, HasRead
<1>4. Baking'
  BY DEF TypeOK, Baking, IsModelOf
<1>5. Baked'
  BY DEF Baked, IsFileOf
<1>6. Trained'
  BY DEF TypeOK, Trained, IsFileOf
<1>7. Overwriting'
  BY DEF TypeOK, Overwriting, Out, FileWrites
<1> QED BY <1>1, <1>2, <1>3, <1>4, <1>5, <1>6, <1>7

LEMMA LaunchStep ==
  ASSUME NEW l \in Launchers, PipelineInv, Launch(l) \/ Interrupt(l)
  PROVE  PipelineInv'
<1> USE DEF PipelineInv, Launch, Interrupt, Goto, disk, unbakedDir, bakedDirs, openFiles
<1>1. TypeOK'
  <2>1. launches' \in 0 .. MaxLaunches
    BY LaunchAssumption DEF TypeOK
  <2>2. pc' \in [Launchers -> Places]
    BY DEF TypeOK, Places, Stopped
  <2>3. start' \in [Launchers -> Starts] /\ disturbed' \in BOOLEAN /\ cut' \subseteq Launchers
    BY DEF TypeOK
  <2>4. read' \in [Launchers -> Configs \cup {None}] /\ held' \in [Launchers -> Models \cup {None, Plain}]
    BY DEF TypeOK
  <2> QED BY <2>1, <2>2, <2>3, <2>4 DEF TypeOK
<1>2. SetUp'
  BY DEF TypeOK, SetUp, AfterSetup
<1>3. HasRead'
  BY DEF TypeOK, HasRead
<1>4. Baking'
  BY DEF TypeOK, Baking, IsModelOf
<1>5. Baked'
  BY DEF Baked, IsFileOf
<1>6. Trained'
  BY DEF TypeOK, Trained, IsFileOf
<1>7. Overwriting'
  <2>1. ASSUME NEW k \in cut' PROVE k \in cut /\ k # l
    BY <2>1 DEF Overwriting, Stopped
  <2> QED BY <2>1 DEF TypeOK, Overwriting, Out
<1> QED BY <1>1, <1>2, <1>3, <1>4, <1>5, <1>6, <1>7

-----------------------------------------------------------------------------
(* The unbaked directory *)

LEMMA DownloadStep ==
  ASSUME NEW l \in Launchers, PipelineInv, Download(l)
  PROVE  PipelineInv'
<1> USE DEF PipelineInv, Download, launcher, bakedDirs, openFiles, history
<1>1. TypeOK'
  BY Overlaid DEF TypeOK
<1>2. SetUp'
  BY DEF TypeOK, SetUp
<1>3. HasRead' /\ Baking' /\ Baked' /\ Trained'
  BY DEF HasRead, Baking, Baked, Trained, IsModelOf, IsFileOf
<1>4. Overwriting'
  BY DEF TypeOK, Overwriting, Out
<1> QED BY <1>1, <1>2, <1>3, <1>4

LEMMA OverlayOpenStep ==
  ASSUME NEW l \in Launchers, PipelineInv, OverlayOpen(l)
  PROVE  PipelineInv'
<1>1. CASE ~Readable(unbaked)
  BY <1>1, Fails DEF OverlayOpen, FileWrites
<1>2. CASE Readable(unbaked)
  <2> USE <1>2 DEF PipelineInv, OverlayOpen, Goto, bakedDirs, openFiles, history
  <2>1. TypeOK'
    <3>1. pc' \in [Launchers -> Places]
      BY DEF TypeOK, Places
    <3>2. read' \in [Launchers -> Configs \cup {None}]
      BY DEF TypeOK, Readable
    <3> QED BY <3>1, <3>2 DEF TypeOK
  <2>2. SetUp'
    BY Distinct DEF TypeOK, SetUp, AfterSetup, Readable
  <2>3. HasRead'
    BY DEF TypeOK, HasRead, Readable
  <2>4. Baking'
    BY DEF TypeOK, Baking, IsModelOf
  <2>5. Baked'
    BY DEF Baked, IsFileOf
  <2>6. Trained'
    BY DEF TypeOK, Trained, IsFileOf
  <2>7. Overwriting'
    BY DEF TypeOK, Overwriting, Out
  <2> QED BY <2>1, <2>2, <2>3, <2>4, <2>5, <2>6, <2>7
<1> QED BY <1>1, <1>2

LEMMA OverlayWriteStep ==
  ASSUME NEW l \in Launchers, PipelineInv, OverlayWrite(l)
  PROVE  PipelineInv'
<1> USE DEF PipelineInv, OverlayWrite, Goto, bakedDirs, openFiles, history
<1>1. unbaked' \in Configs /\ "overlay" \in unbaked'.fields
  BY Overlaid DEF HasRead
<1>2. TypeOK'
  <2>1. pc' \in [Launchers -> Places]
    BY DEF TypeOK, Places
  <2> QED BY <1>1, <2>1 DEF TypeOK
<1>3. SetUp'
  BY <1>1, Distinct DEF TypeOK, SetUp
<1>4. HasRead'
  BY DEF TypeOK, HasRead
<1>5. Baking'
  BY DEF TypeOK, Baking, IsModelOf
<1>6. Baked'
  BY DEF Baked, IsFileOf
<1>7. Trained'
  BY DEF TypeOK, Trained, IsFileOf
<1>8. Overwriting'
  BY DEF TypeOK, Overwriting, Out
<1> QED BY <1>2, <1>3, <1>4, <1>5, <1>6, <1>7, <1>8

LEMMA SetupStep ==
  ASSUME NEW l \in Launchers, PipelineInv, Setup(l)
  PROVE  PipelineInv'
<1>1. CASE CheckUnbaked(l)
  BY <1>1, FoundSetup, MovesOn DEF CheckUnbaked, AfterSetup, FileWrites
<1>2. CASE SetupGuard(l)
  BY <1>2, FoundSetup, MovesOn DEF SetupGuard, AfterSetup, FileWrites
<1> QED BY <1>1, <1>2, DownloadStep, OverlayOpenStep, OverlayWriteStep DEF Setup

-----------------------------------------------------------------------------
(* The baked directory *)

LEMMA BakeLoadsStep ==
  ASSUME NEW l \in Launchers, PipelineInv, BakeLoads(l)
  PROVE  PipelineInv'
<1> DEFINE m == [start |-> start[l], shards |-> files \cap Shards]
<1> DEFINE loads == Readable(unbaked) /\ files \cap Shards # {} /\ Tokenizer \in files
<1>1. CASE ~loads
  BY <1>1, Fails DEF BakeLoads, FileWrites
<1>2. CASE loads
  <2>1. pc[l] = "loadBase" /\ pc' = [pc EXCEPT ![l] = "mkdir"] /\ held' = [held EXCEPT ![l] = m]
    BY <1>2 DEF BakeLoads, Goto
  <2>2. UNCHANGED <<launches, start, read, disk, history>>
    BY <1>2 DEF BakeLoads
  <2> USE <2>1, <2>2 DEF PipelineInv, disk, unbakedDir, bakedDirs, openFiles, history
  <2>3. m \in Models /\ m.start = start[l] /\ (~trusted => m.shards = Shards)
    <3>1. m \in Models
      BY OutOf, ModelWith
    <3>2. ~trusted => files = Files
      BY DEF SetUp, AfterSetup, Places
    <3> QED BY <3>1, <3>2 DEF Files
  <2> HIDE DEF m, loads
  <2>4. TypeOK'
    <3>1. pc' \in [Launchers -> Places]
      BY DEF TypeOK, Places
    <3>2. held' \in [Launchers -> Models \cup {None, Plain}]
      BY <2>3 DEF TypeOK
    <3> QED BY <3>1, <3>2 DEF TypeOK
  <2>5. SetUp'
    BY DEF TypeOK, SetUp, AfterSetup, Places
  <2>6. HasRead'
    BY DEF TypeOK, HasRead
  <2>7. Baking'
    BY <2>3 DEF TypeOK, Baking, IsModelOf
  <2>8. Baked'
    BY DEF Baked, IsFileOf
  <2>9. Trained'
    BY DEF TypeOK, Trained, IsFileOf
  <2>10. Overwriting'
    BY DEF TypeOK, Overwriting, Out
  <2> QED BY <2>4, <2>5, <2>6, <2>7, <2>8, <2>9, <2>10
<1> QED BY <1>1, <1>2

LEMMA BakeDirStep ==
  ASSUME NEW l \in Launchers, PipelineInv, BakeDir(l)
  PROVE  PipelineInv'
<1> USE DEF PipelineInv, BakeDir, Goto, unbakedDir, openFiles, history
<1>1. TypeOK'
  <2>1. pc' \in [Launchers -> Places]
    BY DEF TypeOK, Places
  <2>2. made' \subseteq Dirs
    BY OutOf DEF TypeOK
  <2> QED BY <2>1, <2>2 DEF TypeOK
<1>2. SetUp'
  BY DEF TypeOK, SetUp, AfterSetup, Places
<1>3. HasRead'
  BY DEF TypeOK, HasRead
<1>4. Baking'
  BY DEF TypeOK, Baking, IsModelOf
<1>5. Baked'
  BY DEF Baked, IsFileOf
<1>6. Trained'
  BY DEF TypeOK, Trained, IsFileOf
<1>7. Overwriting'
  BY DEF TypeOK, Overwriting, Out
<1> QED BY <1>1, <1>2, <1>3, <1>4, <1>5, <1>6, <1>7

\* The new weights of the directory of a launcher's start.
LEMMA WeightsOf ==
  ASSUME TypeOK, Baked, NEW l \in Launchers, NEW w \in Models \cup {Torn},
         weights' = [weights EXCEPT ![Out(l)] = w], UNCHANGED <<config, trusted>>,
         clobbered \subseteq clobbered',
         w # Torn => w.start = start[l] /\ (~trusted /\ Out(l) \notin clobbered => w.shards = Shards)
  PROVE  Baked' /\ weights' \in [Dirs -> Models \cup {None, Torn}]
<1>1. ASSUME NEW s \in Starts
      PROVE  (weights[Dir(s)] \in Models => IsFileOf(weights[Dir(s)], s))'
  <2>1. CASE s = start[l]
    BY <2>1, OutOf, Distinct DEF TypeOK, IsFileOf
  <2>2. CASE s # start[l]
    <3>1. weights'[Dir(s)] = weights[Dir(s)] /\ Dir(s)' = Dir(s)
      BY <2>2, OutOf, DirOf DEF TypeOK, Dir
    <3> QED BY <3>1 DEF Baked, IsFileOf
  <2> QED BY <2>1, <2>2
<1>2. weights' \in [Dirs -> Models \cup {None, Torn}]
  BY DEF TypeOK
<1> QED BY <1>1, <1>2 DEF Baked, IsFileOf

LEMMA SavingOf ==
  ASSUME TypeOK, NEW l \in Launchers
  PROVE  /\ \A k \in Saving(Out(l)) : k \in Launchers /\ pc[k] = "saving" /\ Out(k) = Out(l)
         /\ {Out(k) : k \in Saving(Out(l))} \subseteq Dirs
BY OutOf DEF Saving

LEMMA SaveWeightsOpenStep ==
  ASSUME NEW l \in Launchers, PipelineInv, SaveWeightsOpen(l)
  PROVE  PipelineInv'
<1> DEFINE parts == {held[k].shards : k \in Saving(Out(l)) \cup {l}}
<1> USE DEF PipelineInv, Goto, unbakedDir
<1>1. /\ pc[l] = "save" /\ pc' = [pc EXCEPT ![l] = "saving"]
      /\ weights' = [weights EXCEPT ![Out(l)] = Torn]
      /\ inFile' = [inFile EXCEPT ![Out(l)] = parts]
      /\ cut' = cut \cup Saving(Out(l))
      /\ clobbered' = clobbered \cup {Out(k) : k \in Saving(Out(l))}
      /\ UNCHANGED <<launches, start, read, held, files, unbaked, made, config, data>>
      /\ UNCHANGED <<disturbed, trusted>>
  BY DEF SaveWeightsOpen
<1>2. /\ \A k \in Saving(Out(l)) \cup {l} : IsModelOf(held[k], start[k])
      /\ \A k \in Saving(Out(l)) : k \in Launchers /\ pc[k] = "saving" /\ Out(k) = Out(l)
      /\ clobbered' \subseteq Dirs
  BY <1>1, SavingOf DEF Baking, TypeOK
<1>3. parts \in SUBSET SUBSET Shards /\ (~trusted => parts \subseteq {Shards})
  <2>1. \A k \in Saving(Out(l)) \cup {l} :
          held[k].shards \in SUBSET Shards /\ (~trusted => held[k].shards = Shards)
    BY <1>2 DEF IsModelOf, Models
  <2> QED BY <2>1
<1> HIDE DEF parts
<1>4. Baked' /\ weights' \in [Dirs -> Models \cup {None, Torn}]
  BY <1>1, WeightsOf, Zenon
<1>5. TypeOK'
  <2>1. pc' \in [Launchers -> Places]
    BY <1>1 DEF TypeOK, Places
  <2>2. inFile' \in [Dirs -> SUBSET SUBSET Shards] /\ cut' \subseteq Launchers
    BY <1>1, <1>2, <1>3 DEF TypeOK
  <2> QED BY <1>1, <1>2, <1>4, <2>1, <2>2 DEF TypeOK
<1>6. SetUp'
  BY <1>1 DEF TypeOK, SetUp, AfterSetup, Places
<1>7. HasRead'
  BY <1>1 DEF TypeOK, HasRead
<1>8. Baking'
  BY <1>1 DEF TypeOK, Baking, IsModelOf
<1>9. Trained'
  BY <1>1 DEF TypeOK, Trained, IsFileOf
<1>10. Overwriting'
  <2>1. ASSUME NEW d \in Dirs, ~trusted PROVE inFile'[d] \subseteq {Shards}
    BY <1>1, <1>3, <2>1 DEF TypeOK, Overwriting
  <2>2. ASSUME NEW k \in cut'
        PROVE  pc'[k] \in {"writing train", "writing test"} \/ (pc'[k] = "saving" /\ Out(k)' \in clobbered')
    <3>1. Out(k)' = Out(k) /\ k \in Launchers
      BY <1>1, <1>2 DEF Out, TypeOK
    <3>2. k # l => pc'[k] = pc[k]
      BY <1>1, <3>1 DEF TypeOK
    <3>3. CASE k \in cut
      <4>1. k # l
        BY <1>1, <3>3 DEF Overwriting
      <4> QED BY <1>1, <3>1, <3>2, <3>3, <4>1 DEF Overwriting
    <3>4. CASE k \in Saving(Out(l))
      <4>1. k # l /\ pc[k] = "saving" /\ Out(k) \in clobbered'
        BY <1>1, <1>2, <3>4
      <4> QED BY <3>1, <3>2, <4>1
    <3> QED BY <1>1, <2>2, <3>3, <3>4
  <2> QED BY <1>1, <2>1, <2>2 DEF Overwriting
<1> QED BY <1>4, <1>5, <1>6, <1>7, <1>8, <1>9, <1>10

\* Models that were written over each other leave one of their kind; whole
\* ones leave a whole one.
LEMMA MixOf ==
  ASSUME NEW C \in SUBSET SUBSET Shards, NEW S \in Mix(C)
  PROVE  S \in SUBSET Shards /\ (C = {Shards} => S = Shards)
<1>1. S \in SUBSET UNION C /\ {s \in Shards : \A T \in C : s \in T} \subseteq S
  BY DEF Mix
<1>2. S \in SUBSET Shards
  BY <1>1
<1>3. ASSUME C = {Shards} PROVE Shards \subseteq S
  BY <1>1, <1>3
<1> QED BY <1>2, <1>3

\* A launcher that nobody cut, or that wrote over a whole file, leaves it whole.
LEMMA WrittenOf ==
  ASSUME PipelineInv, NEW l \in Launchers, pc[l] = "saving", NEW S \in Written(l)
  PROVE  /\ S \in SUBSET Shards
         /\ ~trusted /\ Out(l) \notin clobbered => S = Shards
<1> DEFINE parts == inFile[Out(l)] \cup {held[l].shards}
<1>1. /\ held[l].shards \in SUBSET Shards /\ (~trusted => held[l].shards = Shards)
  BY DEF PipelineInv, Baking, IsModelOf, Models
<1>2. parts \in SUBSET SUBSET Shards /\ (~trusted => parts = {Shards})
  BY <1>1, OutOf DEF PipelineInv, TypeOK, Overwriting
<1>3. CASE l \notin cut
  <2>1. S \in Mix(parts)
    BY <1>3 DEF Written
  <2> HIDE DEF parts
  <2> QED BY <1>2, <2>1, MixOf
<1>4. CASE l \in cut
  <2>1. Out(l) \in clobbered
    BY <1>4 DEF PipelineInv, Overwriting
  <2>2. CASE ~Readable(weights[Out(l)])
    BY <1>2, <1>4, <2>1, <2>2 DEF Written
  <2>3. CASE Readable(weights[Out(l)])
    <3>1. weights[Out(l)].shards \in SUBSET Shards
      BY <2>3, OutOf DEF PipelineInv, TypeOK, Readable, Models
    <3>2. S \in Mix({held[l].shards, weights[Out(l)].shards})
      BY <1>4, <2>3 DEF Written
    <3> QED BY <1>1, <2>1, <3>1, <3>2, MixOf
  <2> QED BY <2>2, <2>3
<1> QED BY <1>3, <1>4

LEMMA SaveWeightsStep ==
  ASSUME NEW l \in Launchers, PipelineInv, SaveWeights(l)
  PROVE  PipelineInv'
<1> USE DEF PipelineInv, Goto, unbakedDir, history
<1>1. /\ pc[l] = "saving" /\ pc' = [pc EXCEPT ![l] = "copy"] /\ cut' = cut \ {l}
      /\ UNCHANGED <<launches, start, read, held, files, unbaked, made, config, data, inFile>>
      /\ UNCHANGED <<disturbed, trusted, clobbered>>
  BY DEF SaveWeights
<1>2. Baked' /\ weights' \in [Dirs -> Models \cup {None, Torn}]
  <2>1. CASE UNCHANGED weights
    BY <1>1, <2>1 DEF Baked, IsFileOf, TypeOK
  <2>2. ASSUME NEW S \in Written(l),
               weights' = [weights EXCEPT ![Out(l)] = [start |-> held[l].start, shards |-> S]]
        PROVE  Baked' /\ weights' \in [Dirs -> Models \cup {None, Torn}]
    <3> DEFINE w == [start |-> held[l].start, shards |-> S]
    <3>1. held[l].start = start[l] /\ start[l] \in Starts
      BY <1>1, OutOf DEF Baking, IsModelOf
    <3>2. S \in SUBSET Shards /\ (~trusted /\ Out(l) \notin clobbered => S = Shards)
      BY <1>1, WrittenOf
    <3>3. w \in Models /\ w.start = start[l] /\ w.shards = S
      BY <3>1, <3>2, ModelWith
    <3>4. weights' = [weights EXCEPT ![Out(l)] = w]
      BY <2>2
    <3> HIDE DEF w
    <3> QED BY <1>1, <3>2, <3>3, <3>4, WeightsOf
  <2> QED BY <2>1, <2>2 DEF SaveWeights
<1>3. TypeOK'
  <2>1. pc' \in [Launchers -> Places]
    BY <1>1 DEF TypeOK, Places
  <2> QED BY <1>1, <1>2, <2>1 DEF TypeOK
<1>4. SetUp'
  BY <1>1 DEF TypeOK, SetUp, AfterSetup, Places
<1>5. HasRead'
  BY <1>1 DEF TypeOK, HasRead
<1>6. Baking'
  BY <1>1 DEF TypeOK, Baking, IsModelOf
<1>7. Trained'
  BY <1>1 DEF TypeOK, Trained, IsFileOf
<1>8. Overwriting'
  BY <1>1 DEF TypeOK, Overwriting, Out
<1> QED BY <1>2, <1>3, <1>4, <1>5, <1>6, <1>7, <1>8

LEMMA BakeCopyStep ==
  ASSUME NEW l \in Launchers, PipelineInv, BakeCopy(l)
  PROVE  PipelineInv'
<1> USE DEF PipelineInv, BakeCopy, Goto, unbakedDir, openFiles, history
<1>1. TypeOK'
  <2>1. pc' \in [Launchers -> Places]
    BY DEF TypeOK, Places
  <2>2. config' \in [Dirs -> Configs \cup {None, Torn}]
    BY DEF TypeOK
  <2> QED BY <2>1, <2>2 DEF TypeOK
<1>2. SetUp'
  BY DEF TypeOK, SetUp, AfterSetup, Places
<1>3. HasRead'
  BY DEF TypeOK, HasRead
<1>4. Baking'
  BY DEF TypeOK, Baking, IsModelOf
<1>5. Baked'
  <2>1. Readable(unbaked) /\ ~trusted => "overlay" \in unbaked.fields
    BY DEF SetUp, AfterSetup, Places
  <2> QED BY <2>1 DEF TypeOK, Baked, IsFileOf
<1>6. Trained'
  BY DEF TypeOK, Trained, IsFileOf
<1>7. Overwriting'
  BY DEF TypeOK, Overwriting, Out
<1> QED BY <1>1, <1>2, <1>3, <1>4, <1>5, <1>6, <1>7

LEMMA BakeConfigOpenStep ==
  ASSUME NEW l \in Launchers, PipelineInv, BakeConfigOpen(l)
  PROVE  PipelineInv'
<1>1. CASE ~Readable(config[Out(l)])
  BY <1>1, Fails DEF BakeConfigOpen, FileWrites
<1>2. CASE Readable(config[Out(l)])
  <2> USE <1>2 DEF PipelineInv, BakeConfigOpen, Goto, unbakedDir, openFiles, history
  <2>1. config[Out(l)] \in Configs /\ (~trusted => "overlay" \in config[Out(l)].fields)
    BY OutOf DEF TypeOK, Readable, Baked
  <2>2. TypeOK'
    <3>1. pc' \in [Launchers -> Places]
      BY DEF TypeOK, Places
    <3>2. read' \in [Launchers -> Configs \cup {None}]
      BY <2>1 DEF TypeOK
    <3>3. config' \in [Dirs -> Configs \cup {None, Torn}]
      BY DEF TypeOK
    <3> QED BY <3>1, <3>2, <3>3 DEF TypeOK
  <2>3. SetUp'
    BY DEF TypeOK, SetUp, AfterSetup, Places
  <2>4. HasRead'
    BY <2>1 DEF TypeOK, HasRead
  <2>5. Baking'
    BY DEF TypeOK, Baking, IsModelOf
  <2>6. Baked'
    BY DEF TypeOK, Baked, IsFileOf, Readable
  <2>7. Trained'
    BY DEF TypeOK, Trained, IsFileOf
  <2>8. Overwriting'
    BY DEF TypeOK, Overwriting, Out
  <2> QED BY <2>2, <2>3, <2>4, <2>5, <2>6, <2>7, <2>8
<1> QED BY <1>1, <1>2

LEMMA BakeConfigWriteStep ==
  ASSUME NEW l \in Launchers, PipelineInv, BakeConfigWrite(l)
  PROVE  PipelineInv'
<1> USE DEF PipelineInv, BakeConfigWrite, Goto, unbakedDir, openFiles, history
<1> DEFINE c == [fields |-> read[l].fields \cup {"baked"}]
<1>1. c \in Configs /\ (~trusted => "overlay" \in c.fields)
  BY Overlaid DEF HasRead
<1>2. config' = [config EXCEPT ![Out(l)] = c]
  OBVIOUS
<1> HIDE DEF c
<1>3. TypeOK'
  <2>1. pc' \in [Launchers -> Places]
    BY DEF TypeOK, Places
  <2>2. config' \in [Dirs -> Configs \cup {None, Torn}]
    BY <1>1, <1>2 DEF TypeOK
  <2> QED BY <2>1, <2>2 DEF TypeOK
<1>4. SetUp'
  BY DEF TypeOK, SetUp, AfterSetup, Places
<1>5. HasRead'
  BY DEF TypeOK, HasRead
<1>6. Baking'
  BY DEF TypeOK, Baking, IsModelOf
<1>7. Baked'
  BY <1>1, <1>2 DEF TypeOK, Baked, IsFileOf
<1>8. Trained'
  BY DEF TypeOK, Trained, IsFileOf
<1>9. Overwriting'
  BY DEF TypeOK, Overwriting, Out
<1> QED BY <1>3, <1>4, <1>5, <1>6, <1>7, <1>8, <1>9

LEMMA BakeStep ==
  ASSUME NEW l \in Launchers, PipelineInv, Bake(l)
  PROVE  PipelineInv'
<1>1. CASE CheckBaked(l)
  BY <1>1, MovesOn DEF CheckBaked, AfterSetup, FileWrites, Places
<1>2. CASE BakeVerify(l)
  BY <1>2, MovesOn, Fails DEF BakeVerify, AfterSetup, FileWrites, Places
<1> QED BY <1>1, <1>2, BakeLoadsStep, BakeDirStep, SaveWeightsOpenStep, SaveWeightsStep,
           BakeCopyStep, BakeConfigOpenStep, BakeConfigWriteStep DEF Bake

-----------------------------------------------------------------------------
(* The data files and the training process *)

LEMMA WriteDataStep ==
  ASSUME NEW l \in Launchers, PipelineInv, WriteData(l)
  PROVE  PipelineInv'
<1> USE DEF PipelineInv, Goto, unbakedDir, bakedDirs, history
<1>1. PICK p \in {"writing train", "writing test", "test", "loadData"} :
        pc[l] \in {"train", "test", "writing train", "writing test"} /\ pc' = [pc EXCEPT ![l] = p]
  BY DEF WriteData, Splits, Writing
<1>2. data' \in [Splits -> {None, Torn, "whole"}]
  BY DEF WriteData, TypeOK
<1>3. /\ UNCHANGED <<launches, start, read, held, files, unbaked, made, weights, config>>
      /\ UNCHANGED <<inFile, disturbed, trusted, clobbered>>
  BY DEF WriteData
<1>4. TypeOK'
  <2>1. pc' \in [Launchers -> Places]
    BY <1>1 DEF TypeOK, Places, Splits, Writing
  <2>2. cut' \subseteq Launchers
    BY DEF WriteData, TypeOK
  <2> QED BY <1>2, <1>3, <2>1, <2>2 DEF TypeOK
<1>5. SetUp'
  BY <1>1, <1>3 DEF TypeOK, SetUp, AfterSetup, Places, Splits, Writing
<1>6. HasRead'
  BY <1>1, <1>3 DEF TypeOK, HasRead
<1>7. Baking'
  BY <1>1, <1>3 DEF TypeOK, Baking, IsModelOf
<1>8. Baked'
  BY <1>3 DEF Baked, IsFileOf
<1>9. Trained'
  BY <1>1, <1>3 DEF TypeOK, Trained, IsFileOf
<1>10. Overwriting'
  <2>1. ASSUME NEW k \in cut'
        PROVE  pc'[k] \in {"writing train", "writing test"} \/ (pc'[k] = "saving" /\ Out(k)' \in clobbered')
    <3>1. \/ k \in cut /\ (k = l => pc[l] \in {"train", "test"})
          \/ pc[k] \in {"writing train", "writing test"} /\ k # l /\ k \in Launchers
      BY <2>1 DEF WriteData, Splits, Writing
    <3>2. k # l
      BY <3>1 DEF Overwriting
    <3> QED BY <1>1, <1>3, <3>1, <3>2 DEF TypeOK, Overwriting, Out
  <2> QED BY <1>3, <2>1 DEF Overwriting
<1> QED BY <1>4, <1>5, <1>6, <1>7, <1>8, <1>9, <1>10

LEMMA LoadConfigStep ==
  ASSUME NEW l \in Launchers, PipelineInv, LoadConfig(l)
  PROVE  PipelineInv'
<1>1. CASE ~Readable(config[Out(l)])
  BY <1>1, Fails DEF LoadConfig, FileWrites
<1>2. CASE Readable(config[Out(l)])
  <2> USE <1>2 DEF PipelineInv, LoadConfig, Goto, disk, unbakedDir, bakedDirs, openFiles, history
  <2>1. config[Out(l)] \in Configs /\ (~trusted => "overlay" \in config[Out(l)].fields)
    BY OutOf DEF TypeOK, Readable, Baked
  <2>2. TypeOK'
    <3>1. pc' \in [Launchers -> Places]
      BY DEF TypeOK, Places
    <3>2. read' \in [Launchers -> Configs \cup {None}]
      BY <2>1 DEF TypeOK
    <3> QED BY <3>1, <3>2 DEF TypeOK
  <2>3. SetUp'
    BY DEF TypeOK, SetUp, AfterSetup, Places
  <2>4. HasRead'
    BY <2>1 DEF TypeOK, HasRead
  <2>5. Baking'
    BY DEF TypeOK, Baking, IsModelOf
  <2>6. Baked'
    BY DEF Baked, IsFileOf
  <2>7. Trained'
    BY DEF TypeOK, Trained, IsFileOf
  <2>8. Overwriting'
    BY DEF TypeOK, Overwriting, Out
  <2> QED BY <2>2, <2>3, <2>4, <2>5, <2>6, <2>7, <2>8
<1> QED BY <1>1, <1>2

\* A model without the overlay is only loaded if some launch was mistaken.
LEMMA LoadWeightsStep ==
  ASSUME NEW l \in Launchers, PipelineInv, LoadWeights(l)
  PROVE  PipelineInv'
<1>1. CASE Fail(l)
  BY <1>1, Fails DEF LoadWeights, FileWrites
<1>2. CASE ~Fail(l)
  <2> USE <1>2 DEF PipelineInv, Goto, disk, unbakedDir, bakedDirs, openFiles, history
  <2>1. PICK m \in Models \cup {Plain} :
          /\ held' = [held EXCEPT ![l] = m]
          /\ (m = Plain /\ trusted) \/ IsFileOf(m, start[l])
    <3>1. CASE "overlay" \in read[l].fields
      <4>1. weights[Out(l)] \in Models /\ held' = [held EXCEPT ![l] = weights[Out(l)]]
        BY <3>1, OutOf DEF LoadWeights, FitsBaked, TypeOK
      <4> QED BY <4>1, OutOf DEF Baked
    <3>2. CASE "overlay" \notin read[l].fields
      <4>1. held' = [held EXCEPT ![l] = Plain] /\ trusted
        BY <3>2 DEF LoadWeights, HasRead
      <4> QED BY <4>1
    <3> QED BY <3>1, <3>2
  <2>2. /\ pc[l] = "loadWeights" /\ pc' = [pc EXCEPT ![l] = "training"]
        /\ UNCHANGED <<launches, start, read, files, unbaked, made, weights, config, data>>
        /\ UNCHANGED <<cut, inFile, disturbed, trusted, clobbered>>
    BY DEF LoadWeights
  <2>3. TypeOK'
    <3>1. pc' \in [Launchers -> Places]
      BY <2>2 DEF TypeOK, Places, Stopped
    <3>2. held' \in [Launchers -> Models \cup {None, Plain}]
      BY <2>1 DEF TypeOK
    <3> QED BY <2>2, <3>1, <3>2 DEF TypeOK
  <2>4. SetUp'
    BY <2>2 DEF TypeOK, SetUp, AfterSetup, Places
  <2>5. HasRead'
    BY <2>2 DEF TypeOK, HasRead
  <2>6. Baking'
    BY <2>1, <2>2 DEF TypeOK, Baking, IsModelOf
  <2>7. Baked'
    BY <2>2 DEF Baked, IsFileOf
  <2>8. Trained'
    BY <2>1, <2>2 DEF TypeOK, Trained, IsFileOf
  <2>9. Overwriting'
    BY <2>2 DEF TypeOK, Overwriting, Out
  <2> QED BY <2>3, <2>4, <2>5, <2>6, <2>7, <2>8, <2>9
<1> QED BY <1>1, <1>2

LEMMA TrainStep ==
  ASSUME NEW l \in Launchers, PipelineInv, Train(l)
  PROVE  PipelineInv'
<1>1. CASE CheckData(l)
  BY <1>1, MovesOn DEF CheckData, AfterSetup, FileWrites, Places
<1>2. CASE LoadData(l)
  BY <1>2, MovesOn, Fails DEF LoadData, AfterSetup, FileWrites, Places
<1> QED BY <1>1, <1>2, WriteDataStep, LoadConfigStep, LoadWeightsStep DEF Train

-----------------------------------------------------------------------------
(* The theorems *)

LEMMA Initially == Init => PipelineInv
<1> SUFFICES ASSUME Init PROVE PipelineInv
  OBVIOUS
<1>1. TypeOK
  <2>1. launches \in 0 .. MaxLaunches /\ files \subseteq Files /\ made \subseteq Dirs
    BY LaunchAssumption DEF Init
  <2>2. pc \in [Launchers -> Places] /\ start \in [Launchers -> Starts]
    BY LaunchAssumption DEF Init, Places, Stopped
  <2>3. /\ read \in [Launchers -> Configs \cup {None}]
        /\ held \in [Launchers -> Models \cup {None, Plain}]
    BY DEF Init
  <2>4. /\ unbaked \in Configs \cup {None, Torn}
        /\ data \in [Splits -> {None, Torn, "whole"}]
    BY DEF Init
  <2>5. /\ weights \in [Dirs -> Models \cup {None, Torn}]
        /\ config \in [Dirs -> Configs \cup {None, Torn}]
    BY DEF Init
  <2>6. /\ cut \subseteq Launchers /\ inFile \in [Dirs -> SUBSET SUBSET Shards]
        /\ disturbed \in BOOLEAN /\ trusted \in BOOLEAN /\ clobbered \subseteq Dirs
    BY DEF Init
  <2> QED BY <2>1, <2>2, <2>3, <2>4, <2>5, <2>6 DEF TypeOK
<1>2. SetUp /\ HasRead /\ Baking /\ Trained /\ Overwriting
  BY DEF Init, SetUp, HasRead, Baking, Trained, Overwriting, AfterSetup
<1>3. Baked
  BY Distinct, DirOf DEF Init, Baked, Readable
<1> QED BY <1>1, <1>2, <1>3 DEF PipelineInv

LEMMA Stuttering ==
  ASSUME PipelineInv, UNCHANGED vars
  PROVE  PipelineInv'
<1> USE DEF PipelineInv, vars, launcher, disk, unbakedDir, bakedDirs, openFiles, history
<1>1. TypeOK' /\ SetUp' /\ HasRead'
  BY DEF TypeOK, SetUp, HasRead
<1>2. Baking' /\ Baked' /\ Trained' /\ Overwriting'
  BY DEF Baking, Baked, Trained, Overwriting, Out, IsModelOf, IsFileOf
<1> QED BY <1>1, <1>2

LEMMA Invariant == Spec => []PipelineInv
<1>1. PipelineInv /\ [Next]_vars => PipelineInv'
  BY Stuttering, LaunchStep, SetupStep, BakeStep, TrainStep DEF Next
<1> QED BY <1>1, Initially, PTL DEF Spec

\* Every file and every launcher's memory hold what the module says they may.
THEOREM TypeCorrect == Spec => []TypeOK
<1>1. PipelineInv => TypeOK
  BY DEF PipelineInv
<1> QED BY <1>1, Invariant, PTL

\* Launches of several starting models, one after the other or at once, never
\* train the model baked for another one.
THEOREM OwnModel == Spec => []TrainsFromItsStart
<1>1. PipelineInv => TrainsFromItsStart
  BY DEF PipelineInv, Trained, TrainsFromItsStart, IsFileOf
<1> QED BY <1>1, Invariant, PTL

\* A launch trains the whole model of its start unless some launch took a
\* setup that was cut off as finished, or two launches wrote the weights of
\* that start at once.  Kills, and launches of other starts at the same time,
\* end in a failed launch and never in a wrong model.
THEOREM WrongOnlyAfterPartialSetupOrTwoBakes == Spec => []NeverSilentlyWrong
<1>1. PipelineInv => NeverSilentlyWrong
  <2> SUFFICES ASSUME PipelineInv, ~trusted, NEW l \in Launchers, Out(l) \notin clobbered,
                      pc[l] = "training"
               PROVE  held[l] = Whole(start[l])
    BY DEF NeverSilentlyWrong
  <2>1. IsFileOf(held[l], start[l])
    BY DEF PipelineInv, Trained
  <2> QED BY <2>1 DEF IsFileOf, Out, Models, Whole
<1> QED BY <1>1, Invariant, PTL

-----------------------------------------------------------------------------
(* Launches that nothing disturbs *)

\* What a launcher that is the only one finds.
Finds(l) == UnbakedAt(l) /\ MadeAt(l) /\ DataAt(l)

LEMMA CalmIs ==
  ASSUME Calm, ~disturbed, NEW l \in Launchers, pc[l] \notin Stopped
  PROVE  Alone(l) /\ Finds(l) /\ ~trusted /\ cut = {}
BY DEF Calm, Finds

\* A step of the only launcher that keeps what it finds keeps the calm.
LEMMA CalmKept ==
  ASSUME TypeOK, Calm, ~disturbed, NEW l \in Launchers, pc[l] \notin Stopped,
         NEW p \in Places \ {"failed"}, pc' = [pc EXCEPT ![l] = p],
         start' = start, ~trusted', cut' = {}, Finds(l)'
  PROVE  Calm'
<1>1. Alone(l) /\ pc' \in [Launchers -> Places] /\ pc'[l] = p
  BY CalmIs DEF TypeOK
<1>2. \A k \in Launchers \ {l} : pc'[k] = pc[k] /\ pc[k] \in Stopped /\ pc[k] # "failed"
  BY <1>1 DEF Alone, Calm, TypeOK
<1>3. Alone(l)'
  BY <1>1, <1>2 DEF Alone
<1>4. ASSUME NEW k \in Launchers \ {l}, Alone(k)'
      PROVE  (UnbakedAt(k) /\ MadeAt(k) /\ DataAt(k))'
  <2>1. pc'[l] \in Stopped /\ pc'[k] \in Stopped
    BY <1>2, <1>4 DEF Alone
  <2>2. UnbakedAt(k)'
    <3>1. pc'[l] \notin {"download", "overlay"} /\ pc'[k] \notin {"download", "overlay"}
      BY <2>1 DEF Stopped
    <3> QED BY <3>1 DEF Finds, UnbakedAt
  <2>3. MadeAt(k)'
    <3>1. pc'[l] \notin InBake /\ pc'[k] \notin InBake \cup AfterBake
      <4>1. \A q \in Stopped : q \notin InBake \cup AfterBake
        BY DEF Stopped, InBake, AfterBake, Splits, Writing
      <4> QED BY <2>1, <4>1
    <3>2. \A d \in made' : FitsBaked(d)'
      BY <3>1 DEF Finds, MadeAt
    <3> QED BY <3>1, <3>2 DEF MadeAt, InBake
  <2>4. DataAt(k)'
    BY <2>1 DEF Finds, DataAt, Stopped
  <2> QED BY <2>2, <2>3, <2>4
<1> QED BY <1>1, <1>2, <1>3, <1>4 DEF Calm, Finds

\* The parts of what it finds that a step does not touch.
LEMMA UnbakedKept ==
  ASSUME NEW l \in Launchers, UnbakedAt(l), pc[l] \notin {"download", "overlay"},
         pc'[l] \notin {"download", "overlay"}, UNCHANGED unbakedDir
  PROVE  UnbakedAt(l)'
BY DEF UnbakedAt, unbakedDir, UnbakedIsReady

LEMMA MadeKept ==
  ASSUME NEW l \in Launchers, MadeAt(l), pc[l] \notin InBake, pc'[l] \notin InBake,
         UNCHANGED <<start, bakedDirs>>,
         pc'[l] \in AfterBake => FitsBaked(Out(l))
  PROVE  MadeAt(l)'
<1>1. Out(l)' = Out(l) /\ \A d \in made : FitsBaked(d)' <=> FitsBaked(d)
  BY DEF Out, FitsBaked, bakedDirs
<1>2. FitsBaked(Out(l))' <=> FitsBaked(Out(l))
  BY DEF Out, FitsBaked, bakedDirs
<1>3. made' = made
  BY DEF bakedDirs
<1> QED BY <1>1, <1>2, <1>3 DEF MadeAt, InBake

Writes == {"writing train", "test", "writing test"}

LEMMA DataKept ==
  ASSUME NEW l \in Launchers, DataAt(l), pc[l] \notin Writes, pc'[l] \notin Writes \cup {"loadData"},
         data' = data
  PROVE  DataAt(l)'
BY DEF DataAt, Writes

LEMMA ReadyAfterSetup ==
  ASSUME PipelineInv, NEW l \in Launchers, Finds(l), pc[l] \in AfterSetup
  PROVE  UnbakedIsReady
BY DEF PipelineInv, SetUp, Finds, UnbakedAt, AfterSetup

LEMMA CalmSetup ==
  ASSUME PipelineInv, Calm, ~disturbed, NEW l \in Launchers, Setup(l)
  PROVE  Calm'
<1>0. pc[l] \in {"setup", "guard", "download", "overlay"} /\ pc[l] \notin Stopped
  BY DEF Setup, CheckUnbaked, SetupGuard, Download, OverlayOpen, OverlayWrite, Stopped
<1>1. Alone(l) /\ UnbakedAt(l) /\ MadeAt(l) /\ DataAt(l) /\ ~trusted /\ cut = {} /\ TypeOK
  BY <1>0, CalmIs DEF Finds, PipelineInv
<1>2. \A p \in Places : pc' = [pc EXCEPT ![l] = p] => pc'[l] = p
  BY <1>1 DEF TypeOK
<1>3. pc[l] \notin InBake \cup AfterBake \cup Writes
  BY <1>0 DEF InBake, AfterBake, Splits, Writing, Writes
<1>4. ASSUME NEW p \in {"guard", "download", "overlay", "bake"},
             pc' = [pc EXCEPT ![l] = p], UNCHANGED <<start, bakedDirs, data, openFiles>>,
             ~trusted', UnbakedAt(l)'
      PROVE  Calm'
  <2>1. p \in Places \ {"failed"} /\ p \notin InBake \cup AfterBake \cup Writes \cup {"loadData"}
    BY DEF Places, Stopped, InBake, AfterBake, Splits, Writing, Writes
  <2>2. pc'[l] = p
    BY <1>2, <1>4, <2>1
  <2>3. MadeAt(l)'
    BY <1>1, <1>3, <1>4, <2>1, <2>2, MadeKept
  <2>4. DataAt(l)'
    BY <1>1, <1>3, <1>4, <2>1, <2>2, DataKept
  <2> QED BY <1>0, <1>1, <1>4, <2>1, <2>3, <2>4, CalmKept DEF Finds, openFiles
<1>5. CASE CheckUnbaked(l) \/ SetupGuard(l)
  <2>1. pc[l] \in {"setup", "guard"}
    BY <1>5 DEF CheckUnbaked, SetupGuard
  <2>2. CASE FoundUnbaked(l)
    <3>1. /\ pc' = [pc EXCEPT ![l] = "bake"] /\ unbaked # None
          /\ UNCHANGED <<start, unbakedDir, bakedDirs, data, openFiles>>
          /\ trusted' = (trusted \/ ~UnbakedIsReady)
      BY <2>2 DEF FoundUnbaked, Goto, disk
    <3>2. UnbakedIsReady
      BY <1>1, <2>1, <3>1 DEF UnbakedAt
    <3>3. "bake" \in Places
      BY DEF Places
    <3>4. UnbakedAt(l)'
      BY <1>1, <1>2, <2>1, <3>1, <3>3, UnbakedKept
    <3> QED BY <1>1, <1>4, <3>1, <3>2, <3>4
  <2>3. CASE ~FoundUnbaked(l)
    <3>1. PICK p \in {"guard", "download"} : Move(l, p)
      BY <1>5, <2>3 DEF CheckUnbaked, SetupGuard
    <3>2. /\ pc' = [pc EXCEPT ![l] = p] /\ unbaked = None
          /\ UNCHANGED <<start, unbakedDir, bakedDirs, data, openFiles, trusted>>
      BY <1>5, <2>3, <3>1 DEF CheckUnbaked, SetupGuard, Move, Goto, disk, history
    <3>3. UnbakedAt(l)'
      BY <3>2, Distinct DEF UnbakedAt, unbakedDir
    <3> QED BY <1>1, <1>4, <3>2, <3>3
  <2> QED BY <2>2, <2>3
<1>6. CASE Download(l)
  <2>1. /\ pc' = [pc EXCEPT ![l] = "download"] /\ pc[l] = "download"
        /\ UNCHANGED <<start, bakedDirs, data, openFiles, trusted>>
        /\ unbaked' \in {unbaked, [fields |-> {}]}
    BY <1>1, <1>6 DEF Download, launcher, history, TypeOK
  <2>2. unbaked' # Torn
    BY <1>1, <2>1, Overlaid, Distinct DEF UnbakedAt
  <2>3. pc'[l] = "download"
    BY <1>2, <2>1 DEF Places
  <2>4. UnbakedAt(l)'
    BY <2>2, <2>3 DEF UnbakedAt
  <2> QED BY <1>1, <1>4, <2>1, <2>4
<1>7. CASE OverlayOpen(l)
  <2>1. Readable(unbaked)
    BY <1>1, <1>7 DEF OverlayOpen, UnbakedAt, Readable
  <2>2. /\ pc' = [pc EXCEPT ![l] = "overlay"]
        /\ UNCHANGED <<start, bakedDirs, data, openFiles, trusted>>
    BY <1>7, <2>1 DEF OverlayOpen, Goto, history
  <2>3. pc'[l] = "overlay"
    BY <1>2, <2>2 DEF Places
  <2>4. UnbakedAt(l)'
    BY <2>3 DEF UnbakedAt
  <2> QED BY <1>1, <1>4, <2>2, <2>4
<1>8. CASE OverlayWrite(l)
  <2>1. /\ pc' = [pc EXCEPT ![l] = "bake"] /\ pc[l] = "overlay"
        /\ UNCHANGED <<start, files, bakedDirs, data, openFiles, trusted>>
        /\ unbaked' = [fields |-> read[l].fields \cup {"overlay"}]
    BY <1>8 DEF OverlayWrite, Goto, history
  <2>2. files = Files /\ read[l] \in Configs
    BY <2>1 DEF PipelineInv, SetUp, HasRead
  <2>3. UnbakedIsReady'
    BY <2>1, <2>2, Overlaid, Distinct DEF UnbakedIsReady, Readable
  <2>4. pc'[l] = "bake"
    BY <1>2, <2>1 DEF Places
  <2>5. UnbakedAt(l)'
    BY <2>3, <2>4 DEF UnbakedAt
  <2> QED BY <1>1, <1>4, <2>1, <2>5
<1> QED BY <1>5, <1>6, <1>7, <1>8 DEF Setup


LEMMA CalmBake ==
  ASSUME PipelineInv, Calm, ~disturbed, NEW l \in Launchers, Bake(l)
  PROVE  Calm'
<1>0. pc[l] \in {"bake", "loadBase", "mkdir", "verify"} \cup InBake
  BY DEF Bake, CheckBaked, BakeLoads, BakeDir, SaveWeightsOpen, SaveWeights, BakeCopy, BakeConfigOpen,
         BakeConfigWrite, BakeVerify, InBake
<1>1. pc[l] \notin Stopped \cup Writes \cup {"download", "overlay"} /\ pc[l] \in AfterSetup
  BY <1>0 DEF InBake, Stopped, Writes, AfterSetup, Places
<1>2. Alone(l) /\ UnbakedAt(l) /\ MadeAt(l) /\ DataAt(l) /\ ~trusted /\ cut = {} /\ TypeOK /\ Finds(l)
  BY <1>1, CalmIs DEF Finds, PipelineInv
<1>3. \A p \in Places : pc' = [pc EXCEPT ![l] = p] => pc'[l] = p
  BY <1>2 DEF TypeOK
<1>4. UnbakedIsReady
  BY <1>1, <1>2, ReadyAfterSetup
<1>5. ASSUME NEW p \in {"loadBase", "mkdir", "verify", "data"} \cup InBake,
             pc' = [pc EXCEPT ![l] = p], UNCHANGED <<start, unbakedDir, data, trusted>>,
             cut' = {}, MadeAt(l)'
      PROVE  Calm'
  <2>1. p \in Places \ {"failed"} /\ p \notin Writes \cup {"loadData", "download", "overlay"}
    BY DEF Places, Stopped, InBake, Writes
  <2>2. pc'[l] = p
    BY <1>3, <1>5, <2>1
  <2>3. UnbakedAt(l)' /\ DataAt(l)'
    BY <1>1, <1>2, <1>5, <2>1, <2>2, UnbakedKept, DataKept
  <2> QED BY <1>1, <1>2, <1>5, <2>1, <2>3, CalmKept DEF Finds
<1>6. ASSUME NEW p \in {"loadBase", "mkdir", "data"}, pc' = [pc EXCEPT ![l] = p],
             UNCHANGED <<start, disk, trusted>>, pc[l] \notin InBake,
             p = "data" => FitsBaked(Out(l))
      PROVE  Calm'
  <2>1. pc'[l] = p /\ p \notin InBake /\ (p \in AfterBake => p = "data")
    BY <1>3, <1>6 DEF Places, InBake, AfterBake, Splits, Writing
  <2>2. MadeAt(l)'
    BY <1>2, <1>6, <2>1, MadeKept DEF disk, openFiles
  <2> QED BY <1>2, <1>5, <1>6, <2>2 DEF disk, openFiles
<1>7. CASE CheckBaked(l)
  <2>1. pc[l] = "bake" /\ Move(l, IF Out(l) \in made THEN "data" ELSE "loadBase")
    BY <1>7 DEF CheckBaked
  <2>2. "bake" \notin InBake
    BY DEF InBake
  <2>3. Out(l) \in made => FitsBaked(Out(l))
    BY <1>2, <2>1, <2>2 DEF MadeAt
  <2>4. PICK p \in {"loadBase", "data"} : Move(l, p) /\ (p = "data" => FitsBaked(Out(l)))
    BY <2>1, <2>3
  <2> QED BY <1>6, <2>1, <2>2, <2>4 DEF Move, Goto, history, openFiles
<1>8. CASE BakeLoads(l)
  <2>1. pc[l] = "loadBase" /\ Readable(unbaked) /\ files \cap Shards # {} /\ Tokenizer \in files
    BY <1>4, <1>8, LaunchAssumption DEF BakeLoads, UnbakedIsReady, Files
  <2>2. pc' = [pc EXCEPT ![l] = "mkdir"] /\ UNCHANGED <<start, disk, trusted>>
    BY <1>8, <2>1 DEF BakeLoads, Goto, history, openFiles
  <2>3. pc[l] \notin InBake
    BY <2>1 DEF InBake
  <2> QED BY <1>6, <2>2, <2>3
<1>9. CASE BakeVerify(l)
  <2>1. pc[l] = "verify" /\ pc[l] \notin InBake /\ pc[l] \in AfterBake
    BY <1>9 DEF BakeVerify, InBake, AfterBake
  <2>2. FitsBaked(Out(l))
    BY <1>2, <2>1 DEF MadeAt
  <2>3. Move(l, "data")
    BY <1>9, <2>2 DEF BakeVerify
  <2> QED BY <1>6, <2>1, <2>2, <2>3 DEF Move, Goto, history, openFiles
<1>10. \A d \in Dirs : d # Out(l) /\ d \in made => FitsBaked(d)
  BY <1>2 DEF MadeAt
<1>11. made \subseteq Dirs /\ Out(l) \in Dirs
  BY <1>2, OutOf DEF TypeOK
<1>12. ASSUME start' = start PROVE Out(l)' = Out(l)
  BY <1>12 DEF Out
<1>13. CASE BakeDir(l)
  <2>1. /\ pc' = [pc EXCEPT ![l] = "save"] /\ made' = made \cup {Out(l)}
        /\ UNCHANGED <<start, unbakedDir, weights, config, data, cut, trusted>>
    BY <1>13 DEF BakeDir, Goto, history, openFiles
  <2>2. pc'[l] = "save" /\ "save" \in InBake
    BY <1>3, <2>1 DEF Places, InBake
  <2>3. \A d \in made : d # Out(l) => FitsBaked(d)'
    BY <1>10, <1>11, <2>1 DEF FitsBaked
  <2>4. \A d \in made' : FitsBaked(d)' \/ (pc'[l] \in InBake /\ d = Out(l)')
    BY <1>12, <2>1, <2>2, <2>3
  <2>5. "save" \notin AfterBake \cup {"copy", "flag", "flagging"}
    BY DEF AfterBake, Splits, Writing
  <2>6. MadeAt(l)'
    BY <2>2, <2>4, <2>5 DEF MadeAt
  <2> QED BY <1>2, <1>5, <2>1, <2>2, <2>6
<1>14. CASE SaveWeightsOpen(l) \/ SaveWeights(l)
  <2>1. Saving(Out(l)) \subseteq {l} /\ (pc[l] = "save" => Saving(Out(l)) = {})
    <3>1. \A q \in Stopped : q # "saving"
      BY DEF Stopped
    <3> QED BY <1>2, <3>1 DEF Saving, Alone
  <2>2. UNCHANGED <<start, unbakedDir, made, config, data, trusted>> /\ cut' = {}
    BY <1>2, <1>14, <2>1 DEF SaveWeightsOpen, SaveWeights, history
  <2>3. PICK p \in {"saving", "copy"}, w \in Models \cup {Torn} :
          /\ pc' = [pc EXCEPT ![l] = p] /\ weights' = [weights EXCEPT ![Out(l)] = w]
          /\ p = "copy" => w \in Models
    <3>1. CASE SaveWeightsOpen(l)
      BY <3>1 DEF SaveWeightsOpen, Goto
    <3>2. CASE SaveWeights(l)
      <4>1. pc[l] = "saving" /\ l \notin cut /\ pc' = [pc EXCEPT ![l] = "copy"]
        BY <1>2, <3>2 DEF SaveWeights, Goto
      <4>2. PICK S \in Written(l) :
              weights' = [weights EXCEPT ![Out(l)] = [start |-> held[l].start, shards |-> S]]
        BY <3>2, <4>1 DEF SaveWeights
      <4>3. S \in SUBSET Shards
        BY <4>1, WrittenOf
      <4>4. held[l].start \in Starts
        BY <4>1 DEF PipelineInv, Baking, IsModelOf, Models
      <4>5. [start |-> held[l].start, shards |-> S] \in Models
        BY <4>3, <4>4, ModelWith
      <4> QED BY <4>1, <4>2, <4>5
    <3> QED BY <1>14, <3>1, <3>2
  <2>4. p = "copy" => weights'[Out(l)] \notin {None, Torn}
    BY <1>2, <1>11, <2>3, Distinct DEF TypeOK
  <2>5. pc'[l] = p /\ p \in InBake /\ p \notin AfterBake \cup {"flag", "flagging"}
    BY <1>3, <2>3 DEF Places, InBake, AfterBake, Splits, Writing
  <2>6. \A d \in made : d # Out(l) => weights'[d] = weights[d]
    BY <1>2, <1>11, <2>3 DEF TypeOK
  <2>7. \A d \in made : d # Out(l) => FitsBaked(d)'
    BY <1>10, <1>11, <2>2, <2>6 DEF FitsBaked
  <2>8. MadeAt(l)'
    BY <1>12, <2>2, <2>4, <2>5, <2>7 DEF MadeAt
  <2> QED BY <1>5, <2>2, <2>3, <2>5, <2>8
<1>15. ASSUME NEW p \in {"flag", "flagging", "verify"}, pc' = [pc EXCEPT ![l] = p],
              pc[l] \in {"copy", "flag", "flagging"},
              UNCHANGED <<start, unbakedDir, made, weights, data, cut, trusted>>,
              NEW c, config' = [config EXCEPT ![Out(l)] = c],
              p = "flag" => Readable(c),
              p = "verify" => Readable(c) /\ "baked" \in c.fields
       PROVE  Calm'
  <2>1. weights[Out(l)] \notin {None, Torn}
    BY <1>2, <1>15 DEF MadeAt
  <2>2. config'[Out(l)] = c /\ \A d \in made : d # Out(l) => config'[d] = config[d]
    BY <1>2, <1>11, <1>15 DEF TypeOK
  <2>3. pc'[l] = p /\ (p \notin InBake <=> p = "verify") /\ (p \in AfterBake <=> p = "verify")
    BY <1>3, <1>15 DEF Places, InBake, AfterBake, Splits, Writing
  <2>4. \A d \in made : d # Out(l) => FitsBaked(d)'
    BY <1>10, <1>11, <1>15, <2>2 DEF FitsBaked
  <2>5. Out(l)' = Out(l) /\ (p = "verify" => FitsBaked(Out(l))')
    BY <1>12, <1>15, <2>1, <2>2 DEF FitsBaked
  <2>6. \A d \in made' : FitsBaked(d)' \/ (pc'[l] \in InBake /\ d = Out(l)')
    BY <1>15, <2>3, <2>4, <2>5
  <2>7. MadeAt(l)'
    BY <1>15, <2>1, <2>2, <2>3, <2>5, <2>6 DEF MadeAt
  <2> QED BY <1>2, <1>5, <1>15, <2>3, <2>7 DEF InBake
<1>16. CASE BakeCopy(l)
  <2>1. Readable(unbaked) /\ unbaked # None
    BY <1>4 DEF UnbakedIsReady, Readable
  <2>2. config' = [config EXCEPT ![Out(l)] = unbaked]
    BY <1>16, <2>1 DEF BakeCopy
  <2> QED BY <1>15, <1>16, <2>1, <2>2 DEF BakeCopy, Goto, history, openFiles
<1>17. CASE BakeConfigOpen(l)
  <2>1. Readable(config[Out(l)])
    BY <1>2, <1>17 DEF BakeConfigOpen, MadeAt
  <2>2. /\ pc[l] = "flag" /\ pc' = [pc EXCEPT ![l] = "flagging"]
        /\ config' = [config EXCEPT ![Out(l)] = Torn]
        /\ UNCHANGED <<start, unbakedDir, made, weights, data, cut, trusted>>
    BY <1>17, <2>1 DEF BakeConfigOpen, Goto, history, openFiles
  <2> QED BY <1>15, <2>2
<1>18. CASE BakeConfigWrite(l)
  <2> DEFINE c == [fields |-> read[l].fields \cup {"baked"}]
  <2>1. /\ pc[l] = "flagging" /\ pc' = [pc EXCEPT ![l] = "verify"]
        /\ config' = [config EXCEPT ![Out(l)] = c]
        /\ UNCHANGED <<start, unbakedDir, made, weights, data, cut, trusted>>
    BY <1>18 DEF BakeConfigWrite, Goto, history, openFiles
  <2>2. c \in Configs /\ "baked" \in c.fields
    BY <2>1, Overlaid DEF PipelineInv, HasRead
  <2> HIDE DEF c
  <2>3. Readable(c)
    BY <2>2, Distinct DEF Readable
  <2> QED BY <1>15, <2>1, <2>2, <2>3
<1>19. \/ CheckBaked(l) \/ BakeLoads(l) \/ BakeDir(l) \/ SaveWeightsOpen(l) \/ SaveWeights(l)
       \/ BakeCopy(l) \/ BakeConfigOpen(l) \/ BakeConfigWrite(l) \/ BakeVerify(l)
  BY Zenon DEF Bake
<1> QED BY <1>7, <1>8, <1>9, <1>13, <1>14, <1>16, <1>17, <1>18, <1>19

LEMMA CalmTrain ==
  ASSUME PipelineInv, Calm, ~disturbed, NEW l \in Launchers, Train(l)
  PROVE  Calm'
<1>0. pc[l] \in AfterBake /\ pc[l] # "verify"
  <2>1. ASSUME WriteData(l) PROVE pc[l] \in {"train", "writing train", "test", "writing test"}
    BY <2>1 DEF WriteData, Splits, Writing
  <2>2. pc[l] \in {"data", "loadData", "loadConfig", "loadWeights"} \/ WriteData(l)
    BY DEF Train, CheckData, LoadData, LoadConfig, LoadWeights
  <2> QED BY <2>1, <2>2 DEF AfterBake, Splits, Writing
<1>1. pc[l] \notin Stopped \cup InBake \cup {"download", "overlay"}
  BY <1>0 DEF AfterBake, Splits, Writing, InBake, Stopped
<1>2. Alone(l) /\ UnbakedAt(l) /\ MadeAt(l) /\ DataAt(l) /\ ~trusted /\ cut = {} /\ TypeOK
  BY <1>1, CalmIs DEF Finds, PipelineInv
<1>3. FitsBaked(Out(l))
  BY <1>0, <1>2 DEF MadeAt
<1>4. ASSUME NEW p \in (AfterBake \ {"verify"}) \cup {"training"},
             pc' = [pc EXCEPT ![l] = p], UNCHANGED <<start, unbakedDir, bakedDirs, trusted>>,
             cut' = {}, DataAt(l)'
      PROVE  Calm'
  <2>1. p \in Places \ {"failed"} /\ p \notin InBake \cup {"download", "overlay"}
    BY DEF Places, Stopped, InBake, AfterBake, Splits, Writing
  <2>2. pc'[l] = p
    BY <1>2, <1>4 DEF TypeOK
  <2>3. UnbakedAt(l)'
    BY <1>1, <1>2, <1>4, <2>1, <2>2, UnbakedKept
  <2>4. MadeAt(l)'
    BY <1>1, <1>2, <1>3, <1>4, <2>1, <2>2, MadeKept
  <2> QED BY <1>1, <1>2, <1>4, <2>1, <2>3, <2>4, CalmKept DEF Finds
<1>5. ASSUME NEW p \in {"train", "loadData", "loadConfig", "loadWeights", "training"},
             pc' = [pc EXCEPT ![l] = p], UNCHANGED <<start, disk, trusted>>,
             pc[l] \notin Writes, p = "loadData" => \A f \in Splits : data[f] = "whole"
      PROVE  Calm'
  <2>1. p \in (AfterBake \ {"verify"}) \cup {"training"} /\ p \notin Writes
    BY DEF AfterBake, Splits, Writing, Writes
  <2>2. pc'[l] = p
    BY <1>2, <1>5 DEF TypeOK
  <2>3. DataAt(l)'
    BY <1>2, <1>5, <2>1, <2>2 DEF DataAt, Writes, disk
  <2> QED BY <1>2, <1>4, <1>5, <2>1, <2>3 DEF disk, openFiles
<1>6. CASE CheckData(l)
  <2>1. pc[l] = "data" /\ pc[l] \notin Writes
    BY <1>6 DEF CheckData, Writes
  <2>2. \/ \A f \in Splits : data[f] = None
        \/ \A f \in Splits : data[f] = "whole"
    BY <1>2, <2>1 DEF DataAt, Writes
  <2>3. PICK p \in {"train", "loadData"} :
          /\ Move(l, p)
          /\ p = "loadData" => \A f \in Splits : data[f] = "whole"
    BY <1>6, <2>2 DEF CheckData, Splits
  <2> QED BY <1>5, <2>1, <2>3 DEF Move, Goto, history
<1>7. CASE WriteData(l)
  <2>1. /\ UNCHANGED <<start, unbakedDir, bakedDirs, trusted>> /\ cut' = {}
        /\ \/ /\ pc[l] = "train" /\ pc' = [pc EXCEPT ![l] = "writing train"]
              /\ data' = [data EXCEPT !["train"] = Torn]
           \/ /\ pc[l] = "writing train" /\ pc' = [pc EXCEPT ![l] = "test"]
              /\ data' = [data EXCEPT !["train"] = "whole"]
           \/ /\ pc[l] = "test" /\ pc' = [pc EXCEPT ![l] = "writing test"]
              /\ data' = [data EXCEPT !["test"] = Torn]
           \/ /\ pc[l] = "writing test" /\ pc' = [pc EXCEPT ![l] = "loadData"]
              /\ data' = [data EXCEPT !["test"] = "whole"]
    <3>1. {k \in Launchers : pc[k] \in {"writing train", "writing test"}} \subseteq {l}
      BY <1>2 DEF Alone, Stopped
    <3>2. \A f \in Splits : {k \in Launchers : pc[k] = Writing(f)} \subseteq {l}
      BY <3>1 DEF Splits, Writing
    <3>3. ASSUME NEW f \in Splits, pc[l] = f
          PROVE  {k \in Launchers : pc[k] = Writing(f)} = {}
      BY <3>2, <3>3 DEF Splits, Writing
    <3>4. cut' = {}
      BY <1>2, <1>7, <3>3 DEF WriteData
    <3> QED BY <1>2, <1>7, <3>4 DEF WriteData, Splits, Writing, Goto, history
  <2>2. PICK p \in Writes \cup {"loadData"} : pc' = [pc EXCEPT ![l] = p]
    BY <2>1 DEF Writes
  <2>3. p \in AfterBake \ {"verify"} /\ pc'[l] = p
    BY <1>2, <2>2 DEF AfterBake, Splits, Writing, Writes, TypeOK
  <2>4. DataAt(l)'
    BY <1>2, <2>1, <2>3 DEF DataAt, Splits, TypeOK
  <2> QED BY <1>4, <2>1, <2>2, <2>3, <2>4
<1>8. CASE LoadData(l)
  <2>1. pc[l] = "loadData" /\ pc[l] \notin Writes /\ \A f \in Splits : data[f] = "whole"
    BY <1>2, <1>8 DEF LoadData, DataAt, Writes
  <2>2. Move(l, "loadConfig")
    BY <1>8, <2>1 DEF LoadData
  <2> QED BY <1>5, <2>1, <2>2 DEF Move, Goto, history
<1>9. CASE LoadConfig(l)
  <2>1. Readable(config[Out(l)])
    BY <1>3 DEF FitsBaked
  <2>2. /\ pc[l] = "loadConfig" /\ pc' = [pc EXCEPT ![l] = "loadWeights"]
        /\ UNCHANGED <<start, disk, trusted>>
    BY <1>9, <2>1 DEF LoadConfig, Goto, history
  <2> QED BY <1>5, <2>2 DEF Writes
<1>10. CASE LoadWeights(l)
  <2>1. pc[l] = "loadWeights" /\ "overlay" \in read[l].fields
    BY <1>2, <1>10 DEF LoadWeights, PipelineInv, HasRead
  <2>2. pc' = [pc EXCEPT ![l] = "training"] /\ UNCHANGED <<start, disk, trusted>>
    BY <1>3, <1>10, <2>1 DEF LoadWeights, Goto, history
  <2> QED BY <1>5, <2>1, <2>2 DEF Writes
<1> QED BY <1>6, <1>7, <1>8, <1>9, <1>10 DEF Train

\* A launch that starts when no other runs finds what finished ones left.
LEMMA CalmLaunch ==
  ASSUME TypeOK, Calm, ~disturbed, NEW l \in Launchers, Launch(l) \/ Interrupt(l)
  PROVE  Calm'
<1> SUFFICES ASSUME ~disturbed' PROVE Calm'
  BY DEF Calm
<1>1. /\ Launch(l) /\ pc' = [pc EXCEPT ![l] = "setup"]
      /\ \A k \in Launchers : pc[k] \in Stopped
      /\ UNCHANGED <<disk, trusted>>
  BY DEF Launch, Interrupt, Goto
<1>2. ~trusted /\ cut = {} /\ UnbakedAt(l) /\ MadeAt(l) /\ DataAt(l) /\ \A k \in Launchers : pc[k] # "failed"
  BY <1>1 DEF Calm, Alone
<1>3. pc'[l] = "setup" /\ \A k \in Launchers \ {l} : pc'[k] = pc[k]
  BY <1>1 DEF TypeOK
<1>4. Alone(l)' /\ \A k \in Launchers \ {l} : ~Alone(k)' /\ pc'[k] \in Stopped
  BY <1>1, <1>3 DEF Alone, Stopped
<1>5. UnbakedAt(l)'
  BY <1>1, <1>2, <1>3 DEF UnbakedAt, UnbakedIsReady, disk, unbakedDir, Stopped
<1>6. MadeAt(l)'
  <2>1. pc[l] \notin InBake /\ "setup" \notin InBake \cup AfterBake
    BY <1>1 DEF Stopped, InBake, AfterBake, Splits, Writing
  <2>2. \A d \in made : FitsBaked(d)
    BY <1>2, <2>1 DEF MadeAt
  <2>3. \A d \in made' : FitsBaked(d)'
    BY <1>1, <2>2 DEF FitsBaked, disk, bakedDirs
  <2> QED BY <1>3, <2>1, <2>3 DEF MadeAt, InBake
<1>7. DataAt(l)'
  BY <1>1, <1>2, <1>3 DEF DataAt, disk, Stopped
<1>8. \A k \in Launchers : pc'[k] # "failed"
  BY <1>2, <1>3
<1>9. cut' = {}
  BY <1>1, <1>2 DEF disk, openFiles
<1> QED BY <1>1, <1>2, <1>4, <1>5, <1>6, <1>7, <1>8, <1>9 DEF Calm

LEMMA CalmNext == PipelineInv /\ Calm /\ [Next]_vars => Calm'
<1> SUFFICES ASSUME PipelineInv, Calm, [Next]_vars PROVE Calm'
  OBVIOUS
<1>1. CASE disturbed
  <2>1. disturbed'
    <3>1. ASSUME NEW l \in Launchers, Launch(l) \/ Interrupt(l) PROVE disturbed'
      BY <1>1, <3>1 DEF Launch, Interrupt
    <3>2. ASSUME NEW l \in Launchers, Setup(l) PROVE disturbed'
      BY <1>1, <3>2 DEF Setup, CheckUnbaked, SetupGuard, FoundUnbaked, Download, OverlayOpen,
                        OverlayWrite, Fail, Move, history
    <3>3. ASSUME NEW l \in Launchers, Bake(l) PROVE disturbed'
      BY <1>1, <3>3 DEF Bake, CheckBaked, BakeLoads, BakeDir, SaveWeightsOpen, SaveWeights,
                        BakeCopy, BakeConfigOpen, BakeConfigWrite, BakeVerify, Fail, Move, history
    <3>4. ASSUME NEW l \in Launchers, Train(l) PROVE disturbed'
      BY <1>1, <3>4 DEF Train, CheckData, WriteData, LoadData, LoadConfig, LoadWeights, Fail,
                        Move, history
    <3>5. CASE UNCHANGED vars
      BY <1>1, <3>5 DEF vars, history
    <3> QED BY <3>1, <3>2, <3>3, <3>4, <3>5 DEF Next
  <2> QED BY <2>1 DEF Calm
<1>2. CASE ~disturbed
  <2>1. CASE UNCHANGED vars
    <3>1. pc' = pc /\ disturbed' = disturbed /\ trusted' = trusted /\ cut' = cut
      BY <2>1 DEF vars, launcher, disk, openFiles, history
    <3>2. \A l \in Launchers : /\ Alone(l)' <=> Alone(l)
                               /\ UnbakedAt(l)' <=> UnbakedAt(l)
                               /\ MadeAt(l)' <=> MadeAt(l)
                               /\ DataAt(l)' <=> DataAt(l)
      BY <2>1 DEF vars, launcher, disk, unbakedDir, bakedDirs, Alone, UnbakedAt, UnbakedIsReady,
                  MadeAt, FitsBaked, Out, DataAt
    <3> QED BY <3>1, <3>2 DEF Calm
  <2>2. TypeOK
    BY DEF PipelineInv
  <2> QED BY <1>2, <2>1, <2>2, CalmLaunch, CalmSetup, CalmBake, CalmTrain DEF Next
<1> QED BY <1>1, <1>2

\* Any number of launches, of any starts, run one after the other and left to
\* finish, never fails: what one leaves behind is what the next one needs.
THEOREM UndisturbedLaunchesTrain == Spec => []FailsOnlyWhenDisturbed
<1>1. Init => Calm
  <2> SUFFICES ASSUME Init PROVE Calm
    OBVIOUS
  <2>1. /\ \A l \in Launchers : pc[l] = "down"
        /\ unbaked = None /\ made = {} /\ ~trusted /\ cut = {} /\ \A f \in Splits : data[f] = None
    BY DEF Init
  <2>2. "down" \notin InBake \cup AfterBake \cup {"download", "overlay", "failed"} \cup Writes
    BY DEF InBake, AfterBake, Splits, Writing, Writes
  <2>3. "down" \in Stopped
    BY DEF Stopped
  <2>4. \A l \in Launchers : UnbakedAt(l) /\ MadeAt(l) /\ DataAt(l)
    BY <2>1, <2>2 DEF UnbakedAt, MadeAt, DataAt, InBake, Writes
  <2> QED BY <2>1, <2>2, <2>3, <2>4 DEF Calm
<1>2. Calm => FailsOnlyWhenDisturbed
  BY DEF Calm, FailsOnlyWhenDisturbed
<1> QED BY <1>1, <1>2, CalmNext, Invariant, PTL DEF Spec

=============================================================================
