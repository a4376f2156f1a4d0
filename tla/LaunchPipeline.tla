--------------------------- MODULE LaunchPipeline ---------------------------
(***************************************************************************)
(* How a launch of the GRPO training gets to its model:                    *)
(*   run_grpo_training.sh    what is skipped because it is there already   *)
(*   setup_model_dir.py      download of the base model, overlay of config *)
(*   bake_checkpoint.py      base + SFT checkpoint -> baked directory      *)
(*   preprocess_telecom_data.py  the two data files                        *)
(*   main_ppo.py, fsdp_workers.py, modeling_tsllm.py  what training loads  *)
(* The directories outlive the launches.  A launch may be killed between   *)
(* any two steps, and several may run on the same store_dir.               *)
(*                                                                         *)
(* Of a config.json only the fields count that were written into it after  *)
(* the download: "overlay" names the class TSLLMForCausalLM, "baked" is    *)
(* weights_baked with the new vocab_size.  hf_tsllm.py, the tokenizer's    *)
(* special tokens and the chat template follow the config they are written *)
(* with and are left out.                                                  *)
(*                                                                         *)
(* Opening a file to write it empties it.  A launcher that was writing it  *)
(* goes on where it was, so that its end leaves a file of full length with *)
(* a hole at its head, until the one that emptied it has written that far. *)
(***************************************************************************)
EXTENDS Naturals, FiniteSets

CONSTANTS
  Launchers,    \* shells in which the script runs
  Starts,       \* values of starting_model
  ColdStart,    \* the one of them whose directory has no suffix
  Shards,       \* safetensors files of the base model
  Tokenizer,    \* its tokenizer files
  MaxLaunches,  \* bound on the launches
  None,         \* no such file
  Torn,         \* a file that was not written to its end
  Plain         \* what HF loads for a config without overlay: a Qwen3 model
                \* none of whose parameters is in the baked file

Files == Shards \cup {Tokenizer}
Configs == [fields : SUBSET {"overlay", "baked"}]
Models == [start : Starts, shards : SUBSET Shards]

ASSUME LaunchAssumption ==
  /\ ColdStart \in Starts /\ Shards # {} /\ Tokenizer \notin Shards /\ MaxLaunches \in Nat
  /\ {None, Torn} \cap Configs = {} /\ {None, Torn, Plain} \cap Models = {}
  /\ None # Torn /\ None # Plain /\ Torn # Plain

VARIABLES
  launches,   \* launches so far
  pc, start,  \* of each launcher: where it is, its starting_model
  read,       \* of each launcher: the config it holds
  held,       \* of each launcher: the model it holds
  files,      \* base model files in the unbaked directory
  unbaked,    \* its config.json
  made,       \* baked directories that exist
  weights,    \* model.safetensors of each of them
  config,     \* config.json of each of them
  data,       \* the data files
  cut,        \* launchers whose file another one emptied while they wrote it
  inFile,     \* of each baked directory: the shards of the models written into
              \* its model.safetensors since that was last emptied
  disturbed,  \* history: a launch was killed, or two ran at once
  trusted,    \* history: an unfinished unbaked directory was taken as finished
  clobbered   \* history: baked directories whose model.safetensors was emptied
              \* while another launcher wrote it

launcher == <<pc, start, read, held>>
unbakedDir == <<files, unbaked>>
bakedDirs == <<made, weights, config>>
openFiles == <<cut, inFile>>
disk == <<unbakedDir, bakedDirs, data, openFiles>>
history == <<disturbed, trusted, clobbered>>
vars == <<launches, launcher, disk, history>>

\* BAKED_DIR as its suffix to model-baked.
Dir_Shared(s) == <<>>

Dir(s) == IF s = ColdStart THEN <<>> ELSE <<s>>

Dirs == {<<>>} \cup {<<s>> : s \in Starts}

Splits == {"train", "test"}
Writing(f) == IF f = "train" THEN "writing train" ELSE "writing test"

Stopped == {"down", "failed", "training"}
Places == Stopped \cup Splits \cup {Writing(f) : f \in Splits} \cup
  {"setup", "guard", "download", "overlay", "bake", "loadBase", "mkdir", "save",
   "saving", "copy", "flag", "flagging", "verify", "data", "loadData",
   "loadConfig", "loadWeights"}

Out(l) == Dir(start[l])
Readable(c) == c \notin {None, Torn}
Goto(l, p) == pc' = [pc EXCEPT ![l] = p]

\* A step that only moves on, or ends the launch with an error.
Move(l, p) == Goto(l, p) /\ UNCHANGED <<launches, start, read, held, disk, history>>
Fail(l) == Move(l, "failed")

-----------------------------------------------------------------------------
Init ==
  /\ launches = 0
  /\ pc = [l \in Launchers |-> "down"] /\ start \in [Launchers -> {ColdStart}]
  /\ read = [l \in Launchers |-> None] /\ held = [l \in Launchers |-> None]
  /\ files = {} /\ unbaked = None
  /\ made = {} /\ weights = [d \in Dirs |-> None] /\ config = [d \in Dirs |-> None]
  /\ data = [f \in Splits |-> None]
  /\ cut = {} /\ inFile = [d \in Dirs |-> {}]
  /\ disturbed = FALSE /\ trusted = FALSE /\ clobbered = {}

Launch(l) ==
  /\ pc[l] \in Stopped /\ launches < MaxLaunches
  /\ launches' = launches + 1
  /\ Goto(l, "setup")
  /\ \E s \in Starts : start' = [start EXCEPT ![l] = s]
  /\ read' = [read EXCEPT ![l] = None] /\ held' = [held EXCEPT ![l] = None]
  /\ disturbed' = (disturbed \/ \E k \in Launchers : pc[k] \notin Stopped)
  /\ UNCHANGED <<disk, trusted, clobbered>>

\* A kill, from outside, at any point before the training starts.
Interrupt(l) ==
  /\ pc[l] \notin Stopped
  /\ Goto(l, "down")
  /\ disturbed' = TRUE
  /\ cut' = cut \ {l}
  /\ UNCHANGED <<launches, start, read, held, unbakedDir, bakedDirs, data, inFile,
                 trusted, clobbered>>

-----------------------------------------------------------------------------
(* The unbaked directory *)

UnbakedIsReady == files = Files /\ Readable(unbaked) /\ "overlay" \in unbaked.fields

\* Both guards, of the script and of setup_model_dir, look for config.json only.
FoundUnbaked(l) ==
  /\ unbaked # None
  /\ Goto(l, "bake")
  /\ trusted' = (trusted \/ ~UnbakedIsReady)
  /\ UNCHANGED <<launches, start, read, held, disk, disturbed, clobbered>>

CheckUnbaked(l) ==
  /\ pc[l] = "setup"
  /\ FoundUnbaked(l) \/ (unbaked = None /\ Move(l, "guard"))

SetupGuard(l) ==
  /\ pc[l] = "guard"
  /\ FoundUnbaked(l) \/ (unbaked = None /\ Move(l, "download"))

\* snapshot_download fetches files in any order, each as a whole, and leaves
\* those that are there.
Download(l) ==
  /\ pc[l] = "download"
  /\ \/ /\ \E f \in Files \ files : files' = files \cup {f}
        /\ UNCHANGED unbaked
     \/ /\ unbaked = None
        /\ unbaked' = [fields |-> {}]
        /\ UNCHANGED files
  /\ UNCHANGED <<launches, launcher, bakedDirs, data, openFiles, history>>

OverlayOpen_BeforeDownload(l) ==
  /\ pc[l] = "download" /\ unbaked # None
  /\ IF Readable(unbaked)
       THEN /\ read' = [read EXCEPT ![l] = unbaked]
            /\ unbaked' = Torn
            /\ Goto(l, "overlay")
            /\ UNCHANGED <<launches, start, held, files, bakedDirs, data, openFiles, history>>
       ELSE Fail(l)

\* The config is read, then the file is opened, which empties it.
OverlayOpen(l) ==
  /\ pc[l] = "download" /\ files = Files /\ unbaked # None
  /\ IF Readable(unbaked)
       THEN /\ read' = [read EXCEPT ![l] = unbaked]
            /\ unbaked' = Torn
            /\ Goto(l, "overlay")
            /\ UNCHANGED <<launches, start, held, files, bakedDirs, data, openFiles, history>>
       ELSE Fail(l)

OverlayWrite(l) ==
  /\ pc[l] = "overlay"
  /\ unbaked' = [fields |-> read[l].fields \cup {"overlay"}]
  /\ Goto(l, "bake")
  /\ UNCHANGED <<launches, start, read, held, files, bakedDirs, data, openFiles, history>>

-----------------------------------------------------------------------------
(* The baked directory *)

\* The script looks for the directory only.
CheckBaked(l) ==
  /\ pc[l] = "bake"
  /\ Move(l, IF Out(l) \in made THEN "data" ELSE "loadBase")

\* from_pretrained takes whichever *.safetensors it finds; strict=False leaves
\* the parameters of a missing file as they were initialised.
BakeLoads(l) ==
  /\ pc[l] = "loadBase"
  /\ IF Readable(unbaked) /\ files \cap Shards # {} /\ Tokenizer \in files
       THEN /\ held' = [held EXCEPT ![l] = [start |-> start[l], shards |-> files \cap Shards]]
            /\ Goto(l, "mkdir")
            /\ UNCHANGED <<launches, start, read, disk, history>>
       ELSE Fail(l)

BakeDir(l) ==
  /\ pc[l] = "mkdir"
  /\ made' = made \cup {Out(l)}
  /\ Goto(l, "save")
  /\ UNCHANGED <<launches, start, read, held, unbakedDir, weights, config, data, openFiles, history>>

Saving(d) == {k \in Launchers : pc[k] = "saving" /\ Out(k) = d}

SaveWeightsOpen(l) ==
  /\ pc[l] = "save"
  /\ weights' = [weights EXCEPT ![Out(l)] = Torn]
  /\ inFile' = [inFile EXCEPT ![Out(l)] = {held[k].shards : k \in Saving(Out(l)) \cup {l}}]
  /\ cut' = cut \cup Saving(Out(l))
  /\ clobbered' = clobbered \cup {Out(k) : k \in Saving(Out(l))}
  /\ Goto(l, "saving")
  /\ UNCHANGED <<launches, start, read, held, unbakedDir, made, config, data,
                 disturbed, trusted>>

\* What models with these shards, written over each other, may leave.
Mix(models) ==
  {S \in SUBSET UNION models : {s \in Shards : \A T \in models : s \in T} \subseteq S}

\* The shards whose parameters are in the file when l has written its last
\* byte.  Of a file with a hole any part is missing.
Written(l) ==
  LET parts == inFile[Out(l)] \cup {held[l].shards} IN
  IF l \notin cut THEN Mix(parts)
  ELSE IF ~Readable(weights[Out(l)]) THEN SUBSET UNION parts
  ELSE Mix({held[l].shards, weights[Out(l)].shards})

\* The file is also unreadable as long as the hole has its header.
SaveWeights(l) ==
  /\ pc[l] = "saving"
  /\ \/ \E S \in Written(l) :
          weights' = [weights EXCEPT ![Out(l)] = [start |-> held[l].start, shards |-> S]]
     \/ l \in cut /\ ~Readable(weights[Out(l)]) /\ UNCHANGED weights
  /\ cut' = cut \ {l}
  /\ Goto(l, "copy")
  /\ UNCHANGED <<launches, start, read, held, unbakedDir, made, config, data, inFile, history>>

BakeCopy(l) ==
  /\ pc[l] = "copy"
  /\ config' = [config EXCEPT ![Out(l)] = IF unbaked = None THEN @ ELSE unbaked]
  /\ Goto(l, "flag")
  /\ UNCHANGED <<launches, start, read, held, unbakedDir, made, weights, data, openFiles, history>>

BakeConfigOpen(l) ==
  /\ pc[l] = "flag"
  /\ IF Readable(config[Out(l)])
       THEN /\ read' = [read EXCEPT ![l] = config[Out(l)]]
            /\ config' = [config EXCEPT ![Out(l)] = Torn]
            /\ Goto(l, "flagging")
            /\ UNCHANGED <<launches, start, held, unbakedDir, made, weights, data, openFiles, history>>
       ELSE Fail(l)

BakeConfigWrite_NotBaked(l) ==
  /\ pc[l] = "flagging"
  /\ config' = [config EXCEPT ![Out(l)] = read[l]]
  /\ Goto(l, "verify")
  /\ UNCHANGED <<launches, start, read, held, unbakedDir, made, weights, data, openFiles, history>>

BakeConfigWrite(l) ==
  /\ pc[l] = "flagging"
  /\ config' = [config EXCEPT ![Out(l)] = [fields |-> read[l].fields \cup {"baked"}]]
  /\ Goto(l, "verify")
  /\ UNCHANGED <<launches, start, read, held, unbakedDir, made, weights, data, openFiles, history>>

\* TSLLMForCausalLM.from_pretrained: a config that is not marked baked has the
\* base model's vocab_size, and the saved embedding does not fit.
FitsBaked(d) ==
  weights[d] \notin {None, Torn} /\ Readable(config[d]) /\ "baked" \in config[d].fields

BakeVerify(l) ==
  /\ pc[l] = "verify"
  /\ IF FitsBaked(Out(l)) THEN Move(l, "data") ELSE Fail(l)

-----------------------------------------------------------------------------
(* The data files *)

CheckData(l) ==
  /\ pc[l] = "data"
  /\ Move(l, IF \E f \in Splits : data[f] = None THEN "train" ELSE "loadData")

\* Of a parquet file with a hole no page can be read.
WriteData(l) ==
  /\ \E f \in Splits :
       \/ /\ pc[l] = f
          /\ data' = [data EXCEPT ![f] = Torn]
          /\ cut' = cut \cup {k \in Launchers : pc[k] = Writing(f)}
          /\ Goto(l, Writing(f))
       \/ /\ pc[l] = Writing(f)
          /\ \/ data' = [data EXCEPT ![f] = "whole"]
             \/ l \in cut /\ UNCHANGED data
          /\ cut' = cut \ {l}
          /\ Goto(l, IF f = "train" THEN "test" ELSE "loadData")
  /\ UNCHANGED <<launches, start, read, held, unbakedDir, bakedDirs, inFile, history>>

-----------------------------------------------------------------------------
(* The training process *)

LoadData(l) ==
  /\ pc[l] = "loadData"
  /\ IF \A f \in Splits : data[f] = "whole" THEN Move(l, "loadConfig") ELSE Fail(l)

\* The config says which class loads the weights; that class reads it again.
LoadConfig(l) ==
  /\ pc[l] = "loadConfig"
  /\ IF Readable(config[Out(l)])
       THEN /\ read' = [read EXCEPT ![l] = config[Out(l)]]
            /\ Goto(l, "loadWeights")
            /\ UNCHANGED <<launches, start, held, disk, history>>
       ELSE Fail(l)

LoadWeights_Unchecked(l) ==
  /\ pc[l] = "loadWeights"
  /\ held' = [held EXCEPT ![l] = IF "overlay" \in read[l].fields THEN weights[Out(l)] ELSE Plain]
  /\ Goto(l, "training")
  /\ UNCHANGED <<launches, start, read, disk, history>>

LoadWeights(l) ==
  /\ pc[l] = "loadWeights"
  /\ \/ /\ "overlay" \in read[l].fields /\ FitsBaked(Out(l))
        /\ held' = [held EXCEPT ![l] = weights[Out(l)]]
        /\ Goto(l, "training")
        /\ UNCHANGED <<launches, start, read, disk, history>>
     \/ /\ "overlay" \notin read[l].fields /\ weights[Out(l)] \notin {None, Torn}
        /\ held' = [held EXCEPT ![l] = Plain]
        /\ Goto(l, "training")
        /\ UNCHANGED <<launches, start, read, disk, history>>
     \/ /\ "overlay" \in read[l].fields /\ ~FitsBaked(Out(l))
        /\ Fail(l)
     \/ /\ "overlay" \notin read[l].fields /\ weights[Out(l)] \in {None, Torn}
        /\ Fail(l)

-----------------------------------------------------------------------------
Setup(l) == CheckUnbaked(l) \/ SetupGuard(l) \/ Download(l) \/ OverlayOpen(l) \/ OverlayWrite(l)
Bake(l) ==
  \/ CheckBaked(l) \/ BakeLoads(l) \/ BakeDir(l) \/ SaveWeightsOpen(l) \/ SaveWeights(l)
  \/ BakeCopy(l) \/ BakeConfigOpen(l) \/ BakeConfigWrite(l) \/ BakeVerify(l)
Train(l) == CheckData(l) \/ WriteData(l) \/ LoadData(l) \/ LoadConfig(l) \/ LoadWeights(l)
Next ==
  \E l \in Launchers : Launch(l) \/ Interrupt(l) \/ Setup(l) \/ Bake(l) \/ Train(l)

Spec == Init /\ [][Next]_vars

-----------------------------------------------------------------------------
(* Properties *)

TypeOK ==
  /\ launches \in 0 .. MaxLaunches
  /\ pc \in [Launchers -> Places] /\ start \in [Launchers -> Starts]
  /\ read \in [Launchers -> Configs \cup {None}]
  /\ held \in [Launchers -> Models \cup {None, Plain}]
  /\ files \subseteq Files /\ unbaked \in Configs \cup {None, Torn}
  /\ made \subseteq Dirs
  /\ weights \in [Dirs -> Models \cup {None, Torn}]
  /\ config \in [Dirs -> Configs \cup {None, Torn}]
  /\ data \in [Splits -> {None, Torn, "whole"}]
  /\ cut \subseteq Launchers /\ inFile \in [Dirs -> SUBSET SUBSET Shards]
  /\ disturbed \in BOOLEAN /\ trusted \in BOOLEAN /\ clobbered \subseteq Dirs

\* Switching starting_model between launches, or running two at once, never
\* trains the model baked for another start.
TrainsFromItsStart ==
  \A l \in Launchers :
    pc[l] = "training" /\ held[l] # Plain => held[l].start = start[l]

Whole(s) == [start |-> s, shards |-> Shards]

\* Two ways lead to training on a wrong model, and no others: a launch took an
\* unfinished unbaked directory for a finished one, or two launches wrote the
\* weights of this very start at once.  A kill alone, or an overlap with
\* launches of other starts, only makes launches fail.
NeverSilentlyWrong ==
  \A l \in Launchers :
    pc[l] = "training" /\ held[l] # Whole(start[l]) => trusted \/ Out(l) \in clobbered

\* Launches one after the other, none of them killed, all get to train: each
\* finds what the earlier ones left as it needs it.
FailsOnlyWhenDisturbed ==
  \A l \in Launchers : pc[l] = "failed" => disturbed

\* bake_checkpoint.py: "Saves the COMPLETE model state_dict"; "After baking, the
\* model directory contains everything".
BakesWholeModel ==
  \A d \in Dirs : weights[d] \in Models => weights[d].shards = Shards
=============================================================================
