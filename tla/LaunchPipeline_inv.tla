------------------------- MODULE LaunchPipeline_inv -------------------------
(***************************************************************************)
(* The inductive invariant behind TrainsFromItsStart and                   *)
(* NeverSilentlyWrong: what every file that can be read holds, as long as  *)
(* no launch took an unfinished unbaked directory for a finished one; and  *)
(* the one behind FailsOnlyWhenDisturbed: what a launch that runs alone    *)
(* finds.                                                                  *)
(***************************************************************************)
EXTENDS LaunchPipeline

AfterSetup == Places \ {"down", "failed", "setup", "guard", "download", "overlay"}

\* The model of the SFT checkpoint s, all of it if no launch was mistaken.
IsModelOf(m, s) ==
  m \in Models /\ m.start = s /\ (~trusted => m.shards = Shards)

\* The same of a file: all of it if it was not emptied under a launcher that
\* wrote it, either.
IsFileOf(m, s) ==
  /\ m \in Models /\ m.start = s
  /\ (~trusted /\ Dir(s) \notin clobbered) => m.shards = Shards

\* The setup has gone by: nothing takes the overlay away again.
SetUp ==
  \A l \in Launchers :
    /\ pc[l] = "overlay" => files = Files
    /\ pc[l] \in AfterSetup \cup {"overlay"} => unbaked # None
    /\ pc[l] \in AfterSetup /\ ~trusted =>
         /\ files = Files
         /\ Readable(unbaked) => "overlay" \in unbaked.fields

\* What a launcher has read it has read whole.
HasRead ==
  \A l \in Launchers :
    /\ pc[l] \in {"overlay", "flagging", "loadWeights"} => read[l] \in Configs
    /\ pc[l] \in {"flagging", "loadWeights"} /\ ~trusted => "overlay" \in read[l].fields

Baking ==
  \A l \in Launchers :
    pc[l] \in {"mkdir", "save", "saving"} => IsModelOf(held[l], start[l])

\* The baked directories.
Baked ==
  /\ \A s \in Starts : weights[Dir(s)] \in Models => IsFileOf(weights[Dir(s)], s)
  /\ \A d \in Dirs : Readable(config[d]) /\ ~trusted => "overlay" \in config[d].fields

Trained ==
  \A l \in Launchers :
    pc[l] = "training" => (held[l] = Plain /\ trusted) \/ IsFileOf(held[l], start[l])

\* What has gone into the open files, and whose writing was cut.
Overwriting ==
  /\ \A d \in Dirs : ~trusted => inFile[d] \subseteq {Shards}
  /\ \A l \in cut :
       \/ pc[l] \in {"writing train", "writing test"}
       \/ pc[l] = "saving" /\ Out(l) \in clobbered

PipelineInv == TypeOK /\ SetUp /\ HasRead /\ Baking /\ Baked /\ Trained /\ Overwriting

-----------------------------------------------------------------------------
(* What FailsOnlyWhenDisturbed rests on: as long as no launch was killed     *)
(* and no two ran at once, what a launch finds was left by finished ones.    *)

Alone(l) == \A k \in Launchers \ {l} : pc[k] \in Stopped

\* The places between the moment a baked directory exists and its last file.
InBake == {"save", "saving", "copy", "flag", "flagging"}
AfterBake == {"verify", "data", "loadData", "loadConfig", "loadWeights"} \cup
  Splits \cup {Writing(f) : f \in Splits}

\* The unbaked directory, seen by the launcher that works on it.
UnbakedAt(l) ==
  /\ pc[l] \notin {"download", "overlay"} => unbaked = None \/ UnbakedIsReady
  /\ pc[l] = "download" => unbaked # Torn

MadeAt(l) ==
  /\ \A d \in made : FitsBaked(d) \/ (pc[l] \in InBake /\ d = Out(l))
  /\ pc[l] \in {"copy", "flag", "flagging"} => weights[Out(l)] \notin {None, Torn}
  /\ pc[l] = "flag" => Readable(config[Out(l)])
  /\ pc[l] \in AfterBake => FitsBaked(Out(l))

DataAt(l) ==
  /\ pc[l] \notin {"writing train", "test", "writing test"} =>
       \/ \A f \in Splits : data[f] = None
       \/ \A f \in Splits : data[f] = "whole"
  /\ pc[l] \in {"test", "writing test"} => data["train"] = "whole"
  /\ pc[l] = "loadData" => \A f \in Splits : data[f] = "whole"

Calm ==
  ~disturbed =>
    /\ ~trusted /\ cut = {}
    /\ \A l \in Launchers :
         /\ pc[l] # "failed"
         /\ pc[l] \notin Stopped => Alone(l)
         /\ Alone(l) => UnbakedAt(l) /\ MadeAt(l) /\ DataAt(l)
=============================================================================
