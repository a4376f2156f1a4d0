--------------------------- MODULE MCLaunchPipeline ---------------------------
(***************************************************************************)
(* LaunchPipeline for TLC.  Launchers and shards are interchangeable; the  *)
(* starts are not, one of them is ColdStart.                               *)
(***************************************************************************)
EXTENDS LaunchPipeline, TLC

Interchangeable == Permutations(Launchers) \cup Permutations(Shards)
=============================================================================
