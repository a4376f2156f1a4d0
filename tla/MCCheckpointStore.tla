------------------------- MODULE MCCheckpointStore -------------------------
(***************************************************************************)
(* Instances of CheckpointStore for TLC: two ranks, up to nine steps.      *)
(***************************************************************************)
EXTENDS CheckpointStore_inv

CONSTANTS r0, r1

MCRanks == {r0, r1}
Auto == {"auto"}
\* The instance may expire at the first step, at the end of the first pass (as
\* save_freq alone meets that of the second) or within the second pass.
Expiring == {1, 3, 5}

\* What NeverStandsStill takes for granted: the guards say when a step can be taken.
GuardsMatch == LaunchCanGo <=> ENABLED Run
=============================================================================
