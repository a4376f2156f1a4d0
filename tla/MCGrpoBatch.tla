---------------------------- MODULE MCGrpoBatch ----------------------------
(***************************************************************************)
(* Instances of GrpoBatch for TLC: two prompts with four responses each on *)
(* two ranks, so that every rank has two mini-batches of two rows, which   *)
(* are scored two and four at a time and updated one at a time, the ratios *)
(* of the launcher.                                                        *)
(***************************************************************************)
EXTENDS GrpoBatch

\* Questions of different lengths, and at most one response that is short.
MCLengths ==
  [question : {<<1, 2>>, <<2, 1>>},
   response : {[s \in Samples |-> 2]} \cup {[s \in Samples |-> IF s = t THEN 1 ELSE 2] : t \in Samples}]
=============================================================================
