---------------------------- MODULE MCWeightSync ----------------------------
(***************************************************************************)
(* Instances of WeightSync for TLC: a layer whose attention weight fuses   *)
(* two projections, a weight that stands alone, one frozen weight and one  *)
(* encoder weight.  A tensor of a full sync is three bytes, a tensor of a  *)
(* LoRA sync one.                                                          *)
(***************************************************************************)
EXTENDS WeightSync_inv

CONSTANTS r1, r2, r3, qkv, o, emb, enc, pq, pk, po

\* A replica of two tensor-parallel ranks that r1 leads, and r3 on its own.
MCRanks == {r1, r2, r3}
MCLeader == [r \in MCRanks |-> IF r = r3 THEN r3 ELSE r1]

\* The replica of two ranks alone.
MCTwoRanks == {r1, r2}
MCTwoLeader == [r \in MCTwoRanks |-> r1]
MCModules == {qkv, o}
MCProjections == {pq, pk, po}
MCProj == [m \in MCModules |-> IF m = qkv THEN {pq, pk} ELSE {po}]
MCFrozen == {emb}
MCEncoder == {enc}
MCFullOrder == <<<<emb, "full">>, <<qkv, "full">>, <<o, "full">>, <<enc, "full">>>>
MCAdapterOrder ==
  <<<<pq, "A">>, <<pq, "B">>, <<pk, "A">>, <<pk, "B">>, <<po, "A">>, <<po, "B">>>>
MCEncoderOrder == <<<<enc, "full">>>>
MCFullEnd == [i \in 0 .. 4 |-> 3 * i]
\* lora_B of pk alone exceeds the bucket of the failures run.
MCLoraEndBig == [i \in 0 .. Len(Payload("lora")) |-> IF i < 4 THEN i ELSE i + 3]
MCLoraEnd == [i \in 0 .. Len(Payload("lora")) |-> i]

Fresh == {0}
Resumed == {1}

\* What NoDeadlock takes for granted: the guards say who can take a step.
GuardsMatch ==
  /\ phase = "sync" => (DriverCanGo <=> ENABLED Driver)
  /\ \A r \in Ranks : (SenderCanGo(r) <=> ENABLED Sender(r))
                     /\ (WorkerCanGo(r) <=> ENABLED Worker(r))
=============================================================================
