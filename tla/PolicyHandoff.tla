--------------------------- MODULE PolicyHandoff ---------------------------
(***************************************************************************)
(* What the weight synchronisation promises the training loop of           *)
(* ray_trainer.fit: the loop alternates between training the actor and     *)
(* rolling it out, and a rollout is served by the actor just trained, on   *)
(* every server and with all of its weights, as if they had been handed    *)
(* over in one step.  WeightSync implements this module.                   *)
(***************************************************************************)
EXTENDS Naturals

CONSTANTS StartVersions, MaxVersion, Nobody

VARIABLES
  actor,   \* version of the actor
  served,  \* version the rollout servers serve, Nobody while they must not
  mode     \* "train", "rollout" or "stopped"

handoffVars == <<actor, served, mode>>

Init ==
  /\ actor \in StartVersions
  /\ served = Nobody
  /\ mode = "train"

HandOver ==
  /\ mode = "train"
  /\ served' = actor
  /\ mode' = "rollout"
  /\ UNCHANGED actor

Train ==
  /\ mode = "rollout"
  /\ actor < MaxVersion
  /\ actor' = actor + 1
  /\ served' = Nobody
  /\ mode' = "train"

\* The end of the training, or a failure that ends it.
Stop ==
  /\ mode # "stopped"
  /\ served' = Nobody
  /\ mode' = "stopped"
  /\ UNCHANGED actor

Next == HandOver \/ Train \/ Stop

Spec == Init /\ [][Next]_handoffVars

\* Training is always followed by a rollout, or stops.
FairSpec == Spec /\ WF_handoffVars(HandOver \/ Stop)
=============================================================================
