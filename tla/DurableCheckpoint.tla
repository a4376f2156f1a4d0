------------------------- MODULE DurableCheckpoint -------------------------
(***************************************************************************)
(* What checkpointing promises a training that may be killed at any time:  *)
(* there is one durable copy of the model; a save replaces it by the model *)
(* in memory as a whole, and a launch either finds it and goes on from it  *)
(* or starts from the base model because there is none.  Opening the copy  *)
(* makes it unreadable until the new one is committed.                     *)
(***************************************************************************)
EXTENDS Naturals

CONSTANTS Contents, Base, Nothing, Unreadable

VARIABLES
  memory,  \* the model of the running launch, Nothing between launches
  saved    \* the durable copy, Nothing at first, Unreadable while replaced

durableVars == <<memory, saved>>

Init == memory = Nothing /\ saved = Nothing

StartFresh ==
  /\ memory = Nothing /\ saved = Nothing
  /\ memory' = Base
  /\ UNCHANGED saved

Restore ==
  /\ memory = Nothing /\ saved \in Contents
  /\ memory' = saved
  /\ UNCHANGED saved

Train ==
  /\ memory \in Contents
  /\ memory' \in {c \in Contents : c.updates = memory.updates + 1}
  /\ UNCHANGED saved

Open ==
  /\ memory \in Contents
  /\ saved' = Unreadable
  /\ UNCHANGED memory

Commit ==
  /\ memory \in Contents /\ saved = Unreadable
  /\ saved' = memory
  /\ UNCHANGED memory

\* The launch ends or is killed; the copy stays what it was.
Stop ==
  /\ memory' = Nothing
  /\ UNCHANGED saved

Next == StartFresh \/ Restore \/ Train \/ Open \/ Commit \/ Stop

Spec == Init /\ [][Next]_durableVars
=============================================================================
