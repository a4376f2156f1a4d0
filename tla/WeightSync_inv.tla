---------------------------- MODULE WeightSync_inv ----------------------------
(***************************************************************************)
(* The inductive invariants behind the theorems of WeightSync_proofs.      *)
(***************************************************************************)
EXTENDS WeightSync

\* rollout_rank 0 of the replica has called the server.
Started(r) == spc[Leader[r]] \notin {"idle", "start"}

\* Nothing is in flight between the rank and its worker.
Quiet(r) == req[r] = NoReq /\ ~rep[r]

\* The bucket that the sender waits for.
Sent(r) == [lo |-> lo[r], hi |-> next[r], last |-> spc[r] = "last_ack"]

\* A worker whose sender has gone on to the bucket that starts at lo[r].
Behind(r) ==
  /\ wpc[r] \in {"recv", "apply", "failed"}
  /\ wpc[r] = "apply" => ~wmsg[r].last /\ wmsg[r].hi = lo[r]

\* Where worker and channel are, for each place the sender can be in.
Protocol(r) ==
  /\ spc[r] = "idle" => Quiet(r) /\ wpc[r] = "idle"
  /\ spc[r] \in {"start", "handle"} =>
       Quiet(r) /\ wpc[r] = IF Started(r) THEN "handle" ELSE "idle"
  /\ spc[r] = "handle_ack" =>
       /\ lo[r] = 1 /\ next[r] = 1
       /\ \/ req[r] = Handle /\ ~rep[r] /\ wpc[r] = IF Started(r) THEN "handle" ELSE "idle"
          \/ req[r] = NoReq /\ rep[r] /\ wpc[r] = "recv"
  /\ spc[r] = "fill" => Quiet(r) /\ Behind(r)
  /\ spc[r] \in {"bucket_ack", "last_ack"} =>
       \/ req[r] = <<"bucket", Sent(r)>> /\ ~rep[r] /\ Behind(r)
       \/ Quiet(r) /\ wpc[r] = "clone" /\ wmsg[r] = Sent(r)
       \/ /\ req[r] = NoReq /\ rep[r]
          /\ wpc[r] \in {"apply", "failed", IF spc[r] = "last_ack" THEN "idle" ELSE "recv"}
          /\ wpc[r] = "apply" => wmsg[r] = Sent(r)
  /\ spc[r] \in {"future", "done"} =>
       /\ Quiet(r) /\ wpc[r] \in {"idle", "apply", "failed"}
       /\ wpc[r] = "apply" => wmsg[r].last /\ wmsg[r].hi = next[r]
  /\ spc[r] = "crashed" =>
       /\ Quiet(r) /\ wpc[r] \in {"idle", "recv", "apply", "failed"}
       /\ wpc[r] = "apply" => wmsg[r].hi = next[r]
  /\ spc[r] \notin {"idle", "start", "handle", "handle_ack"} => Started(r)
  /\ wpc[r] = "recv" => Started(r)

\* The ranks go through a weight update together, and the rank that speaks
\* for a replica is done only when the whole replica is.
Together ==
  /\ \/ phase \in {"collect", "generate", "done"} /\ \A r \in Ranks : spc[r] = "idle"
     \/ phase \in {"sync", "crashed"} /\ \A r \in Ranks : spc[r] # "idle"
  /\ \A r \in Ranks : spc[Leader[r]] = "done" => wpc[r] = "idle"
  /\ \A r \in Ranks : spc[r] = "future" => r = Leader[r]

ProtocolInv == TypeOK /\ Together /\ \A r \in Ranks : Protocol(r)

-----------------------------------------------------------------------------
\* The ranks agree on what is sent; those that have sent it know the base is there.
KindsAgree ==
  /\ \A r, q \in Ranks : spc[r] # "done" /\ spc[q] # "done" => baseSyncDone[r] = baseSyncDone[q]
  /\ \A r \in Ranks : spc[r] = "done" => baseSyncDone[r]
  /\ \A r \in Ranks : Started(r) /\ spc[r] # "done" => wkind[r] = Kind(r)

\* The open bucket holds the tensors it is said to hold.
BufferInv(r) ==
  spc[r] \in {"handle_ack", "fill", "bucket_ack", "last_ack"} =>
    /\ lo[r] <= next[r] /\ next[r] <= Len(Payload(Kind(r))) + 1
    /\ spc[r] = "last_ack" => next[r] = Len(Payload(Kind(r))) + 1
    /\ \A i \in lo[r] .. next[r] - 1 :
         buffer[r][i - lo[r] + 1] = [tensor |-> Payload(Kind(r))[i], ver |-> version]

\* So does what the worker has cloned.
StagedInv(r) ==
  wpc[r] = "apply" =>
    /\ wmsg[r].lo <= wmsg[r].hi /\ wmsg[r].hi <= Len(Payload(wkind[r])) + 1
    /\ wmsg[r].last => wmsg[r].hi = Len(Payload(wkind[r])) + 1
    /\ staged[r] = {[tensor |-> Payload(wkind[r])[i], ver |-> version] :
                     i \in wmsg[r].lo .. wmsg[r].hi - 1}

ContentInv == KindsAgree /\ \A r \in Ranks : BufferInv(r) /\ StagedInv(r)

-----------------------------------------------------------------------------
\* The launcher's configuration, with a LoRA payload that fits into a bucket.
Launcher ==
  /\ DummyLoad /\ StartVersions = {0}
  /\ LoraEnd[Len(Payload("lora"))] <= BucketSize

\* The base weights have arrived: all of them are cached, and an encoder that
\* is never sent again is in place.
BaseSynced(r) ==
  /\ \A p \in Param : cache[r][p] = 0
  /\ ~TrainEncoder => \A p \in Encoder : weight[r][p] = 0

\* The full sync happens before the first update of the actor.
FirstSync ==
  /\ \A r \in Ranks : ~baseSyncDone[r] => version = 0 /\ phase # "generate"
  /\ \A r \in Ranks : wpc[r] # "idle" /\ wkind[r] = "full" => version = 0

CacheInv(r) ==
  /\ \A p \in Param : cache[r][p] \in {Uncached, 0}
  /\ wpc[r] = "idle" /\ Started(r) => BaseSynced(r)
  /\ baseSyncDone[r] /\ spc[r] # "done" => BaseSynced(r)
  /\ wpc[r] # "idle" /\ wkind[r] = "lora" => BaseSynced(r)

\* In the full sync the tensors before the next bucket have been loaded.
LoadedBefore(r, n) == \A i \in 1 .. n - 1 : weight[r][FullOrder[i][1]] = 0
LoadInv(r) ==
  wkind[r] = "full" =>
    /\ wpc[r] = "recv" /\ spc[r] # "crashed" =>
         LoadedBefore(r, IF spc[r] = "bucket_ack" /\ rep[r] THEN next[r] ELSE lo[r])
    /\ wpc[r] \in {"clone", "apply"} => LoadedBefore(r, wmsg[r].lo)

\* A LoRA sync has one bucket.
OneBucketInv(r) ==
  /\ Kind(r) = "lora" /\ spc[r] \in {"handle_ack", "fill", "bucket_ack", "last_ack"} =>
       lo[r] = 1 /\ spc[r] # "bucket_ack"
  /\ wkind[r] = "lora" /\ wpc[r] = "apply" => wmsg[r].lo = 1 /\ wmsg[r].last

MatchInv(r) ==
  (wpc[r] = "idle" /\ Started(r)) \/ phase = "generate" =>
    \A p \in Param : weight[r][p] = PolicyValue(p, version)

WeightInv ==
  FirstSync /\ \A r \in Ranks : CacheInv(r) /\ LoadInv(r) /\ OneBucketInv(r) /\ MatchInv(r)

-----------------------------------------------------------------------------
(* Who can take a step: the guards of Driver, Sender and Worker.  GuardsOf *)
(* and GuardsMatch relate them to the actions.                            *)

DriverCanGo ==
  \/ phase \in {"collect", "generate"}
  \/ phase = "sync" /\ \/ \A r \in Ranks : spc[r] = "done"
                       \/ \E r \in Ranks : spc[r] = "crashed"

SenderCanGo(r) ==
  \/ spc[r] \in {"start", "handle", "fill"}
  \/ spc[r] \in {"handle_ack", "bucket_ack", "last_ack"} /\ rep[r]
  \/ spc[r] = "future" /\ \/ \A w \in Replica(r) : wpc[w] = "idle"
                          \/ \E w \in Replica(r) : wpc[w] = "failed"

WorkerCanGo(r) ==
  \/ wpc[r] = "handle" /\ req[r] = Handle
  \/ wpc[r] = "recv" /\ req[r][1] = "bucket"
  \/ wpc[r] \in {"clone", "apply"}

\* Nobody waits for ever: senders for acknowledgements, workers for buckets, the
\* driver for the ranks and a leader for its replica are never all waiting,
\* unless a worker has raised.
NoDeadlock ==
  phase = "sync" /\ (\A r \in Ranks : wpc[r] # "failed") =>
    DriverCanGo \/ \E r \in Ranks : SenderCanGo(r) \/ WorkerCanGo(r)

=============================================================================
