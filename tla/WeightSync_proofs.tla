-------------------------- MODULE WeightSync_proofs --------------------------
(***************************************************************************)
(* Theorems about WeightSync, for every number of ranks, replicas,         *)
(* weights and versions and every payload and bucket size.                 *)
(***************************************************************************)
EXTENDS WeightSync_inv, TLAPS

USE DEF SenderPlace, WorkerPlace, Kinds, Version, NoReq, Handle, NoBucket, NoContent, Bucket, Content

LEMMA PayloadType ==
  ASSUME NEW kind \in Kinds
  PROVE  /\ Payload(kind) \in Seq(Tensor)
         /\ Len(Payload(kind)) \in Nat
         /\ \A i \in 1 .. Len(Payload(kind)) : Payload(kind)[i] \in Tensor
<1>1. FullOrder \in Seq(Tensor) /\ AdapterOrder \in Seq(Tensor) /\ EncoderOrder \in Seq(Tensor)
  BY PayloadAssumption DEF Tensor, Param
<1>2. AdapterOrder \o EncoderOrder \in Seq(Tensor)
  BY <1>1
<1>3. Payload(kind) \in Seq(Tensor)
  BY <1>1, <1>2 DEF Payload
<1>. QED
  BY <1>3

LEMMA IndexType ==
  /\ Len(FullOrder) \in Nat /\ Len(Payload("lora")) \in Nat
  /\ Index \subseteq Nat \ {0} /\ 1 \in Index
  /\ \A kind \in Kinds : 1 .. Len(Payload(kind)) + 1 \subseteq Index
  /\ \A i, j \in Index : 1 .. i - j \subseteq Slot
<1>1. Len(FullOrder) \in Nat /\ Len(Payload("lora")) \in Nat
  BY PayloadType, PayloadAssumption
<1>2. Payload("full") = FullOrder
  BY DEF Payload
<1>. QED
  BY <1>1, <1>2 DEF Index, Slot

LEMMA KindType == ASSUME TypeOK, NEW r \in Ranks PROVE Kind(r) \in Kinds
  BY DEF TypeOK, Kind

\* What the pure steps of the receiver return.
LEMMA VersionOfType ==
  ASSUME NEW st \in SUBSET (Content \cup {NoContent}), NEW t, Has(t, st)
  PROVE  VersionOf(t, st) \in Nat
<1>1. PICK x \in st : x.tensor = t
  BY DEF Has
<1>2. (CHOOSE y \in st : y.tensor = t) \in st
  BY <1>1
<1>3. \A y \in st : y.ver \in Nat
  BY BoundAssumption
<1>. QED
  BY <1>2, <1>3 DEF VersionOf

LEMMA LoadedType ==
  ASSUME NEW w \in [Param -> Int \cup {Garbage}],
         NEW st \in SUBSET (Content \cup {NoContent})
  PROVE  Loaded(w, st) \in [Param -> Int \cup {Garbage}]
<1>1. ASSUME NEW p \in Param, Has(<<p, "full">>, st)
      PROVE  BaseValue(p, VersionOf(<<p, "full">>, st)) \in Int
  BY <1>1, VersionOfType DEF BaseValue
<1>. QED
  BY <1>1 DEF Loaded

LEMMA RestoredType ==
  ASSUME NEW w \in [Param -> Int \cup {Garbage}],
         NEW c \in [Param -> Int \cup {Garbage, Uncached}]
  PROVE  Restored(w, c) \in [Param -> Int \cup {Garbage}]
  BY DEF Restored

LEMMA MergedType ==
  ASSUME NEW w \in [Param -> Int \cup {Garbage}],
         NEW st \in SUBSET (Content \cup {NoContent}),
         NEW M \in SUBSET Modules,
         \A m \in M : Ready(m, st)
  PROVE  Merged(w, st, M) \in [Param -> Int \cup {Garbage}]
<1>1. ASSUME NEW p \in M
      PROVE  Delta(p, st) \in Int
  <2>1. (CHOOSE j \in Proj[p] : TRUE) \in Proj[p]
    BY ParamAssumption
  <2>. QED
    BY <2>1, VersionOfType DEF Delta, Ready
<1>2. \A p \in M : Plus(w[p], Delta(p, st)) \in Int \cup {Garbage}
  BY <1>1 DEF Plus, Param
<1>. QED
  BY <1>2 DEF Merged

LEMMA InitTypeOK == Init => TypeOK
  BY BoundAssumption, IndexType DEF Init, TypeOK

\* Every action keeps every variable in its domain.
LEMMA NextTypeOK == TypeOK /\ [Next]_vars => TypeOK'
<1>. SUFFICES ASSUME TypeOK, [Next]_vars
              PROVE  TypeOK'
  OBVIOUS
<1>. USE IndexType DEF TypeOK
<1>1. CASE Driver
  BY <1>1, BoundAssumption DEF Driver, BeginSync, EndSync, SyncFailed, UpdateActor, Finish,
     trainerVars, senderVars, workerVars
<1>2. ASSUME NEW l \in Servers, Generate(l)
      PROVE  TypeOK'
  BY <1>2 DEF Generate, trainerVars, senderVars, workerVars
<1>3. ASSUME NEW r \in Ranks, Sender(r)
      PROVE  TypeOK'
  <2>. USE DEF SGoto, trainerVars, senderVars, workerVars
  <2>1. CASE StartRpc(r)
    <3>1. Kind(r) \in Kinds
      BY KindType
    <3>. QED
      BY <2>1, <3>1 DEF StartRpc
  <2>2. CASE SendHandle(r)
    BY <2>2 DEF SendHandle
  <2>3. CASE RecvHandleAck(r)
    BY <2>3 DEF RecvHandleAck
  <2>4. CASE Put(r)
    <3>1. Kind(r) \in Kinds
      BY KindType
    <3>2. /\ \A i \in 1 .. Len(Payload(Kind(r))) : Payload(Kind(r))[i] \in Tensor
          /\ 1 .. Len(Payload(Kind(r))) + 1 \subseteq Index
      BY <3>1, PayloadType, IndexType
    <3>3. next[r] \in 1 .. Len(Payload(Kind(r))) /\ next[r] + 1 \in Index
      <4>1. Len(Payload(Kind(r))) \in Nat
        BY <3>1, PayloadType
      <4>2. next[r] \in Nat \ {0} /\ next[r] <= Len(Payload(Kind(r)))
        BY <2>4 DEF Put
      <4>3. next[r] \in 1 .. Len(Payload(Kind(r))) /\ next[r] + 1 \in 1 .. Len(Payload(Kind(r))) + 1
        BY <4>1, <4>2
      <4>. QED
        BY <4>3, <3>2
    <3>4. [tensor |-> Payload(Kind(r))[next[r]], ver |-> version] \in Content
      BY <3>2, <3>3
    <3>. QED
      BY <2>4, <3>3, <3>4 DEF Put
  <2>5. CASE Flush(r)
    BY <2>5 DEF Flush, SendBucket
  <2>6. CASE RecvBucketAck(r)
    BY <2>6 DEF RecvBucketAck
  <2>7. CASE SendLast(r)
    BY <2>7 DEF SendLast, SendBucket
  <2>8. CASE RecvLastAck(r)
    BY <2>8 DEF RecvLastAck
  <2>9. CASE AwaitFuture(r)
    BY <2>9 DEF AwaitFuture
  <2>10. CASE FutureFails(r)
    BY <2>10 DEF FutureFails
  <2>. QED
    BY <1>3, <2>1, <2>2, <2>3, <2>4, <2>5, <2>6, <2>7, <2>8, <2>9, <2>10 DEF Sender
<1>4. ASSUME NEW r \in Ranks, Worker(r)
      PROVE  TypeOK'
  <2>. USE DEF WGoto, trainerVars, senderVars, workerVars
  <2>1. CASE RecvHandle(r)
    BY <2>1 DEF RecvHandle
  <2>2. CASE RecvBucket(r)
    <3>1. req[r][2] \in Bucket
      BY <2>2 DEF RecvBucket
    <3>. QED
      BY <2>2, <3>1 DEF RecvBucket
  <2>3. CASE CloneAndAck(r)
    <3>1. ASSUME NEW k \in 1 .. wmsg[r].hi - wmsg[r].lo
          PROVE  buffer[r][k] \in Content \cup {NoContent}
      <4>1. wmsg[r].hi \in Index /\ wmsg[r].lo \in Index
        OBVIOUS
      <4>2. k \in Slot
        BY <3>1, <4>1
      <4>. QED
        BY <4>2
    <3>. QED
      BY <2>3, <3>1 DEF CloneAndAck
  <2>. DEFINE base == Loaded(Restored(weight[r], cache[r]), staged[r])
  <2>4. base \in [Param -> Int \cup {Garbage}]
    BY RestoredType, LoadedType
  <2>5. CASE LoadBucket(r)
    <3>1. Loaded(weight[r], staged[r]) \in [Param -> Int \cup {Garbage}]
      BY LoadedType
    <3>. QED
      BY <2>5, <3>1 DEF LoadBucket, AfterBucket
  <2>6. CASE MergeBucket(r)
    <3>1. Merged(base, staged[r], {m \in Modules : Ready(m, staged[r])}) \in [Param -> Int \cup {Garbage}]
      BY <2>4, MergedType
    <3>. QED
      BY <2>6, <3>1 DEF MergeBucket, AfterBucket
  <2>7. CASE ApplyFails(r)
    <3>1. ASSUME NEW S \in SUBSET staged[r]
          PROVE  Loaded(weight[r], S) \in [Param -> Int \cup {Garbage}]
      BY LoadedType
    <3>2. ASSUME NEW M \in SUBSET {m \in Modules : Ready(m, staged[r]) /\ ~Raises(m, staged[r])}
          PROVE  Merged(base, staged[r], M) \in [Param -> Int \cup {Garbage}]
      BY <2>4, MergedType
    <3>3. weight' \in [Ranks -> [Param -> Int \cup {Garbage}]]
      <4>1. PICK w \in [Param -> Int \cup {Garbage}] : weight' = [weight EXCEPT ![r] = w]
        BY <2>7, <3>1, <3>2 DEF ApplyFails
      <4>. QED
        BY <4>1
    <3>. QED
      BY <2>7, <3>3 DEF ApplyFails
  <2>. QED
    BY <1>4, <2>1, <2>2, <2>3, <2>5, <2>6, <2>7 DEF Worker
<1>5. CASE UNCHANGED vars
  BY <1>5 DEF vars, trainerVars, senderVars, workerVars
<1>. QED
  BY <1>1, <1>2, <1>3, <1>4, <1>5 DEF Next, Terminated

\* The variables of the weight synchronisation stay in their domains.
THEOREM TypeCorrect == Spec => []TypeOK
  BY InitTypeOK, NextTypeOK, PTL DEF Spec
-----------------------------------------------------------------------------
(* The protocol: where worker and channel are for each place of the sender *)

USE DEF Together, Protocol, Started, Quiet, Sent, Behind

LEMMA ProtocolInit == Init => ProtocolInv
<1>. SUFFICES ASSUME Init PROVE Together /\ \A r \in Ranks : Protocol(r)
  BY InitTypeOK DEF ProtocolInv
<1>. QED
  BY RanksAssumption DEF Init

\* What the protocol needs to know of the types.
SyncTypes ==
  /\ spc \in [Ranks -> SenderPlace] /\ wpc \in [Ranks -> WorkerPlace]
  /\ lo \in [Ranks -> Index] /\ next \in [Ranks -> Index]
  /\ req \in [Ranks -> {NoReq, Handle} \cup ({"bucket"} \X Bucket)]
  /\ rep \in [Ranks -> BOOLEAN] /\ wmsg \in [Ranks -> Bucket]

LEMMA SyncTypesOK == TypeOK => SyncTypes
  BY DEF TypeOK, SyncTypes

\* A step of rank r's sender other than the call of the server leaves the
\* other ranks alone, and the replicas that were started are the same.
LEMMA SenderFrame ==
  ASSUME ProtocolInv, NEW r \in Ranks, Sender(r), ~StartRpc(r)
  PROVE  /\ \A q \in Ranks : Started(q)' = Started(q)
         /\ \A q \in Ranks \ {r} : Protocol(q)'
         /\ phase' = phase /\ spc[r] # "idle" /\ spc'[r] # "idle"
         /\ \A q \in Ranks \ {r} : spc'[q] = spc[q] /\ wpc'[q] = wpc[q]
         /\ wpc' = wpc /\ wmsg' = wmsg
<1>. DEFINE Same(q) == /\ spc'[q] = spc[q] /\ lo'[q] = lo[q] /\ next'[q] = next[q]
                       /\ req'[q] = req[q] /\ rep'[q] = rep[q]
<1>1. SyncTypes
  BY SyncTypesOK DEF ProtocolInv
<1>2. /\ \A q \in Ranks \ {r} : Same(q)
      /\ phase' = phase /\ wpc' = wpc /\ wmsg' = wmsg
      /\ spc[r] \notin {"idle", "start"} /\ spc'[r] \notin {"idle", "start"}
  BY <1>1 DEF SyncTypes, Sender, SendHandle, RecvHandleAck, Put, Flush, RecvBucketAck, SendLast,
     RecvLastAck, AwaitFuture, FutureFails, SendBucket, SGoto, trainerVars, senderVars, workerVars
<1>3. \A q \in Ranks : Started(q)' = Started(q)
  BY <1>2, RanksAssumption DEF Started
<1>4. ASSUME NEW q \in Ranks \ {r} PROVE Protocol(q)'
  <2>1. Protocol(q) /\ Same(q) /\ Started(q)' = Started(q)
    BY <1>2, <1>3 DEF ProtocolInv
  <2>. QED
    BY <2>1, <1>2
<1>. QED
  BY <1>2, <1>3, <1>4

LEMMA SenderProtocol ==
  ASSUME ProtocolInv, NEW r \in Ranks, Sender(r), ~StartRpc(r)
  PROVE  Together' /\ \A q \in Ranks : Protocol(q)'
<1>. USE DEF SGoto, trainerVars, senderVars, workerVars, SyncTypes
<1>1. SyncTypes /\ Together /\ Protocol(r)
  BY SyncTypesOK DEF ProtocolInv
<1>2. /\ Started(r)' = Started(r) /\ phase' = phase /\ spc[r] # "idle" /\ spc'[r] # "idle"
      /\ \A q \in Ranks \ {r} : spc'[q] = spc[q]
      /\ wpc' = wpc /\ wmsg' = wmsg
  BY SenderFrame
<1>3. Protocol(r)'
  <2>1. CASE SendHandle(r)
    BY <1>1, <1>2, <2>1 DEF SendHandle
  <2>2. CASE RecvHandleAck(r)
    BY <1>1, <1>2, <2>2 DEF RecvHandleAck
  <2>3. CASE Put(r)
    BY <1>1, <1>2, <2>3 DEF Put
  <2>4. CASE Flush(r)
    BY <1>1, <1>2, <2>4 DEF Flush, SendBucket
  <2>5. CASE RecvBucketAck(r)
    BY <1>1, <1>2, <2>5 DEF RecvBucketAck
  <2>6. CASE SendLast(r)
    BY <1>1, <1>2, <2>6 DEF SendLast, SendBucket
  <2>7. CASE RecvLastAck(r)
    BY <1>1, <1>2, <2>7 DEF RecvLastAck
  <2>8. CASE AwaitFuture(r)
    BY <1>1, <1>2, <2>8 DEF AwaitFuture
  <2>9. CASE FutureFails(r)
    BY <1>1, <1>2, <2>9 DEF FutureFails
  <2>. QED
    BY <2>1, <2>2, <2>3, <2>4, <2>5, <2>6, <2>7, <2>8, <2>9 DEF Sender
<1>4. \A q \in Ranks : spc'[Leader[q]] = "done" => wpc'[q] = "idle"
  <2>1. spc'[r] = "done" /\ spc[r] # "done" /\ r = Leader[r] => AwaitFuture(r)
    BY <1>1 DEF Sender, SendHandle, RecvHandleAck, Put, Flush, RecvBucketAck, SendLast,
       RecvLastAck, AwaitFuture, FutureFails
  <2>2. ASSUME NEW q \in Ranks, spc'[Leader[q]] = "done", Leader[q] = r
        PROVE  wpc'[q] = "idle"
    BY <1>1, <1>2, <2>1, <2>2, RanksAssumption DEF AwaitFuture, Replica
  <2>. QED
    BY <1>1, <1>2, <2>2, RanksAssumption
<1>5. spc'[r] = "future" => r = Leader[r]
  BY <1>1 DEF Sender, SendHandle, RecvHandleAck, Put, Flush, RecvBucketAck, SendLast,
     RecvLastAck, AwaitFuture, FutureFails
<1>6. Together'
  BY <1>1, <1>2, <1>4, <1>5
<1>. QED
  BY <1>3, <1>6, SenderFrame

LEMMA StartProtocol ==
  ASSUME ProtocolInv, NEW r \in Ranks, StartRpc(r)
  PROVE  Together' /\ \A q \in Ranks : Protocol(q)'
<1>. USE DEF SyncTypes
<1>1. SyncTypes /\ Together /\ \A q \in Ranks : Protocol(q)
  BY SyncTypesOK DEF ProtocolInv
<1>2. /\ spc[r] = "start" /\ spc' = [spc EXCEPT ![r] = "handle"]
      /\ phase' = phase /\ UNCHANGED <<lo, next, req, rep, wmsg>>
  BY DEF StartRpc, SGoto, trainerVars
<1>3. ASSUME NEW q \in Ranks
      PROVE  /\ Started(q)' = (Started(q) \/ (r = Leader[r] /\ q \in Replica(r)))
             /\ r = Leader[r] /\ q \in Replica(r) => ~Started(q)
             /\ wpc'[q] = IF r = Leader[r] /\ q \in Replica(r) THEN "handle" ELSE wpc[q]
  BY <1>1, <1>2, RanksAssumption DEF StartRpc, Replica
<1>4. ASSUME NEW q \in Ranks
      PROVE  Protocol(q)'
  <2>1. Protocol(q)
    BY <1>1
  <2>. QED
    BY <1>1, <1>2, <1>3, <2>1
<1>5. \A q \in Ranks : spc'[Leader[q]] = "done" => wpc'[q] = "idle"
  BY <1>1, <1>2, <1>3, RanksAssumption
<1>. QED
  BY <1>1, <1>2, <1>4, <1>5

LEMMA WorkerProtocol ==
  ASSUME ProtocolInv, NEW r \in Ranks, Worker(r)
  PROVE  Together' /\ \A q \in Ranks : Protocol(q)'
<1>. USE DEF WGoto, AfterBucket, trainerVars, senderVars, SyncTypes
<1>1. SyncTypes /\ Together /\ \A q \in Ranks : Protocol(q)
  BY SyncTypesOK DEF ProtocolInv
<1>2. /\ UNCHANGED <<phase, spc, lo, next>>
      /\ wpc[r] # "idle"
      /\ \A q \in Ranks \ {r} :
           wpc'[q] = wpc[q] /\ wmsg'[q] = wmsg[q] /\ req'[q] = req[q] /\ rep'[q] = rep[q]
  BY <1>1 DEF Worker, RecvHandle, RecvBucket, CloneAndAck, LoadBucket, MergeBucket, ApplyFails
<1>3. ASSUME NEW q \in Ranks \ {r}
      PROVE  Protocol(q)'
  <2>1. Protocol(q)
    BY <1>1
  <2>. QED
    BY <1>2, <2>1
<1>4. Protocol(r)'
  <2>1. Protocol(r)
    BY <1>1
  <2>. DEFINE IsFcn(f) == f = [q \in Ranks |-> f[q]]
  <2>0. IsFcn(req) /\ IsFcn(rep) /\ IsFcn(wpc) /\ IsFcn(wmsg)
    BY <1>1
  <2>2. CASE RecvHandle(r)
    <3>1. spc[r] = "handle_ack" /\ Started(r)
      <4>1. req[r] # NoReq
        BY <2>2 DEF RecvHandle
      <4>. QED
        BY <1>1, <2>1, <2>2, <4>1 DEF RecvHandle
    <3>2. req'[r] = NoReq /\ rep'[r] /\ wpc'[r] = "recv"
      BY <2>0, <2>2 DEF RecvHandle
    <3>3. lo'[r] = 1 /\ next'[r] = 1 /\ spc'[r] = "handle_ack" /\ Started(r)'
      BY <1>2, <2>1, <3>1
    <3>. QED
      BY <3>2, <3>3
  <2>3. CASE RecvBucket(r)
    <3>1. req[r] # NoReq /\ req[r] # Handle
      BY <2>3 DEF RecvBucket
    <3>2. spc[r] \in {"bucket_ack", "last_ack"} /\ req[r] = <<"bucket", Sent(r)>> /\ ~rep[r]
      BY <1>1, <2>1, <2>3, <3>1 DEF RecvBucket
    <3>3. req'[r] = NoReq /\ rep'[r] = rep[r] /\ wpc'[r] = "clone" /\ wmsg'[r] = req[r][2]
      BY <2>0, <2>3 DEF RecvBucket
    <3>4. req[r][2] = Sent(r) /\ Sent(r)' = Sent(r)
      BY <1>2, <3>2
    <3>5. Started(r)' /\ spc'[r] \in {"bucket_ack", "last_ack"}
      BY <1>2, <2>1, <3>2
    <3>6. ~rep'[r] /\ wmsg'[r] = Sent(r)'
      BY <3>2, <3>3, <3>4
    <3>7. Quiet(r)' /\ wpc'[r] = "clone" /\ wmsg'[r] = Sent(r)'
      BY <3>3, <3>6 DEF Quiet
    <3>. HIDE DEF Sent, Quiet, Behind, Started
    <3>. QED
      BY <3>3, <3>5, <3>7
  <2>4. CASE CloneAndAck(r)
    BY <1>1, <1>2, <2>1, <2>4 DEF CloneAndAck
  <2>5. CASE LoadBucket(r)
    BY <1>1, <1>2, <2>1, <2>5 DEF LoadBucket
  <2>6. CASE MergeBucket(r)
    BY <1>1, <1>2, <2>1, <2>6 DEF MergeBucket
  <2>7. CASE ApplyFails(r)
    BY <1>1, <1>2, <2>1, <2>7 DEF ApplyFails
  <2>. QED
    BY <2>2, <2>3, <2>4, <2>5, <2>6, <2>7 DEF Worker
<1>5. Together'
  BY <1>1, <1>2, RanksAssumption
<1>. QED
  BY <1>3, <1>4, <1>5

LEMMA DriverProtocol ==
  ASSUME ProtocolInv, Driver \/ (\E l \in Servers : Generate(l)) \/ UNCHANGED vars
  PROVE  Together' /\ \A q \in Ranks : Protocol(q)'
<1>. USE DEF trainerVars, senderVars, workerVars, SyncTypes
<1>1. SyncTypes /\ Together /\ \A q \in Ranks : Protocol(q)
  BY SyncTypesOK DEF ProtocolInv
<1>2. CASE BeginSync
  BY <1>1, <1>2, RanksAssumption DEF BeginSync
<1>3. CASE EndSync
  BY <1>1, <1>3, RanksAssumption DEF EndSync
<1>4. CASE SyncFailed \/ UpdateActor \/ Finish \/ UNCHANGED vars \/ \E l \in Servers : Generate(l)
  <2>1. /\ UNCHANGED <<spc, lo, next, req, rep, wpc, wmsg>>
        /\ \/ phase \in {"collect", "generate", "done"} /\ phase' \in {"collect", "generate", "done"}
           \/ phase \in {"sync", "crashed"} /\ phase' \in {"sync", "crashed"}
    BY <1>1, <1>4 DEF SyncFailed, UpdateActor, Finish, Generate, vars
  <2>. QED
    BY <1>1, <2>1
<1>. QED
  BY <1>2, <1>3, <1>4 DEF Driver

LEMMA ProtocolNext == ProtocolInv /\ [Next]_vars => ProtocolInv'
<1>. SUFFICES ASSUME ProtocolInv, [Next]_vars PROVE ProtocolInv'
  OBVIOUS
<1>1. TypeOK'
  BY NextTypeOK DEF ProtocolInv
<1>2. Together' /\ \A q \in Ranks : Protocol(q)'
  <2>1. CASE \E r \in Ranks : Sender(r) \/ Worker(r)
    <3>1. PICK r \in Ranks : Sender(r) \/ Worker(r)
      BY <2>1
    <3>. QED
      BY <3>1, SenderProtocol, StartProtocol, WorkerProtocol
  <2>. QED
    BY <2>1, DriverProtocol DEF Next, Terminated
<1>. QED
  BY <1>1, <1>2 DEF ProtocolInv

\* Once the driver goes on, no worker is still applying weights and nothing
\* is left in a channel, although only one rank of a replica awaits the RPC.
THEOREM NobodyLeftBehind == Spec => []NoWorkerLeftBehind
<1>1. ProtocolInv => NoWorkerLeftBehind
  BY DEF ProtocolInv, NoWorkerLeftBehind
<1>. QED
  BY <1>1, ProtocolInit, ProtocolNext, PTL DEF Spec

-----------------------------------------------------------------------------
(* No deadlock *)

\* The guards are those of the actions.
LEMMA GuardsOf ==
  /\ Driver => DriverCanGo
  /\ \A r \in Ranks : (Sender(r) => SenderCanGo(r)) /\ (Worker(r) => WorkerCanGo(r))
<1>1. Driver => DriverCanGo
  BY DEF Driver, BeginSync, EndSync, SyncFailed, UpdateActor, Finish, DriverCanGo
<1>2. ASSUME NEW r \in Ranks, Sender(r) PROVE SenderCanGo(r)
  BY <1>2 DEF Sender, StartRpc, SendHandle, RecvHandleAck, Put, Flush, RecvBucketAck, SendLast,
     RecvLastAck, AwaitFuture, FutureFails, SGoto, SenderCanGo
<1>3. ASSUME NEW r \in Ranks, Worker(r) PROVE WorkerCanGo(r)
  BY <1>3 DEF Worker, RecvHandle, RecvBucket, CloneAndAck, LoadBucket, MergeBucket, ApplyFails,
     WGoto, WorkerCanGo
<1> QED BY <1>1, <1>2, <1>3

\* A sender that cannot go on waits for a worker that can, for its leader's
\* call, or is past its last acknowledgement.
LEMMA BlockedSender ==
  ASSUME ProtocolInv, phase = "sync", \A q \in Ranks : wpc[q] # "failed" /\ spc[q] # "crashed",
         NEW r \in Ranks, ~SenderCanGo(r), ~WorkerCanGo(r)
  PROVE  \/ spc[r] \in {"future", "done"}
         \/ SenderCanGo(Leader[r])
<1>1. /\ Protocol(r) /\ spc \in [Ranks -> SenderPlace] /\ spc[r] # "idle" /\ spc[r] # "crashed"
      /\ wpc[r] # "failed" /\ Leader[r] \in Ranks
  BY RanksAssumption DEF ProtocolInv, TypeOK, Together
<1>2. spc[r] \in {"handle_ack", "bucket_ack", "last_ack", "future", "done"}
  BY <1>1 DEF SenderPlace, SenderCanGo
<1>3. CASE spc[r] = "handle_ack"
  <2>1. ~rep[r]
    BY <1>3 DEF SenderCanGo
  <2>2. req[r] = Handle /\ wpc[r] = IF Started(r) THEN "handle" ELSE "idle"
    BY <1>1, <1>3, <2>1 DEF Protocol
  <2>3. ~Started(r)
    BY <2>2 DEF WorkerCanGo
  <2>4. spc[Leader[r]] = "start"
    BY <1>1, <2>3 DEF Started, ProtocolInv, Together
  <2> QED BY <2>4 DEF SenderCanGo
<1>4. CASE spc[r] \in {"bucket_ack", "last_ack"}
  <2>1. ~rep[r]
    BY <1>4 DEF SenderCanGo
  <2>2. \/ req[r] = <<"bucket", Sent(r)>> /\ Behind(r)
        \/ wpc[r] = "clone"
    BY <1>1, <1>4, <2>1 DEF Protocol
  <2>3. WorkerCanGo(r)
    BY <1>1, <2>2 DEF Behind, WorkerCanGo
  <2> QED BY <2>3
<1> QED BY <1>2, <1>3, <1>4

\* A weight update of any number of replicas and ranks, with any payloads and
\* buckets, never deadlocks unless a worker has raised: what HangsOnlyAfterFailure
\* says of the runs under fairness rests on it.
THEOREM SyncNeverDeadlocks == Spec => []NoDeadlock
<1>1. ProtocolInv => NoDeadlock
  <2> SUFFICES ASSUME ProtocolInv, phase = "sync", \A q \in Ranks : wpc[q] # "failed",
                      ~DriverCanGo, \A q \in Ranks : ~SenderCanGo(q) /\ ~WorkerCanGo(q)
               PROVE  FALSE
    BY DEF NoDeadlock
  <2>1. \A q \in Ranks : spc[q] # "crashed"
    BY DEF DriverCanGo
  <2>2. \A q \in Ranks : Leader[q] \in Ranks
    BY RanksAssumption
  <2>3. \A q \in Ranks : spc[q] \in {"future", "done"}
    BY <2>1, <2>2, BlockedSender
  <2>4. PICK r \in Ranks : spc[r] = "future"
    BY <2>3 DEF DriverCanGo
  <2>5. PICK w \in Replica(r) : wpc[w] # "idle"
    BY <2>4 DEF SenderCanGo
  <2>6. w \in Ranks /\ Protocol(w) /\ wpc[w] # "failed"
    BY DEF Replica, ProtocolInv
  <2>7. wpc[w] = "apply"
    BY <2>3, <2>5, <2>6 DEF Protocol
  <2> QED BY <2>6, <2>7 DEF WorkerCanGo
<1> QED BY <1>1, ProtocolInit, ProtocolNext, PTL DEF Spec

-----------------------------------------------------------------------------
(* The contents: what is staged is what was put into the bucket *)

LEMMA ContentInit == Init => ContentInv
  BY RanksAssumption DEF Init, ContentInv, KindsAgree, BufferInv, StagedInv

LEMMA KindsAgreeNext ==
  ASSUME ProtocolInv, KindsAgree, [Next]_vars
  PROVE  KindsAgree'
<1>. USE DEF KindsAgree, Kind, trainerVars, senderVars, workerVars
<1>1. /\ Together /\ \A r \in Ranks : Protocol(r)
      /\ spc \in [Ranks -> SenderPlace] /\ baseSyncDone \in [Ranks -> BOOLEAN]
      /\ wkind \in [Ranks -> Kinds]
  BY DEF ProtocolInv, TypeOK
<1>0. spc \in [Ranks -> SenderPlace] /\ baseSyncDone \in [Ranks -> BOOLEAN]
  BY <1>1
<1>2. CASE Driver \/ (\E l \in Servers : Generate(l)) \/ UNCHANGED vars
  BY <1>1, <1>2, RanksAssumption DEF Driver, BeginSync, EndSync, SyncFailed, UpdateActor, Finish, Generate, vars
<1>3. ASSUME NEW r \in Ranks, StartRpc(r)
      PROVE  KindsAgree'
  <2>1. /\ spc[r] = "start" /\ spc' = [spc EXCEPT ![r] = "handle"] /\ baseSyncDone' = baseSyncDone
        /\ \A q \in Ranks : wkind'[q] = IF r = Leader[r] /\ q \in Replica(r) THEN Kind(r) ELSE wkind[q]
    BY <1>1, <1>3 DEF StartRpc, SGoto
  <2>2. \A q \in Ranks : spc'[q] = "done" <=> spc[q] = "done"
    BY <1>1, <2>1
  <2>3. ASSUME NEW q \in Ranks, Started(q)', spc'[q] # "done"
        PROVE  wkind'[q] = Kind(q)'
    <3>1. CASE r = Leader[r] /\ q \in Replica(r)
      <4>1. baseSyncDone[q] = baseSyncDone[r]
        BY <1>1, <2>1, <2>2, <2>3
      <4>. QED
        BY <2>1, <3>1, <4>1
    <3>2. CASE ~(r = Leader[r] /\ q \in Replica(r))
      <4>1. Started(q)
        BY <1>1, <2>1, <2>3, <3>2, RanksAssumption DEF Replica
      <4>. QED
        BY <2>1, <2>2, <2>3, <3>2, <4>1
    <3>. QED
      BY <3>1, <3>2
  <2>. QED
    BY <2>1, <2>2, <2>3
<1>4. ASSUME NEW r \in Ranks, Sender(r), ~StartRpc(r)
      PROVE  KindsAgree'
  <2>1. \A q \in Ranks : Started(q)' = Started(q)
    BY <1>4, SenderFrame
  <2>2. /\ wkind' = wkind
        /\ \A q \in Ranks \ {r} : spc'[q] = spc[q] /\ baseSyncDone'[q] = baseSyncDone[q]
        /\ \/ spc[r] # "done" /\ spc'[r] = "done" /\ baseSyncDone'[r]
           \/ spc[r] # "done" /\ spc'[r] # "done" /\ baseSyncDone'[r] = baseSyncDone[r]
    <3>1. CASE RecvLastAck(r)
      <4>1. /\ wkind' = wkind /\ spc[r] = "last_ack"
            /\ spc' = [spc EXCEPT ![r] = IF r = Leader[r] THEN "future" ELSE "done"]
            /\ baseSyncDone' = [baseSyncDone EXCEPT ![r] = baseSyncDone[r] \/ r # Leader[r]]
        BY <3>1 DEF RecvLastAck, SGoto
      <4>2. CASE r = Leader[r]
        <5>1. baseSyncDone[r] \/ r # Leader[r] <=> baseSyncDone[r]
          BY <4>2
        <5>2. baseSyncDone'[r] = baseSyncDone[r] /\ spc'[r] = "future"
          BY <1>0, <4>1, <4>2, <5>1
        <5>. QED
          BY <1>0, <4>1, <5>2
      <4>3. CASE r # Leader[r]
        BY <1>0, <4>1, <4>3
      <4>. QED
        BY <4>2, <4>3
    <3>. QED
      BY <1>0, <1>4, <3>1 DEF Sender, SGoto, SendHandle, RecvHandleAck, Put, Flush, RecvBucketAck,
         SendLast, AwaitFuture, FutureFails
  <2>. HIDE DEF Started
  <2>. QED
    BY <2>1, <2>2
<1>5. ASSUME NEW r \in Ranks, Worker(r)
      PROVE  KindsAgree'
  <2>1. UNCHANGED <<spc, baseSyncDone, wkind>>
    BY <1>5 DEF Worker, RecvHandle, RecvBucket, CloneAndAck, LoadBucket, MergeBucket, ApplyFails
  <2>. QED
    BY <2>1
<1>. QED
  BY <1>2, <1>3, <1>4, <1>5 DEF Next, Sender, Terminated

\* What is sent to rank r does not change while it is sending.
LEMMA KindStable ==
  ASSUME ProtocolInv, [Next]_vars, NEW r \in Ranks,
         spc'[r] \in {"handle_ack", "fill", "bucket_ack", "last_ack"}
  PROVE  Kind(r)' = Kind(r) /\ version' = version
<1>. USE DEF Kind, trainerVars, senderVars, workerVars, SGoto
<1>0. /\ spc \in [Ranks -> SenderPlace] /\ baseSyncDone \in [Ranks -> BOOLEAN] /\ Together
  BY DEF ProtocolInv, TypeOK
<1>1. CASE Driver \/ (\E l \in Servers : Generate(l)) \/ UNCHANGED vars
  BY <1>0, <1>1 DEF Driver, BeginSync, EndSync, SyncFailed, UpdateActor, Finish, Generate, vars
<1>2. ASSUME NEW q \in Ranks, Sender(q)
      PROVE  baseSyncDone'[r] = baseSyncDone[r] /\ version' = version
  <2>1. CASE RecvLastAck(q)
    BY <1>0, <1>2, <2>1 DEF RecvLastAck
  <2>2. CASE AwaitFuture(q)
    BY <1>0, <1>2, <2>2 DEF AwaitFuture
  <2>. QED
    BY <1>2, <2>1, <2>2 DEF Sender, StartRpc, SendHandle, RecvHandleAck, Put, Flush, RecvBucketAck,
       SendLast, FutureFails
<1>3. ASSUME NEW q \in Ranks, Worker(q)
      PROVE  baseSyncDone'[r] = baseSyncDone[r] /\ version' = version
  BY <1>3 DEF Worker, RecvHandle, RecvBucket, CloneAndAck, LoadBucket, MergeBucket, ApplyFails
<1>. QED
  BY <1>1, <1>2, <1>3 DEF Next, Terminated

LEMMA BufferNext ==
  ASSUME ProtocolInv, ContentInv, [Next]_vars, NEW r \in Ranks
  PROVE  BufferInv(r)'
<1>. SUFFICES ASSUME spc'[r] \in {"handle_ack", "fill", "bucket_ack", "last_ack"}
              PROVE  BufferInv(r)'
  BY DEF BufferInv
<1>. USE DEF BufferInv, trainerVars, senderVars, workerVars, SGoto
<1>1. /\ Kind(r)' = Kind(r) /\ version' = version /\ Kind(r) \in Kinds
      /\ Len(Payload(Kind(r))) \in Nat
  BY KindStable, KindType, PayloadType DEF ProtocolInv
<1>2. /\ spc \in [Ranks -> SenderPlace] /\ lo \in [Ranks -> Index] /\ next \in [Ranks -> Index]
      /\ buffer \in [Ranks -> [Slot -> Content \cup {NoContent}]]
      /\ lo[r] \in Nat \ {0} /\ next[r] \in Nat \ {0}
      /\ Together /\ BufferInv(r)
  <2>1. TypeOK /\ Together /\ BufferInv(r)
    BY DEF ProtocolInv, ContentInv
  <2>2. lo[r] \in Index /\ next[r] \in Index
    BY <2>1 DEF TypeOK
  <2>3. lo[r] \in Nat \ {0} /\ next[r] \in Nat \ {0}
    BY <2>2, IndexType
  <2>. QED
    BY <2>1, <2>3 DEF TypeOK
<1>. DEFINE Same == UNCHANGED <<lo, next, buffer>> /\ spc'[r] = spc[r]
<1>3. CASE Same
  BY <1>1, <1>2, <1>3
<1>4. CASE Driver \/ (\E l \in Servers : Generate(l)) \/ UNCHANGED vars
  BY <1>2, <1>3, <1>4 DEF Driver, BeginSync, EndSync, SyncFailed, UpdateActor, Finish, Generate, vars
<1>5. CASE \E q \in Ranks : Worker(q)
  BY <1>3, <1>5 DEF Worker, RecvHandle, RecvBucket, CloneAndAck, LoadBucket, MergeBucket, ApplyFails
<1>6. ASSUME NEW q \in Ranks, Sender(q)
      PROVE  BufferInv(r)'
  <2>1. CASE q # r
    <3>1. spc'[r] = spc[r] /\ lo'[r] = lo[r] /\ next'[r] = next[r] /\ buffer'[r] = buffer[r]
      BY <1>2, <1>6, <2>1 DEF Sender, StartRpc, SendHandle, RecvHandleAck, Put, Flush, RecvBucketAck,
         SendLast, RecvLastAck, AwaitFuture, FutureFails
    <3>. QED
      BY <1>1, <1>2, <3>1
  <2>2. CASE q = r
    <3>1. CASE SendHandle(r)
      BY <1>1, <1>2, <3>1 DEF SendHandle
    <3>2. CASE Put(r)
      <4>1. /\ spc[r] = "fill" /\ next[r] <= Len(Payload(Kind(r)))
            /\ spc' = spc /\ lo' = lo /\ next' = [next EXCEPT ![r] = next[r] + 1]
        BY <3>2 DEF Put
      <4>2. lo[r] <= next[r] /\ next[r] - lo[r] + 1 \in Nat \ {0}
        BY <1>2, <4>1
      <4>. DEFINE put == [tensor |-> Payload(Kind(r))[next[r]], ver |-> version]
                  slot == next[r] - lo[r] + 1
      <4>3. slot \in Slot
        <5>1. slot \in 1 .. slot
          BY <4>2
        <5>2. next[r] + 1 \in Index
          BY <1>1, <1>2, <4>1, IndexType
        <5>3. slot = (next[r] + 1) - lo[r]
          BY <1>2
        <5>4. 1 .. (next[r] + 1) - lo[r] \subseteq Slot
          BY <1>2, <5>2, IndexType
        <5>. QED
          BY <5>1, <5>3, <5>4
      <4>4. /\ buffer'[r][slot] = put
            /\ \A k \in Slot \ {slot} : buffer'[r][k] = buffer[r][k]
        BY <1>2, <3>2, <4>3 DEF Put
      <4>5. ASSUME NEW i \in lo[r] .. next[r]
            PROVE  buffer'[r][i - lo[r] + 1] = [tensor |-> Payload(Kind(r))[i], ver |-> version]
        <5>1. CASE i = next[r]
          BY <4>4, <5>1
        <5>2. CASE i # next[r]
          <6>1. /\ i \in lo[r] .. next[r] - 1 /\ i - lo[r] + 1 # slot
                /\ i - lo[r] + 1 \in 1 .. next[r] - lo[r]
            BY <1>2, <5>2
          <6>2. i - lo[r] + 1 \in Slot
            BY <1>2, <6>1, IndexType
          <6>. QED
            BY <1>2, <4>1, <4>4, <6>1, <6>2
        <5>. QED
          BY <5>1, <5>2
      <4>6. lo'[r] = lo[r] /\ next'[r] = next[r] + 1 /\ spc'[r] = "fill"
        BY <1>2, <4>1
      <4>. HIDE DEF slot, put
      <4>. QED
        BY <1>1, <1>2, <4>1, <4>2, <4>5, <4>6
    <3>3. CASE RecvBucketAck(r)
      BY <1>1, <1>2, <3>3 DEF RecvBucketAck
    <3>4. CASE SendLast(r)
      <4>1. /\ spc[r] = "fill" /\ next[r] > Len(Payload(Kind(r)))
            /\ spc' = [spc EXCEPT ![r] = "last_ack"] /\ UNCHANGED <<lo, next, buffer>>
        BY <3>4 DEF SendLast
      <4>2. next[r] = Len(Payload(Kind(r))) + 1
        BY <1>1, <1>2, <4>1
      <4>. QED
        BY <1>1, <1>2, <4>1, <4>2
    <3>5. CASE RecvHandleAck(r) \/ Flush(r)
      BY <1>1, <1>2, <3>5 DEF RecvHandleAck, Flush
    <3>6. CASE StartRpc(r) \/ RecvLastAck(r) \/ AwaitFuture(r) \/ FutureFails(r)
      BY <1>2, <3>6 DEF StartRpc, RecvLastAck, AwaitFuture, FutureFails
    <3>. QED
      BY <1>6, <2>2, <3>1, <3>2, <3>3, <3>4, <3>5, <3>6 DEF Sender
  <2>. QED
    BY <2>1, <2>2
<1>. QED
  BY <1>4, <1>5, <1>6 DEF Next, Terminated

\* A worker clones a bucket that its sender is waiting for, so the buffer
\* still holds it.
LEMMA CloneIntact ==
  ASSUME ProtocolInv, ContentInv, NEW r \in Ranks, wpc[r] = "clone"
  PROVE  /\ wmsg[r] = Sent(r) /\ spc[r] \in {"bucket_ack", "last_ack"}
         /\ wkind[r] = Kind(r) /\ wmsg[r].lo <= wmsg[r].hi
         /\ wmsg[r].hi <= Len(Payload(Kind(r))) + 1
         /\ wmsg[r].last => wmsg[r].hi = Len(Payload(Kind(r))) + 1
         /\ {buffer[r][k] : k \in 1 .. wmsg[r].hi - wmsg[r].lo} =
              {[tensor |-> Payload(Kind(r))[i], ver |-> version] : i \in wmsg[r].lo .. wmsg[r].hi - 1}
<1>1. wmsg[r] = Sent(r) /\ spc[r] \in {"bucket_ack", "last_ack"} /\ Started(r)
  <2>1. TypeOK /\ Protocol(r)
    BY DEF ProtocolInv
  <2>2. spc[r] \in SenderPlace
    BY <2>1 DEF TypeOK
  <2>. HIDE DEF Quiet, Behind, Sent, Started
  <2>. QED
    BY <2>1, <2>2 DEF Behind
<1>2. wmsg[r].lo = lo[r] /\ wmsg[r].hi = next[r] /\ wmsg[r].last = (spc[r] = "last_ack")
  <2>1. wmsg[r] = [lo |-> lo[r], hi |-> next[r], last |-> spc[r] = "last_ack"]
    BY <1>1
  <2>. QED
    BY <2>1
<1>3. lo[r] \in Nat \ {0} /\ next[r] \in Nat \ {0}
  <2>1. lo[r] \in Index /\ next[r] \in Index
    BY DEF ProtocolInv, TypeOK
  <2>. QED
    BY <2>1, IndexType
<1>4. wkind[r] = Kind(r) /\ BufferInv(r)
  BY <1>1 DEF ContentInv, KindsAgree
<1>5. /\ lo[r] <= next[r] /\ next[r] <= Len(Payload(Kind(r))) + 1
      /\ spc[r] = "last_ack" => next[r] = Len(Payload(Kind(r))) + 1
      /\ \A i \in lo[r] .. next[r] - 1 :
           buffer[r][i - lo[r] + 1] = [tensor |-> Payload(Kind(r))[i], ver |-> version]
  BY <1>1, <1>4 DEF BufferInv
<1>. DEFINE T(i) == [tensor |-> Payload(Kind(r))[i], ver |-> version]
<1>6. ASSUME NEW k \in 1 .. next[r] - lo[r]
      PROVE  \E i \in lo[r] .. next[r] - 1 : buffer[r][k] = T(i)
  <2>1. k + lo[r] - 1 \in lo[r] .. next[r] - 1 /\ (k + lo[r] - 1) - lo[r] + 1 = k
    BY <1>3, <1>5
  <2>. QED
    BY <1>5, <2>1
<1>7. ASSUME NEW i \in lo[r] .. next[r] - 1
      PROVE  \E k \in 1 .. next[r] - lo[r] : buffer[r][k] = T(i)
  <2>1. i - lo[r] + 1 \in 1 .. next[r] - lo[r]
    BY <1>3, <1>5
  <2>. QED
    BY <1>5, <2>1
<1>8. {buffer[r][k] : k \in 1 .. next[r] - lo[r]} = {T(i) : i \in lo[r] .. next[r] - 1}
  <2>. HIDE DEF T
  <2>. QED
    BY <1>6, <1>7
<1>. QED
  BY <1>1, <1>2, <1>4, <1>5, <1>8

LEMMA StagedNext ==
  ASSUME ProtocolInv, ContentInv, [Next]_vars, NEW r \in Ranks
  PROVE  StagedInv(r)'
<1>. SUFFICES ASSUME wpc'[r] = "apply"
              PROVE  StagedInv(r)'
  BY DEF StagedInv
<1>. USE DEF StagedInv, trainerVars, senderVars, workerVars, SGoto, WGoto
<1>1. /\ wpc \in [Ranks -> WorkerPlace] /\ Together /\ StagedInv(r)
      /\ DOMAIN staged = Ranks /\ DOMAIN wmsg = Ranks
  BY DEF ProtocolInv, ContentInv, TypeOK
<1>. DEFINE Same == /\ wpc[r] = "apply" /\ wmsg'[r] = wmsg[r] /\ staged'[r] = staged[r]
                    /\ wkind'[r] = wkind[r] /\ version' = version
<1>2. CASE Same
  BY <1>1, <1>2
<1>3. CASE Driver \/ (\E l \in Servers : Generate(l)) \/ UNCHANGED vars
  <2>1. ~UpdateActor
    BY <1>1 DEF ProtocolInv, UpdateActor
  <2>. QED
    BY <1>1, <1>2, <1>3, <2>1 DEF Driver, BeginSync, EndSync, SyncFailed, Finish, Generate, vars
<1>4. CASE \E q \in Ranks : Sender(q)
  <2>1. Same
    <3>1. CASE \E q \in Ranks : StartRpc(q)
      BY <1>1, <3>1 DEF StartRpc
    <3>. QED
      BY <1>1, <1>4, <3>1 DEF Sender, SendHandle, RecvHandleAck, Put, Flush, RecvBucketAck,
         SendLast, RecvLastAck, AwaitFuture, FutureFails
  <2>. QED
    BY <1>2, <2>1
<1>5. ASSUME NEW q \in Ranks, Worker(q)
      PROVE  StagedInv(r)'
  <2>1. CASE q = r /\ CloneAndAck(r)
    <3>1. wpc[r] = "clone" /\ staged'[r] = {buffer[r][k] : k \in 1 .. wmsg[r].hi - wmsg[r].lo}
          /\ UNCHANGED <<wmsg, wkind, version>>
      BY <1>1, <2>1 DEF CloneAndAck
    <3>2. /\ wkind[r] = Kind(r) /\ wmsg[r].lo <= wmsg[r].hi
          /\ wmsg[r].hi <= Len(Payload(Kind(r))) + 1
          /\ wmsg[r].last => wmsg[r].hi = Len(Payload(Kind(r))) + 1
          /\ staged'[r] = {[tensor |-> Payload(Kind(r))[i], ver |-> version] :
                            i \in wmsg[r].lo .. wmsg[r].hi - 1}
      BY <3>1, CloneIntact
    <3>. QED
      BY <3>1, <3>2
  <2>2. CASE q = r /\ ~CloneAndAck(r)
    BY <1>1, <1>5, <2>2 DEF Worker, RecvHandle, RecvBucket, LoadBucket, MergeBucket, ApplyFails, AfterBucket
  <2>3. CASE q # r
    <3>1. Same
      BY <1>1, <1>5, <2>3 DEF Worker, RecvHandle, RecvBucket, CloneAndAck, LoadBucket, MergeBucket,
         ApplyFails, AfterBucket
    <3>. QED
      BY <1>2, <3>1
  <2>. QED
    BY <2>1, <2>2, <2>3
<1>. QED
  BY <1>3, <1>4, <1>5 DEF Next, Terminated

LEMMA ContentNext == ProtocolInv /\ ContentInv /\ [Next]_vars => ContentInv'
  BY KindsAgreeNext, BufferNext, StagedNext DEF ContentInv

\* What a worker has cloned out of the shared buffer is the bucket its sender
\* put there, although the sender refills the buffer while the worker applies it.
THEOREM StagedStaysIntact == Spec => []StagedIntact
<1>1. ContentInv => StagedIntact
  BY DEF ContentInv, StagedInv, StagedIntact
<1>. QED
  BY <1>1, ProtocolInit, ProtocolNext, ContentInit, ContentNext, PTL DEF Spec

-----------------------------------------------------------------------------
(* The weights: every rollout runs on the policy of the actor *)

\* What the steps of each process leave alone.
LEMMA DriverFrame ==
  ASSUME Driver \/ (\E l \in Servers : Generate(l)) \/ UNCHANGED vars
  PROVE  UNCHANGED <<baseSyncDone, lo, next, buffer, req, rep, wpc, wkind, wmsg, staged, weight, cache>>
  BY DEF Driver, BeginSync, EndSync, SyncFailed, UpdateActor, Finish, Generate, vars,
     trainerVars, senderVars, workerVars

LEMMA SenderLeaves ==
  ASSUME ProtocolInv, NEW q \in Ranks, Sender(q)
  PROVE  /\ UNCHANGED <<phase, version, wmsg, staged, weight, cache>>
         /\ \A r \in Ranks : baseSyncDone[r] => baseSyncDone'[r]
         /\ \A r \in Ranks \ {q} : /\ spc'[r] = spc[r] /\ lo'[r] = lo[r] /\ next'[r] = next[r]
                                   /\ rep'[r] = rep[r] /\ baseSyncDone'[r] = baseSyncDone[r]
         /\ ~StartRpc(q) => UNCHANGED <<wpc, wkind>>
<1>. USE DEF trainerVars, senderVars, workerVars, SGoto
<1>1. spc \in [Ranks -> SenderPlace] /\ baseSyncDone \in [Ranks -> BOOLEAN]
  BY DEF ProtocolInv, TypeOK
<1>2. DOMAIN lo = Ranks /\ DOMAIN next = Ranks /\ DOMAIN rep = Ranks
  BY DEF ProtocolInv, TypeOK
<1>3. CASE RecvLastAck(q)
  BY <1>1, <1>2, <1>3 DEF RecvLastAck
<1>4. CASE AwaitFuture(q)
  BY <1>1, <1>2, <1>4 DEF AwaitFuture
<1>. QED
  BY <1>1, <1>2, <1>3, <1>4 DEF Sender, StartRpc, SendHandle, RecvHandleAck, Put, Flush,
     RecvBucketAck, SendLast, FutureFails

LEMMA WorkerLeaves ==
  ASSUME ProtocolInv, NEW q \in Ranks, Worker(q)
  PROVE  /\ UNCHANGED <<phase, version, baseSyncDone, spc, lo, next, buffer, wkind>>
         /\ wpc[q] # "idle"
         /\ \A r \in Ranks \ {q} : /\ wpc'[r] = wpc[r] /\ wmsg'[r] = wmsg[r] /\ req'[r] = req[r]
                                   /\ rep'[r] = rep[r] /\ staged'[r] = staged[r]
                                   /\ weight'[r] = weight[r] /\ cache'[r] = cache[r]
<1>1. /\ DOMAIN wpc = Ranks /\ DOMAIN wmsg = Ranks /\ DOMAIN req = Ranks /\ DOMAIN rep = Ranks
      /\ DOMAIN staged = Ranks /\ DOMAIN weight = Ranks /\ DOMAIN cache = Ranks
  BY DEF ProtocolInv, TypeOK
<1>. QED
  BY <1>1 DEF Worker, RecvHandle, RecvBucket, CloneAndAck, LoadBucket, MergeBucket, ApplyFails,
     WGoto, trainerVars, senderVars, workerVars

\* Loading tensors of version 0, whichever the bucket holds.
LEMMA LoadPart ==
  ASSUME NEW w, NEW st, \A x \in st : x.ver = 0
  PROVE  /\ \A p \in Param : Loaded(w, st)[p] \in {w[p], 0}
         /\ \A i \in 1 .. Len(FullOrder) :
              [tensor |-> FullOrder[i], ver |-> 0] \in st => Loaded(w, st)[FullOrder[i][1]] = 0
<1>1. Payload("full") = FullOrder /\ Len(FullOrder) \in Nat
  BY PayloadAssumption DEF Payload
<1>2. ASSUME NEW t, Has(t, st)
      PROVE  VersionOf(t, st) = 0
  <2>1. (CHOOSE x \in st : x.tensor = t) \in st
    BY <1>2 DEF Has
  <2>2. \A x \in st : x.ver = 0
    OBVIOUS
  <2>. QED
    BY <2>1, <2>2 DEF VersionOf
<1>3. \A p \in Param : BaseValue(p, 0) = 0
  BY DEF BaseValue
<1>4. ASSUME NEW i \in 1 .. Len(FullOrder), [tensor |-> FullOrder[i], ver |-> 0] \in st
      PROVE  FullOrder[i][1] \in Param /\ Has(<<FullOrder[i][1], "full">>, st)
  <2>2. FullOrder[i] \in Param \X {"full"}
    BY PayloadAssumption
  <2>3. PICK p \in Param : FullOrder[i] = <<p, "full">>
    BY <2>2
  <2>4. [tensor |-> <<p, "full">>, ver |-> 0] \in st
    BY <1>4, <2>3
  <2>5. FullOrder[i][1] = p
    BY <2>3
  <2>6. Has(<<p, "full">>, st)
    BY <2>4 DEF Has
  <2>. QED
    BY <2>5, <2>6
<1>. QED
  BY <1>2, <1>3, <1>4 DEF Loaded

\* Merging the whole adapter of version v onto the clean base.
LEMMA MergeAll ==
  ASSUME NEW w \in [Param -> Int \cup {Garbage}],
         NEW c \in [Param -> Int \cup {Garbage, Uncached}],
         NEW v \in Version, NEW st,
         st = {[tensor |-> Payload("lora")[i], ver |-> v] : i \in 1 .. Len(Payload("lora"))},
         \A p \in Param : c[p] = 0,
         ~TrainEncoder => \A p \in Encoder : w[p] = 0,
         NEW p \in Param
  PROVE  Merged(Loaded(Restored(w, c), st), st, {m \in Modules : Ready(m, st)})[p] = PolicyValue(p, v)
<1>. DEFINE base == Loaded(Restored(w, c), st)
<1>1. \A x \in st : x.ver = v
  OBVIOUS
<1>2. ASSUME NEW t, Has(t, st)
      PROVE  VersionOf(t, st) = v
  <2>1. (CHOOSE x \in st : x.tensor = t) \in st
    BY <1>2 DEF Has
  <2>. QED
    BY <1>1, <2>1 DEF VersionOf
<1>3. /\ AdapterOrder \in Seq(Projections \X {"A", "B"}) /\ EncoderOrder \in Seq(Encoder \X {"full"})
      /\ Len(AdapterOrder) \in Nat /\ Len(EncoderOrder) \in Nat
  BY PayloadAssumption
<1>4. ASSUME NEW j \in Projections, NEW ab \in {"A", "B"}
      PROVE  Has(<<j, ab>>, st)
  <2>1. PICK i \in 1 .. Len(AdapterOrder) : AdapterOrder[i] = <<j, ab>>
    BY PayloadAssumption
  <2>2. i \in 1 .. Len(Payload("lora")) /\ Payload("lora")[i] = <<j, ab>>
    BY <1>3, <2>1 DEF Payload
  <2>3. [tensor |-> <<j, ab>>, ver |-> v] \in st
    BY <2>2
  <2>. QED
    BY <2>3 DEF Has
<1>5. ASSUME NEW q \in Encoder, TrainEncoder
      PROVE  Has(<<q, "full">>, st)
  <2>1. PICK i \in 1 .. Len(EncoderOrder) : EncoderOrder[i] = <<q, "full">>
    BY PayloadAssumption
  <2>2. /\ Len(AdapterOrder) + i \in 1 .. Len(Payload("lora"))
        /\ Payload("lora")[Len(AdapterOrder) + i] = <<q, "full">>
    BY <1>3, <1>5, <2>1 DEF Payload
  <2>3. [tensor |-> <<q, "full">>, ver |-> v] \in st
    BY <2>2
  <2>. QED
    BY <2>3 DEF Has
<1>6. ASSUME NEW m \in Modules
      PROVE  Ready(m, st) /\ Delta(m, st) = v
  <2>1. Proj[m] \subseteq Projections /\ (CHOOSE j \in Proj[m] : TRUE) \in Proj[m]
    BY ParamAssumption
  <2>. QED
    BY <1>2, <1>4, <2>1 DEF Ready, Delta
<1>7. base[p] = BaseValue(p, v)
  <2>1. CASE p \in Encoder /\ TrainEncoder
    BY <1>2, <1>5, <2>1 DEF Loaded
  <2>2. CASE ~(p \in Encoder /\ TrainEncoder)
    <3>1. BaseValue(p, v) = 0 /\ Restored(w, c)[p] = 0
      BY <2>2, ParamAssumption DEF BaseValue, Restored
    <3>2. Has(<<p, "full">>, st) => BaseValue(p, VersionOf(<<p, "full">>, st)) = 0
      BY <2>2 DEF BaseValue
    <3>. QED
      BY <3>1, <3>2 DEF Loaded
  <2>. QED
    BY <2>1, <2>2
<1>8. CASE p \in Modules
  <2>1. base[p] = 0
    BY <1>7, <1>8, ParamAssumption DEF BaseValue
  <2>2. Plus(0, v) = v
    BY ParamAssumption, BoundAssumption DEF Plus
  <2>. QED
    BY <1>6, <1>8, <2>1, <2>2 DEF Merged, PolicyValue
<1>9. CASE p \notin Modules
  <2>. QED
    BY <1>7, <1>9 DEF Merged, PolicyValue
<1>. QED
  BY <1>8, <1>9

LEMMA WeightInit == ASSUME Launcher, Init PROVE WeightInv
<1>1. ~TrainEncoder \/ TrainEncoder
  OBVIOUS
<1>. QED
  BY RanksAssumption, ParamAssumption
  DEF Launcher, Init, WeightInv, FirstSync, CacheInv, LoadInv, OneBucketInv, MatchInv

LEMMA FirstSyncNext ==
  ASSUME ProtocolInv, ContentInv, FirstSync, [Next]_vars
  PROVE  FirstSync'
<1>. USE DEF FirstSync, trainerVars, senderVars, workerVars
<1>1. /\ Together /\ \A r \in Ranks : Protocol(r)
      /\ wkind \in [Ranks -> Kinds] /\ wpc \in [Ranks -> WorkerPlace]
  BY DEF ProtocolInv, TypeOK
<1>2. ASSUME NEW r \in Ranks, spc[r] = "done" PROVE baseSyncDone[r]
  BY <1>2 DEF ContentInv, KindsAgree
<1>3. CASE UpdateActor
  <2>1. \A r \in Ranks : baseSyncDone[r] /\ wpc[r] = "idle"
    BY <1>1, <1>3 DEF UpdateActor
  <2>. QED
    BY <1>3, <2>1 DEF UpdateActor
<1>4. CASE EndSync
  BY <1>2, <1>4 DEF EndSync
<1>5. CASE (Driver /\ ~UpdateActor /\ ~EndSync) \/ (\E l \in Servers : Generate(l)) \/ UNCHANGED vars
  <2>1. version' = version /\ (phase' = "generate" => phase = "generate")
    BY <1>5 DEF Driver, BeginSync, SyncFailed, Finish, Generate, vars
  <2>. QED
    BY <1>5, <2>1, DriverFrame
<1>6. ASSUME NEW q \in Ranks, StartRpc(q) PROVE FirstSync'
  <2>1. /\ UNCHANGED <<phase, version, baseSyncDone>>
        /\ \A r \in Ranks : \/ wpc'[r] = wpc[r] /\ wkind'[r] = wkind[r]
                            \/ wkind'[r] = Kind(q)
    BY <1>1, <1>6 DEF StartRpc
  <2>. QED
    BY <2>1 DEF Kind
<1>7. ASSUME NEW q \in Ranks, Sender(q), ~StartRpc(q) PROVE FirstSync'
  BY <1>7, SenderLeaves
<1>8. ASSUME NEW q \in Ranks, Worker(q) PROVE FirstSync'
  BY <1>8, WorkerLeaves
<1>. QED
  BY <1>3, <1>4, <1>5, <1>6, <1>7, <1>8 DEF Next, Terminated

\* A bucket of a LoRA sync never fills up.
LEMMA LoraFits ==
  ASSUME Launcher, ProtocolInv, NEW r \in Ranks, Kind(r) = "lora", lo[r] = 1,
         next[r] <= Len(Payload("lora"))
  PROVE  Fits(r, lo[r])
<1>. DEFINE n == Len(Payload("lora"))
<1>1. n \in Nat /\ next[r] \in Nat \ {0} /\ BucketSize \in Nat
  <2>1. next[r] \in Index
    BY DEF ProtocolInv, TypeOK
  <2>. QED
    BY <2>1, IndexType, BoundAssumption
<1>2. /\ LoraEnd \in [0 .. n -> Nat]
      /\ LoraEnd[0] = 0
      /\ \A i, j \in 0 .. n : i < j => LoraEnd[i] < LoraEnd[j]
  BY PayloadAssumption DEF End
<1>3. next[r] \in 0 .. n /\ 0 \in 0 .. n /\ n \in 0 .. n
  BY <1>1
<1>4. LoraEnd[next[r]] <= LoraEnd[n]
  BY <1>1, <1>2, <1>3
<1>5. LoraEnd[next[r]] - LoraEnd[0] <= BucketSize
  BY <1>1, <1>2, <1>3, <1>4 DEF Launcher
<1>. QED
  BY <1>5 DEF Fits, End

LEMMA OneBucketNext ==
  ASSUME Launcher, ProtocolInv, ContentInv, [Next]_vars, NEW r \in Ranks, OneBucketInv(r)
  PROVE  OneBucketInv(r)'
<1>. USE DEF OneBucketInv, trainerVars, senderVars, workerVars, SGoto, WGoto
<1>1. /\ Together /\ spc \in [Ranks -> SenderPlace] /\ wpc \in [Ranks -> WorkerPlace]
      /\ DOMAIN lo = Ranks /\ DOMAIN next = Ranks /\ DOMAIN wmsg = Ranks
  BY DEF ProtocolInv, TypeOK
<1>2. spc'[r] \in {"handle_ack", "fill", "bucket_ack", "last_ack"} => Kind(r)' = Kind(r)
  BY KindStable
<1>3. CASE Driver \/ (\E l \in Servers : Generate(l)) \/ UNCHANGED vars
  <2>1. spc'[r] = spc[r] \/ spc'[r] \in {"idle", "start"}
    BY <1>3, <1>1 DEF Driver, BeginSync, EndSync, SyncFailed, UpdateActor, Finish, Generate, vars
  <2>. QED
    BY <1>2, <1>3, <2>1, DriverFrame
<1>4. ASSUME NEW q \in Ranks, Sender(q)
      PROVE  OneBucketInv(r)'
  <2>1. ASSUME Kind(r) = "lora", spc'[r] \in {"handle_ack", "fill", "bucket_ack", "last_ack"}
        PROVE  lo'[r] = 1 /\ spc'[r] # "bucket_ack"
    <3>1. CASE q # r
      BY <1>1, <1>4, <2>1, <3>1, SenderLeaves
    <3>2. CASE q = r /\ Flush(r)
      BY <1>1, <2>1, <3>2, LoraFits DEF Flush
    <3>3. CASE q = r /\ ~Flush(r)
      BY <1>1, <1>4, <2>1, <3>3 DEF Sender, StartRpc, SendHandle, RecvHandleAck, Put,
         RecvBucketAck, SendLast, RecvLastAck, AwaitFuture, FutureFails
    <3>. QED
      BY <3>1, <3>2, <3>3
  <2>2. ASSUME wkind'[r] = "lora", wpc'[r] = "apply"
        PROVE  wkind[r] = "lora" /\ wpc[r] = "apply"
    <3>1. CASE StartRpc(q)
      BY <1>1, <2>2, <3>1 DEF StartRpc, ProtocolInv, TypeOK
    <3>. QED
      BY <1>4, <2>2, <3>1, SenderLeaves
  <2>. QED
    BY <1>2, <1>4, <2>1, <2>2, SenderLeaves
<1>5. ASSUME NEW q \in Ranks, Worker(q)
      PROVE  OneBucketInv(r)'
  <2>1. UNCHANGED <<baseSyncDone, spc, lo, wkind>>
    BY <1>5, WorkerLeaves
  <2>2. ASSUME wkind'[r] = "lora", wpc'[r] = "apply"
        PROVE  wmsg'[r].lo = 1 /\ wmsg'[r].last
    <3>1. CASE q = r /\ CloneAndAck(r)
      <4>1. wpc[r] = "clone" /\ wmsg' = wmsg
        BY <3>1 DEF CloneAndAck
      <4>2. wmsg[r] = Sent(r) /\ spc[r] \in {"bucket_ack", "last_ack"} /\ Kind(r) = "lora"
        BY <2>1, <2>2, <4>1, CloneIntact
      <4>3. lo[r] = 1 /\ spc[r] = "last_ack"
        BY <4>2
      <4>4. wmsg[r] = [lo |-> 1, hi |-> next[r], last |-> TRUE]
        BY <4>2, <4>3
      <4>. QED
        BY <4>1, <4>4
    <3>2. CASE ~(q = r /\ CloneAndAck(r))
      <4>1. wpc[r] = "apply" /\ wmsg'[r] = wmsg[r]
        BY <1>1, <1>5, <2>2, <3>2, WorkerLeaves DEF Worker, RecvHandle, RecvBucket, CloneAndAck,
           LoadBucket, MergeBucket, ApplyFails, AfterBucket
      <4>. QED
        BY <2>1, <2>2, <4>1
    <3>. QED
      BY <3>1, <3>2
  <2>. QED
    BY <2>1, <2>2 DEF Kind
<1>. QED
  BY <1>3, <1>4, <1>5 DEF Next, Terminated

\* What a full bucket changes: the tensors it holds are base weights now.
LEMMA LoadStep ==
  ASSUME ProtocolInv, ContentInv, FirstSync, NEW r \in Ranks, wpc[r] = "apply", wkind[r] = "full"
  PROVE  /\ version = 0 /\ wmsg[r].lo \in Nat \ {0} /\ wmsg[r].hi \in Nat
         /\ wmsg[r].hi <= Len(FullOrder) + 1
         /\ wmsg[r].last => wmsg[r].hi = Len(FullOrder) + 1
         /\ \A p \in Param : Loaded(weight[r], staged[r])[p] \in {weight[r][p], 0}
         /\ \A i \in wmsg[r].lo .. wmsg[r].hi - 1 : Loaded(weight[r], staged[r])[FullOrder[i][1]] = 0
<1>. DEFINE w == weight[r]  a == wmsg[r].lo  b == wmsg[r].hi  st == staged[r]
<1>1. version = 0 /\ StagedInv(r) /\ Payload("full") = FullOrder
  BY DEF ContentInv, FirstSync, Payload
<1>2. w \in [Param -> Int \cup {Garbage}] /\ a \in Index /\ b \in Index
  BY DEF ProtocolInv, TypeOK
<1>3. a \in Nat \ {0} /\ b \in Nat
  BY <1>2, IndexType
<1>4. b <= Len(FullOrder) + 1 /\ (wmsg[r].last => b = Len(FullOrder) + 1)
  BY <1>1 DEF StagedInv
<1>5. st = {[tensor |-> Payload("full")[i], ver |-> 0] : i \in a .. b - 1}
  BY <1>1 DEF StagedInv
<1>6. \A x \in st : x.ver = 0
  BY <1>5
<1>7. ASSUME NEW i \in a .. b - 1
      PROVE  i \in 1 .. Len(FullOrder) /\ [tensor |-> FullOrder[i], ver |-> 0] \in st
  <2>1. i \in 1 .. Len(FullOrder)
    BY <1>3, <1>4, IndexType
  <2>. QED
    BY <1>1, <1>5, <2>1
<1>8. /\ \A p \in Param : Loaded(w, st)[p] \in {w[p], 0}
      /\ \A i \in a .. b - 1 : Loaded(w, st)[FullOrder[i][1]] = 0
  <2>. HIDE DEF w, a, b, st
  <2>. QED
    BY <1>6, <1>7, LoadPart
<1>. QED
  BY <1>1, <1>3, <1>4, <1>8

LEMMA LoadInvNext ==
  ASSUME ProtocolInv, ContentInv, FirstSync, [Next]_vars, NEW r \in Ranks, LoadInv(r)
  PROVE  LoadInv(r)'
<1>. SUFFICES ASSUME wkind'[r] = "full" PROVE LoadInv(r)'
  BY DEF LoadInv
<1>. USE DEF LoadInv, LoadedBefore, trainerVars, senderVars, workerVars, SGoto, WGoto
<1>1. SyncTypes /\ TypeOK /\ Together /\ Protocol(r)
  BY SyncTypesOK DEF ProtocolInv
<1>2. /\ spc \in [Ranks -> SenderPlace] /\ wpc \in [Ranks -> WorkerPlace]
      /\ DOMAIN lo = Ranks /\ DOMAIN next = Ranks /\ DOMAIN wmsg = Ranks /\ DOMAIN rep = Ranks
      /\ DOMAIN req = Ranks /\ DOMAIN weight = Ranks /\ rep[r] \in BOOLEAN
  BY DEF TypeOK, ProtocolInv
<1>3. CASE Driver \/ (\E l \in Servers : Generate(l)) \/ UNCHANGED vars
  <2>1. spc'[r] = spc[r] \/ wpc[r] = "idle"
    <3>1. CASE BeginSync
      BY <1>1, <3>1 DEF BeginSync
    <3>2. CASE EndSync
      BY <1>1, <1>2, <3>2, RanksAssumption DEF EndSync
    <3>. QED
      BY <1>3, <3>1, <3>2 DEF Driver, SyncFailed, UpdateActor, Finish, Generate, vars
  <2>. QED
    BY <1>3, <2>1, DriverFrame
<1>4. ASSUME NEW q \in Ranks, Sender(q)
      PROVE  LoadInv(r)'
  <2>1. CASE StartRpc(q)
    <3>1. wpc'[r] = "handle" \/ (wpc'[r] = wpc[r] /\ wkind'[r] = wkind[r])
      BY <1>2, <2>1 DEF StartRpc
    <3>2. UNCHANGED <<lo, next, rep, wmsg, weight>> /\ spc' = [spc EXCEPT ![q] = "handle"]
          /\ spc[q] = "start"
      BY <2>1 DEF StartRpc
    <3>3. wpc[r] = "recv" => q # r
      BY <1>1, <3>2
    <3>. QED
      BY <1>2, <3>1, <3>2, <3>3
  <2>2. CASE q # r /\ ~StartRpc(q)
    BY <1>4, <2>2, SenderLeaves DEF ProtocolInv
  <2>3. CASE q = r /\ ~StartRpc(r)
    <3>1. UNCHANGED <<wpc, wkind, wmsg, weight>>
      BY <1>4, <2>3, SenderLeaves
    <3>2. ASSUME wpc[r] = "recv", spc'[r] # "crashed"
          PROVE  /\ spc[r] # "crashed"
                 /\ (IF spc'[r] = "bucket_ack" /\ rep'[r] THEN next'[r] ELSE lo'[r]) =
                      (IF spc[r] = "bucket_ack" /\ rep[r] THEN next[r] ELSE lo[r])
      <4>1. CASE RecvHandleAck(r) \/ SendLast(r) \/ Put(r)
        BY <1>1, <1>2, <3>2, <4>1 DEF RecvHandleAck, SendLast, Put
      <4>2. CASE Flush(r)
        BY <1>1, <1>2, <3>2, <4>2 DEF Flush
      <4>3. CASE RecvBucketAck(r)
        BY <1>1, <1>2, <3>2, <4>3 DEF RecvBucketAck
      <4>4. CASE SendHandle(r) \/ RecvLastAck(r) \/ AwaitFuture(r) \/ FutureFails(r)
        BY <1>1, <1>2, <3>2, <4>4 DEF SendHandle, RecvLastAck, AwaitFuture, FutureFails
      <4>. QED
        BY <1>4, <2>3, <4>1, <4>2, <4>3, <4>4 DEF Sender
    <3>. QED
      BY <3>1, <3>2
  <2>. QED
    BY <2>1, <2>2, <2>3
<1>5. ASSUME NEW q \in Ranks, Worker(q)
      PROVE  LoadInv(r)'
  <2>1. UNCHANGED <<spc, lo, next, wkind>>
    BY <1>5, WorkerLeaves
  <2>2. CASE q # r
    BY <1>5, <2>1, <2>2, WorkerLeaves
  <2>3. CASE RecvHandle(r)
    <3>1. spc[r] = "handle_ack" /\ lo[r] = 1 /\ wpc'[r] = "recv"
      <4>1. wpc[r] = "handle" /\ req[r] # NoReq /\ wpc' = [wpc EXCEPT ![r] = "recv"]
        BY <2>3 DEF RecvHandle
      <4>. QED
        BY <1>1, <1>2, <4>1
    <3>. QED
      BY <2>1, <3>1
  <2>4. CASE RecvBucket(r)
    <3>1. req[r] # NoReq /\ req[r] # Handle /\ wpc[r] = "recv"
      BY <2>4 DEF RecvBucket
    <3>2. spc[r] \in {"bucket_ack", "last_ack"} /\ req[r] = <<"bucket", Sent(r)>> /\ ~rep[r]
      <4>1. SyncTypes /\ Protocol(r)
        BY <1>1
      <4>. QED
        BY <1>2, <3>1, <4>1 DEF SyncTypes
    <3>3. wmsg'[r] = req[r][2] /\ wpc'[r] = "clone" /\ weight' = weight
      BY <1>2, <2>4 DEF RecvBucket
    <3>4. wmsg'[r].lo = lo[r]
      BY <3>2, <3>3
    <3>. QED
      BY <2>1, <3>1, <3>2, <3>3, <3>4
  <2>5. CASE CloneAndAck(r)
    BY <1>2, <2>1, <2>5 DEF CloneAndAck
  <2>6. CASE LoadBucket(r)
    <3>1. /\ wpc[r] = "apply" /\ wpc'[r] = IF wmsg[r].last THEN "idle" ELSE "recv"
          /\ weight'[r] = Loaded(weight[r], staged[r]) /\ UNCHANGED <<rep, version>>
      BY <1>2, <2>6 DEF LoadBucket, AfterBucket
    <3>2. SUFFICES ASSUME ~wmsg[r].last, spc[r] # "crashed"
                   PROVE  LoadedBefore(r, IF spc[r] = "bucket_ack" /\ rep[r] THEN next[r] ELSE lo[r])'
      BY <2>1, <3>1
    <3>3. (IF spc[r] = "bucket_ack" /\ rep[r] THEN next[r] ELSE lo[r]) = wmsg[r].hi
      <4>1. spc[r] \in SenderPlace
        BY <1>2
      <4>2. CASE spc[r] \in {"bucket_ack", "last_ack"} /\ rep[r]
        <5>1. wmsg[r] = Sent(r)
          BY <1>1, <3>1, <4>2
        <5>2. wmsg[r].hi = next[r] /\ wmsg[r].last = (spc[r] = "last_ack")
          BY <5>1
        <5>. QED
          BY <3>2, <4>2, <5>2
      <4>3. CASE ~(spc[r] \in {"bucket_ack", "last_ack"} /\ rep[r])
        <5>1. Behind(r)
          BY <1>1, <3>1, <3>2, <4>1, <4>3
        <5>. QED
          BY <3>1, <4>3, <5>1
      <4>. QED
        BY <4>2, <4>3
    <3>4. LoadedBefore(r, wmsg[r].lo) /\ wkind[r] = "full"
      BY <2>1, <3>1
    <3>5. /\ wmsg[r].lo \in Nat \ {0} /\ wmsg[r].hi \in Nat /\ wmsg[r].hi <= Len(FullOrder) + 1
          /\ \A p \in Param : weight'[r][p] \in {weight[r][p], 0}
          /\ \A i \in wmsg[r].lo .. wmsg[r].hi - 1 : weight'[r][FullOrder[i][1]] = 0
      BY <3>1, <3>4, LoadStep
    <3>6. ASSUME NEW i \in 1 .. wmsg[r].hi - 1
          PROVE  weight'[r][FullOrder[i][1]] = 0
      <4>1. FullOrder[i][1] \in Param
        <5>1. i \in 1 .. Len(FullOrder)
          BY <3>5, IndexType
        <5>. QED
          BY <5>1, PayloadAssumption
      <4>2. i < wmsg[r].lo \/ i \in wmsg[r].lo .. wmsg[r].hi - 1
        BY <3>5
      <4>. QED
        BY <3>4, <3>5, <4>1, <4>2
    <3>. QED
      BY <2>1, <3>1, <3>3, <3>6
  <2>7. CASE MergeBucket(r)
    BY <2>1, <2>7 DEF MergeBucket
  <2>8. CASE ApplyFails(r)
    BY <1>2, <2>8 DEF ApplyFails
  <2>. QED
    BY <1>5, <2>2, <2>3, <2>4, <2>5, <2>6, <2>7, <2>8 DEF Worker
<1>. QED
  BY <1>3, <1>4, <1>5 DEF Next, Terminated

\* What the last bucket of a sync leaves behind.
LEMMA FullDone ==
  ASSUME ProtocolInv, ContentInv, WeightInv, NEW r \in Ranks, LoadBucket(r), wmsg[r].last
  PROVE  version = 0 /\ \A p \in Param : Loaded(weight[r], staged[r])[p] = 0
<1>. DEFINE loaded == Loaded(weight[r], staged[r])
<1>1. wpc[r] = "apply" /\ wkind[r] = "full" /\ wmsg[r].last
  BY DEF LoadBucket, WGoto
<1>2. LoadedBefore(r, wmsg[r].lo) /\ FirstSync
  BY <1>1 DEF WeightInv, LoadInv
<1>3. /\ version = 0 /\ wmsg[r].lo \in Nat \ {0} /\ wmsg[r].hi = Len(FullOrder) + 1
      /\ \A p \in Param : loaded[p] \in {weight[r][p], 0}
      /\ \A i \in wmsg[r].lo .. wmsg[r].hi - 1 : loaded[FullOrder[i][1]] = 0
  BY <1>1, <1>2, LoadStep
<1>4. Len(FullOrder) \in Nat
  BY IndexType
<1>5. ASSUME NEW p \in Param
      PROVE  loaded[p] = 0
  <2>. HIDE DEF loaded
  <2>1. PICK i \in 1 .. Len(FullOrder) : FullOrder[i] = <<p, "full">>
    BY PayloadAssumption
  <2>2. FullOrder[i][1] = p
    BY <2>1
  <2>3. i \in 1 .. wmsg[r].lo - 1 \/ i \in wmsg[r].lo .. wmsg[r].hi - 1
    BY <1>3, <1>4
  <2>. QED
    BY <1>2, <1>3, <2>2, <2>3 DEF LoadedBefore
<1>. QED
  BY <1>3, <1>5

LEMMA MergeDone ==
  ASSUME ProtocolInv, ContentInv, WeightInv, NEW r \in Ranks, MergeBucket(r), NEW p \in Param
  PROVE  weight'[r][p] = PolicyValue(p, version)
<1>. DEFINE w == weight[r]  c == cache[r]  st == staged[r]  v == version
<1>1. wpc[r] = "apply" /\ wkind[r] = "lora"
  BY DEF MergeBucket, WGoto
<1>2. weight'[r] = Merged(Loaded(Restored(w, c), st), st, {m \in Modules : Ready(m, st)})
  BY DEF MergeBucket, ProtocolInv, TypeOK
<1>3. BaseSynced(r) /\ OneBucketInv(r) /\ StagedInv(r)
  BY <1>1 DEF ContentInv, WeightInv, CacheInv
<1>4. /\ w \in [Param -> Int \cup {Garbage}] /\ v \in Version
      /\ c \in [Param -> Int \cup {Garbage, Uncached}]
  BY DEF ProtocolInv, TypeOK
<1>5. st = {[tensor |-> Payload("lora")[i], ver |-> v] : i \in 1 .. Len(Payload("lora"))}
  <2>1. wmsg[r].lo = 1 /\ wmsg[r].hi = Len(Payload("lora")) + 1
    BY <1>1, <1>3 DEF OneBucketInv, StagedInv
  <2>2. wmsg[r].hi - 1 = Len(Payload("lora"))
    BY <2>1, IndexType
  <2>. QED
    BY <1>1, <1>3, <2>1, <2>2 DEF StagedInv
<1>6. (\A q \in Param : c[q] = 0) /\ (~TrainEncoder => \A q \in Encoder : w[q] = 0)
  BY <1>3 DEF BaseSynced
<1>. HIDE DEF w, c, st, v
<1>7. Merged(Loaded(Restored(w, c), st), st, {m \in Modules : Ready(m, st)})[p] = PolicyValue(p, v)
  BY <1>4, <1>5, <1>6, MergeAll
<1>. QED
  BY <1>2, <1>7 DEF v

LEMMA CacheInvNext ==
  ASSUME ProtocolInv, ContentInv, WeightInv, [Next]_vars, NEW r \in Ranks
  PROVE  CacheInv(r)'
<1>. USE DEF CacheInv
<1>1. CacheInv(r) /\ Together /\ Protocol(r)
  BY DEF WeightInv, ProtocolInv
<1>2. /\ spc \in [Ranks -> SenderPlace] /\ wpc \in [Ranks -> WorkerPlace]
      /\ wkind \in [Ranks -> Kinds] /\ DOMAIN cache = Ranks /\ DOMAIN weight = Ranks
      /\ \A q \in Ranks : baseSyncDone[q] \in BOOLEAN
  BY DEF ProtocolInv, TypeOK
<1>3. ASSUME cache'[r] = cache[r], weight'[r] = weight[r] \/ TrainEncoder \/ \A p \in Encoder : weight'[r][p] = weight[r][p],
             BaseSynced(r)
      PROVE  BaseSynced(r)'
  BY <1>3 DEF BaseSynced
<1>4. CASE Driver \/ (\E l \in Servers : Generate(l)) \/ UNCHANGED vars
  <2>1. /\ UNCHANGED <<baseSyncDone, wpc, wkind>> /\ cache'[r] = cache[r] /\ weight'[r] = weight[r]
    BY <1>4, DriverFrame
  <2>2. CASE EndSync
    <3>1. wpc[r] = "idle" /\ Started(r)
      BY <1>1, <2>2, RanksAssumption DEF EndSync
    <3>. QED
      BY <1>1, <1>3, <2>1, <3>1
  <2>3. CASE BeginSync
    <3>1. spc[r] = "idle" /\ ~Started(r)'
      BY <1>1, <1>2, <2>3, RanksAssumption DEF BeginSync
    <3>. QED
      BY <1>1, <1>3, <2>1, <3>1
  <2>4. CASE ~EndSync /\ ~BeginSync
    <3>1. spc' = spc
      BY <1>4, <2>4 DEF Driver, SyncFailed, UpdateActor, Finish, Generate, vars, trainerVars, senderVars
    <3>2. Started(r)' = Started(r)
      BY <3>1
    <3>. HIDE DEF Started
    <3>. QED
      BY <1>1, <1>3, <2>1, <3>1, <3>2
  <2>. QED
    BY <2>2, <2>3, <2>4
<1>5. ASSUME NEW q \in Ranks, StartRpc(q)
      PROVE  CacheInv(r)'
  <2>1. /\ UNCHANGED <<baseSyncDone, cache, weight>> /\ spc[q] = "start"
        /\ spc' = [spc EXCEPT ![q] = "handle"]
        /\ wpc'[r] = IF q = Leader[q] /\ r \in Replica(q) THEN "handle" ELSE wpc[r]
        /\ wkind'[r] = IF q = Leader[q] /\ r \in Replica(q) THEN Kind(q) ELSE wkind[r]
    BY <1>2, <1>5 DEF StartRpc, SGoto, trainerVars
  <2>2. CASE q = Leader[q] /\ r \in Replica(q)
    <3>1. ~Started(r) /\ spc[r] # "done"
      BY <1>1, <2>1, <2>2 DEF Replica
    <3>2. baseSyncDone[r] = baseSyncDone[q]
      BY <2>1, <3>1 DEF ContentInv, KindsAgree
    <3>3. wpc'[r] = "handle" /\ (wkind'[r] = "lora" => baseSyncDone[r])
      BY <2>1, <2>2, <3>2 DEF Kind
    <3>. QED
      BY <1>1, <1>3, <2>1, <3>1, <3>3
  <2>3. CASE ~(q = Leader[q] /\ r \in Replica(q))
    <3>1. Started(r)' = Started(r) /\ (spc'[r] = "done" <=> spc[r] = "done")
      BY <1>2, <2>1, <2>3, RanksAssumption DEF Replica
    <3>. HIDE DEF Started
    <3>. QED
      BY <1>1, <1>3, <2>1, <2>3, <3>1
  <2>. QED
    BY <2>2, <2>3
<1>6. ASSUME NEW q \in Ranks, Sender(q), ~StartRpc(q)
      PROVE  CacheInv(r)'
  <2>1. /\ UNCHANGED <<wpc, wkind, cache, weight>> /\ Started(r)' = Started(r)
    BY <1>6, SenderLeaves, SenderFrame
  <2>2. baseSyncDone'[r] /\ spc'[r] # "done" => baseSyncDone[r] /\ spc[r] # "done"
    <3>1. CASE q # r
      BY <1>6, <3>1, SenderLeaves
    <3>2. CASE q = r
      <4>1. CASE RecvLastAck(r)
        BY <1>2, <4>1 DEF RecvLastAck, SGoto
      <4>2. CASE AwaitFuture(r)
        BY <1>2, <4>2 DEF AwaitFuture, SGoto
      <4>. QED
        BY <1>2, <1>6, <3>2, <4>1, <4>2 DEF Sender, SendHandle, RecvHandleAck, Put, Flush,
           RecvBucketAck, SendLast, FutureFails, SGoto, trainerVars
    <3>. QED
      BY <3>1, <3>2
  <2>. HIDE DEF Started
  <2>. QED
    BY <1>1, <1>3, <2>1, <2>2
<1>7. ASSUME NEW q \in Ranks, Worker(q)
      PROVE  CacheInv(r)'
  <2>1. UNCHANGED <<baseSyncDone, spc, wkind>> /\ wpc[q] # "idle"
    BY <1>7, WorkerLeaves
  <2>2. Started(r)' = Started(r)
    BY <2>1
  <2>3. CASE q # r
    <3>1. wpc'[r] = wpc[r] /\ cache'[r] = cache[r] /\ weight'[r] = weight[r]
      BY <1>7, <2>3, WorkerLeaves
    <3>. HIDE DEF Started
    <3>. QED
      BY <1>1, <1>3, <2>1, <2>2, <3>1
  <2>4. CASE LoadBucket(r) /\ wmsg[r].last
    <3>1. \A p \in Param : Loaded(weight[r], staged[r])[p] = 0
      BY <2>4, FullDone
    <3>2. weight'[r] = Loaded(weight[r], staged[r]) /\ cache'[r] = Loaded(weight[r], staged[r])
      BY <1>2, <2>4 DEF LoadBucket
    <3>3. BaseSynced(r)' /\ \A p \in Param : cache'[r][p] \in {Uncached, 0}
      BY <3>1, <3>2 DEF BaseSynced, Param
    <3>. QED
      BY <3>3
  <2>5. CASE LoadBucket(r) /\ ~wmsg[r].last
    <3>1. wkind[r] = "full" /\ wpc[r] = "apply" /\ wpc'[r] = "recv" /\ cache'[r] = cache[r]
      BY <1>2, <2>5 DEF LoadBucket, AfterBucket, WGoto
    <3>2. ~(baseSyncDone[r] /\ spc[r] # "done")
      <4>1. spc[r] # "done" => wkind[r] = Kind(r)
        BY <1>1, <1>2, <3>1 DEF ContentInv, KindsAgree
      <4>. QED
        BY <3>1, <4>1 DEF Kind
    <3>. QED
      BY <1>1, <2>1, <3>1, <3>2
  <2>6. CASE MergeBucket(r)
    <3>1. cache'[r] = cache[r] /\ wkind[r] = "lora" /\ wpc[r] = "apply"
      BY <2>6 DEF MergeBucket, WGoto
    <3>2. BaseSynced(r)
      BY <1>1, <3>1
    <3>3. ~TrainEncoder => \A p \in Encoder : weight'[r][p] = 0
      BY <2>6, MergeDone, ParamAssumption DEF PolicyValue, BaseValue, Param
    <3>4. BaseSynced(r)'
      BY <3>1, <3>2, <3>3 DEF BaseSynced
    <3>. QED
      BY <1>1, <3>1, <3>4
  <2>7. CASE ApplyFails(r)
    <3>1. cache'[r] = cache[r] /\ wpc[r] = "apply" /\ wpc'[r] = "failed"
      BY <1>2, <2>7 DEF ApplyFails, WGoto
    <3>2. CASE wkind[r] = "full"
      <4>1. spc[r] # "done" => wkind[r] = Kind(r)
        BY <1>1, <1>2, <3>1 DEF ContentInv, KindsAgree
      <4>2. ~(baseSyncDone[r] /\ spc[r] # "done")
        BY <3>2, <4>1 DEF Kind
      <4>. QED
        BY <1>1, <2>1, <3>1, <3>2, <4>2
    <3>3. CASE wkind[r] = "lora"
      <4>1. BaseSynced(r) /\ StagedInv(r)
        BY <1>1, <3>1, <3>3 DEF ContentInv
      <4>2. ASSUME ~TrainEncoder, NEW p \in Encoder
            PROVE  weight'[r][p] = 0
        <5>1. PICK M \in SUBSET Modules :
                weight'[r] = Merged(Loaded(Restored(weight[r], cache[r]), staged[r]), staged[r], M)
          BY <1>2, <2>7, <3>3 DEF ApplyFails
        <5>2. p \in Param /\ p \notin M
          BY ParamAssumption DEF Param
        <5>3. weight[r][p] = 0
          BY <4>1, <4>2 DEF BaseSynced
        <5>4. Restored(weight[r], cache[r])[p] = 0
          BY <5>2, <5>3 DEF Restored
        <5>5. Loaded(Restored(weight[r], cache[r]), staged[r])[p] = 0
          BY <4>2, <5>2, <5>4 DEF Loaded, BaseValue
        <5>. QED
          BY <5>1, <5>2, <5>5 DEF Merged
      <4>3. BaseSynced(r)'
        BY <3>1, <4>1, <4>2 DEF BaseSynced
      <4>. QED
        BY <1>1, <3>1, <4>3
    <3>. QED
      BY <1>2, <3>2, <3>3
  <2>8. CASE RecvHandle(r) \/ RecvBucket(r) \/ CloneAndAck(r)
    <3>1. UNCHANGED <<cache, weight>> /\ wpc[r] # "idle" /\ wpc'[r] # "idle"
      BY <1>2, <2>8 DEF RecvHandle, RecvBucket, CloneAndAck, WGoto
    <3>. QED
      BY <1>1, <1>3, <2>1, <3>1
  <2>. QED
    BY <1>7, <2>3, <2>4, <2>5, <2>6, <2>7, <2>8 DEF Worker
<1>. QED
  BY <1>4, <1>5, <1>6, <1>7 DEF Next, Sender, Terminated

LEMMA MatchInvNext ==
  ASSUME ProtocolInv, ContentInv, WeightInv, [Next]_vars, NEW r \in Ranks
  PROVE  MatchInv(r)'
<1>. USE DEF MatchInv
<1>1. MatchInv(r) /\ Together /\ Protocol(r)
  BY DEF WeightInv, ProtocolInv
<1>2. /\ spc \in [Ranks -> SenderPlace] /\ wpc \in [Ranks -> WorkerPlace]
      /\ DOMAIN weight = Ranks
  BY DEF ProtocolInv, TypeOK
<1>3. CASE Driver \/ (\E l \in Servers : Generate(l)) \/ UNCHANGED vars
  <2>1. UNCHANGED <<wpc, weight>>
    BY <1>3, DriverFrame
  <2>2. CASE EndSync
    <3>1. wpc[r] = "idle" /\ Started(r) /\ version' = version
      BY <1>1, <2>2, RanksAssumption DEF EndSync
    <3>. QED
      BY <1>1, <2>1, <3>1
  <2>3. CASE BeginSync \/ UpdateActor
    <3>1. ~Started(r)' /\ phase' # "generate"
      BY <1>1, <1>2, <2>3, RanksAssumption DEF BeginSync, UpdateActor, senderVars
    <3>. QED
      BY <3>1
  <2>4. CASE ~EndSync /\ ~BeginSync /\ ~UpdateActor
    <3>1. spc' = spc /\ version' = version /\ (phase' = "generate" => phase = "generate")
      BY <1>3, <2>4 DEF Driver, SyncFailed, Finish, Generate, vars, trainerVars, senderVars
    <3>2. Started(r)' = Started(r)
      BY <3>1
    <3>. HIDE DEF Started
    <3>. QED
      BY <1>1, <2>1, <3>1, <3>2
  <2>. QED
    BY <2>2, <2>3, <2>4
<1>4. ASSUME NEW q \in Ranks, Sender(q)
      PROVE  MatchInv(r)'
  <2>1. UNCHANGED <<phase, version, weight>>
    BY <1>4, SenderLeaves
  <2>2. wpc'[r] = "idle" /\ Started(r)' => wpc[r] = "idle" /\ Started(r)
    <3>1. CASE StartRpc(q)
      <4>1. /\ spc' = [spc EXCEPT ![q] = "handle"]
            /\ wpc'[r] = IF q = Leader[q] /\ r \in Replica(q) THEN "handle" ELSE wpc[r]
        BY <1>2, <3>1 DEF StartRpc, SGoto
      <4>. QED
        BY <1>2, <4>1, RanksAssumption DEF Replica
    <3>2. CASE ~StartRpc(q)
      BY <1>4, <3>2, SenderLeaves, SenderFrame
    <3>. QED
      BY <3>1, <3>2
  <2>. HIDE DEF Started
  <2>. QED
    BY <1>1, <2>1, <2>2
<1>5. ASSUME NEW q \in Ranks, Worker(q)
      PROVE  MatchInv(r)'
  <2>1. UNCHANGED <<phase, version, spc>> /\ wpc[q] # "idle" /\ Started(r)' = Started(r)
    BY <1>5, WorkerLeaves
  <2>2. phase # "generate"
    BY <1>5, <2>1 DEF ProtocolInv
  <2>3. CASE q # r
    <3>1. wpc'[r] = wpc[r] /\ weight'[r] = weight[r]
      BY <1>5, <2>3, WorkerLeaves
    <3>. HIDE DEF Started
    <3>. QED
      BY <1>1, <2>1, <3>1
  <2>4. CASE LoadBucket(r) /\ wmsg[r].last
    <3>1. version = 0 /\ \A p \in Param : weight'[r][p] = 0
      BY <1>2, <2>4, FullDone DEF LoadBucket
    <3>. QED
      BY <2>1, <3>1 DEF PolicyValue, BaseValue
  <2>5. CASE MergeBucket(r)
    <3>1. \A p \in Param : weight'[r][p] = PolicyValue(p, version)
      BY <2>5, MergeDone
    <3>2. \A p \in Param : PolicyValue(p, version)' = PolicyValue(p, version)
      BY <2>1
    <3>. QED
      BY <2>1, <3>1, <3>2 DEF PolicyValue, BaseValue
  <2>6. CASE (LoadBucket(r) /\ ~wmsg[r].last) \/ ApplyFails(r) \/ RecvHandle(r) \/ RecvBucket(r) \/ CloneAndAck(r)
    <3>1. wpc'[r] # "idle"
      BY <1>2, <2>6 DEF LoadBucket, AfterBucket, ApplyFails, RecvHandle, RecvBucket, CloneAndAck, WGoto
    <3>. QED
      BY <2>1, <2>2, <3>1
  <2>. QED
    BY <1>5, <2>3, <2>4, <2>5, <2>6 DEF Worker
<1>. QED
  BY <1>3, <1>4, <1>5 DEF Next, Terminated

LEMMA WeightNext == Launcher /\ ProtocolInv /\ ContentInv /\ WeightInv /\ [Next]_vars => WeightInv'
<1>. SUFFICES ASSUME Launcher, ProtocolInv, ContentInv, WeightInv, [Next]_vars PROVE WeightInv'
  OBVIOUS
<1>1. FirstSync' /\ \A r \in Ranks : LoadInv(r)' /\ OneBucketInv(r)'
  BY FirstSyncNext, LoadInvNext, OneBucketNext DEF WeightInv
<1>2. \A r \in Ranks : CacheInv(r)' /\ MatchInv(r)'
  BY CacheInvNext, MatchInvNext
<1>. QED
  BY <1>1, <1>2 DEF WeightInv

\* In the launcher's configuration, if the LoRA payload fits into one bucket,
\* every request of every rollout is served by base weights plus exactly one
\* merge of the adapter of the actor that was just trained, on every rank.
THEOREM RolloutIsOnPolicy == Launcher => (Spec => []RolloutMatchesActor)
<1>1. WeightInv => RolloutMatchesActor
  BY DEF WeightInv, MatchInv, RolloutMatchesActor
<1>2. Launcher /\ Init => WeightInv
  BY WeightInit
<1>3. Launcher => Launcher'
  BY DEF Launcher
<1>. QED
  BY <1>1, <1>2, <1>3, ProtocolInit, ProtocolNext, ContentInit, ContentNext, WeightNext, PTL DEF Spec

\* Then the cache that every merge starts from never holds anything but base
\* weights: neither dummy values nor weights an adapter was merged into.
THEOREM CacheStaysClean == Launcher => (Spec => []CacheIsCleanBase)
<1>1. WeightInv => CacheIsCleanBase
  BY DEF WeightInv, CacheInv, CacheIsCleanBase, Param
<1>2. Launcher /\ Init => WeightInv
  BY WeightInit
<1>3. Launcher => Launcher'
  BY DEF Launcher
<1>. QED
  BY <1>1, <1>2, <1>3, ProtocolInit, ProtocolNext, ContentInit, ContentNext, WeightNext, PTL DEF Spec

-----------------------------------------------------------------------------
(* The prefix caches *)

PrefixInv ==
  /\ \A l \in Servers : spc[l] = "done" => prefix[l] = {}
  /\ NoStalePrefix

LEMMA PrefixNext == ProtocolInv /\ PrefixInv /\ [Next]_vars => PrefixInv'
<1>. SUFFICES ASSUME ProtocolInv, PrefixInv, [Next]_vars PROVE PrefixInv'
  OBVIOUS
<1>. USE DEF PrefixInv, NoStalePrefix, trainerVars, senderVars, workerVars
<1>1. /\ Together /\ spc \in [Ranks -> SenderPlace] /\ DOMAIN prefix = Servers
      /\ \A l \in Servers : l \in Ranks /\ Leader[l] = l
  BY RanksAssumption DEF ProtocolInv, TypeOK, Servers
<1>2. CASE BeginSync \/ SyncFailed \/ UpdateActor \/ Finish \/ UNCHANGED vars
  BY <1>1, <1>2 DEF BeginSync, SyncFailed, UpdateActor, Finish, vars
<1>3. CASE EndSync
  BY <1>1, <1>3 DEF EndSync
<1>4. ASSUME NEW l \in Servers, Generate(l) PROVE PrefixInv'
  BY <1>1, <1>4 DEF Generate
<1>5. ASSUME NEW r \in Ranks, Sender(r) PROVE PrefixInv'
  <2>1. phase' = phase /\ phase # "generate"
    <3>1. spc[r] # "idle"
      BY <1>5, <1>1 DEF Sender, StartRpc, SendHandle, RecvHandleAck, Put, Flush, RecvBucketAck,
         SendLast, RecvLastAck, AwaitFuture, FutureFails, SGoto
    <3>. QED
      BY <1>1, <1>5, <3>1, SenderLeaves
  <2>2. ASSUME NEW l \in Servers, spc'[l] = "done" PROVE prefix'[l] = {}
    <3>1. CASE AwaitFuture(r)
      BY <1>1, <2>2, <3>1 DEF AwaitFuture, SGoto
    <3>2. CASE RecvLastAck(r)
      BY <1>1, <2>2, <3>2 DEF RecvLastAck, SGoto
    <3>. QED
      BY <1>1, <1>5, <2>2, <3>1, <3>2 DEF Sender, StartRpc, SendHandle, RecvHandleAck, Put, Flush,
         RecvBucketAck, SendLast, FutureFails, SGoto
  <2>. QED
    BY <2>1, <2>2
<1>6. ASSUME NEW r \in Ranks, Worker(r) PROVE PrefixInv'
  <2>1. UNCHANGED <<phase, version, spc, prefix>>
    BY <1>6 DEF Worker, RecvHandle, RecvBucket, CloneAndAck, LoadBucket, MergeBucket, ApplyFails
  <2>. QED
    BY <2>1
<1>. QED
  BY <1>2, <1>3, <1>4, <1>5, <1>6 DEF Next, Driver, Terminated

\* No request reuses KV blocks that an older actor computed, in any
\* configuration: the reset comes after the replica's last merge and before
\* the driver goes on.
THEOREM PrefixIsFresh == Spec => []NoStalePrefix
<1>1. Init => PrefixInv
  BY DEF Init, PrefixInv, NoStalePrefix
<1>2. PrefixInv => NoStalePrefix
  BY DEF PrefixInv
<1>. QED
  BY <1>1, <1>2, ProtocolInit, ProtocolNext, PrefixNext, PTL DEF Spec

-----------------------------------------------------------------------------
(* The implementation of PolicyHandoff *)

ServedIsActor == ServedVersion = IF phase = "generate" THEN version ELSE Uncached
Inhabited == Modules # {} /\ Ranks # {}

LEMMA Served == TypeOK /\ WeightInv /\ Inhabited => ServedIsActor
<1>. SUFFICES ASSUME TypeOK, WeightInv, Inhabited PROVE ServedIsActor
  OBVIOUS
<1>. USE DEF ServedIsActor, Inhabited
<1>1. CASE phase # "generate"
  BY <1>1 DEF ServedVersion
<1>2. CASE phase = "generate"
  <2>. DEFINE Holds(v) == \A r \in Ranks, p \in Param : weight[r][p] = PolicyValue(p, v)
  <2>1. version \in Version /\ Holds(version)
    BY <1>2 DEF TypeOK, WeightInv, MatchInv
  <2>2. ASSUME NEW v \in Version, Holds(v) PROVE v = version
    <3>1. PICK m \in Modules, r \in Ranks : TRUE
      OBVIOUS
    <3>2. weight[r][m] = PolicyValue(m, v) /\ weight[r][m] = PolicyValue(m, version)
      BY <2>1, <2>2 DEF Param
    <3>. QED
      BY <3>2 DEF PolicyValue
  <2>3. ServedVersion = CHOOSE v \in Version : Holds(v)
    BY <1>2, <2>1 DEF ServedVersion
  <2>. HIDE DEF Holds
  <2>4. (CHOOSE v \in Version : Holds(v)) = version
    BY <2>1, <2>2
  <2>. QED
    BY <1>2, <2>3, <2>4
<1>. QED
  BY <1>1, <1>2

LEMMA HandoffInit == ASSUME Launcher, Init PROVE Handoff!Init
  BY DEF Launcher, Init, Handoff!Init, ServedVersion

\* Every step hands over, trains, stops or is not seen by the training loop.
LEMMA HandoffNext ==
  ASSUME TypeOK, WeightInv, WeightInv', TypeOK', Together, [Next]_vars, Inhabited
  PROVE  [Handoff!Next]_(Handoff!handoffVars)
<1>. DEFINE mode == CASE phase \in {"collect", "sync"} -> "train"
                      [] phase = "generate" -> "rollout"
                      [] OTHER -> "stopped"
<1>1. ServedVersion = IF phase = "generate" THEN version ELSE Uncached
  BY Served DEF ServedIsActor
<1>2. ServedVersion' = IF phase' = "generate" THEN version' ELSE Uncached
  <2>1. Inhabited'
    BY DEF Inhabited
  <2>2. ServedIsActor'
    BY <2>1, Served, PTL
  <2>. QED
    BY <2>2 DEF ServedIsActor
<1>. USE DEF Handoff!Next, Handoff!handoffVars
<1>3. CASE UNCHANGED <<phase, version>>
  BY <1>1, <1>2, <1>3
<1>4. CASE BeginSync
  BY <1>1, <1>2, <1>4 DEF BeginSync
<1>5. CASE EndSync
  BY <1>1, <1>2, <1>5 DEF EndSync, Handoff!HandOver
<1>6. CASE SyncFailed
  BY <1>1, <1>2, <1>6 DEF SyncFailed, Handoff!Stop
<1>7. CASE UpdateActor
  BY <1>1, <1>2, <1>7 DEF UpdateActor, Handoff!Train
<1>8. CASE Finish
  BY <1>1, <1>2, <1>8 DEF Finish, Handoff!Stop
<1>9. CASE \E l \in Servers : Generate(l)
  BY <1>3, <1>9 DEF Generate, trainerVars
<1>10. CASE \E r \in Ranks : Sender(r)
  BY <1>3, <1>10 DEF Sender, StartRpc, SendHandle, RecvHandleAck, Put, Flush, RecvBucketAck,
     SendLast, RecvLastAck, AwaitFuture, FutureFails, trainerVars
<1>11. CASE \E r \in Ranks : Worker(r)
  BY <1>3, <1>11 DEF Worker, RecvHandle, RecvBucket, CloneAndAck, LoadBucket, MergeBucket,
     ApplyFails, trainerVars
<1>12. CASE UNCHANGED vars
  BY <1>3, <1>12 DEF vars, trainerVars
<1>. QED
  BY <1>4, <1>5, <1>6, <1>7, <1>8, <1>9, <1>10, <1>11, <1>12 DEF Next, Driver, Terminated

\* In that configuration the whole protocol of drivers, senders and workers
\* looks to the training loop like one atomic hand-over per update.
THEOREM ImplementsHandoff == Launcher /\ Inhabited => (Spec => Handoff!Spec)
<1>. DEFINE Config == Launcher /\ Inhabited
            IInv == ProtocolInv /\ ContentInv /\ WeightInv
<1>1. Config /\ Init => IInv /\ Handoff!Init
  BY WeightInit, ProtocolInit, ContentInit, HandoffInit
<1>2. Config /\ IInv /\ [Next]_vars => IInv'
  BY ProtocolNext, ContentNext, WeightNext
<1>3. Config /\ IInv /\ IInv' /\ [Next]_vars => [Handoff!Next]_(Handoff!handoffVars)
  BY HandoffNext DEF ProtocolInv
<1>4. Config => Config'
  BY DEF Launcher, Inhabited
<1>. HIDE DEF Config, IInv
<1>5. Config => (Spec => Handoff!Spec)
  BY <1>1, <1>2, <1>3, <1>4, PTL DEF Spec, Handoff!Spec
<1>. QED
  BY <1>5 DEF Config

=============================================================================
