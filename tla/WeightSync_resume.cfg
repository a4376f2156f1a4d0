SPECIFICATION Spec
CONSTANTS
  r1 = r1
  r2 = r2
  r3 = r3
  qkv = qkv
  o = o
  emb = emb
  enc = enc
  pq = pq
  pk = pk
  po = po
  Garbage = Garbage
  Uncached = Uncached
  Ranks <- MCTwoRanks
  Leader <- MCTwoLeader
  Modules <- MCModules
  Projections <- MCProjections
  Proj <- MCProj
  Frozen <- MCFrozen
  Encoder <- MCEncoder
  FullOrder <- MCFullOrder
  AdapterOrder <- MCAdapterOrder
  EncoderOrder <- MCEncoderOrder
  FullEnd <- MCFullEnd
  LoraEnd <- MCLoraEnd
  BucketSize = 7
  DummyLoad = TRUE
  TrainEncoder = TRUE
  WorkerMayFail = FALSE
  StartVersions <- Resumed
  MaxVersion = 2
INVARIANT RolloutMatchesActor
