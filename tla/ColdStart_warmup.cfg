SPECIFICATION Spec
CONSTANTS
  NumRanks = 2
  NumExperts = 2
  SparseInference = TRUE
  WarmupEpochs = 1
  Samples = 5
  MicroBatch = 1
  Gas = 2
  Epochs = 3
  MaxStepsPerEpoch = 0
  EvalInterval = 2
  SaveInterval = 2
  EvalBatches = 1
  MaxLaunches = 2
CHECK_DEADLOCK FALSE
INVARIANT WarmupEnds
