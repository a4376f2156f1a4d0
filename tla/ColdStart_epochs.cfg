SPECIFICATION Spec
CONSTANTS
  NumRanks = 3
  NumExperts = 2
  SparseInference = TRUE
  WarmupEpochs = 1
  Samples = 7
  MicroBatch = 1
  Gas = 2
  Epochs = 3
  MaxStepsPerEpoch = 0
  EvalInterval = 2
  SaveInterval = 2
  EvalBatches = 1
  MaxLaunches = 3
CHECK_DEADLOCK FALSE
INVARIANTS
  TypeOK
  NoMismatch
  OneVersion
  NameTellsSteps
PROPERTIES
  AllEnd
