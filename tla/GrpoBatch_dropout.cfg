SPECIFICATION Spec
CONSTANTS
  NumPrompts = 2
  N = 4
  NumRanks = 2
  MiniPrompts = 1
  UpdateMicro = 1
  OldMicro = 2
  RefMicro = 4
  PpoEpochs = 1
  MaxSteps = 2
  PromptLength = 5
  ResponseLength = 2
  Channels = 2
  WarmupEpochs = 3
  Lengths <- MCLengths
INVARIANT RatioStartsAtOne
CHECK_DEADLOCK FALSE
