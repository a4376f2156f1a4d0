SPECIFICATION Spec
CONSTANTS
  NumPrompts = 2
  N = 4
  NumRanks = 2
  MiniPrompts = 1
  UpdateMicro = 1
  OldMicro = 2
  RefMicro = 4
  PpoEpochs = 2
  MaxSteps = 2
  PromptLength = 5
  ResponseLength = 2
  Channels = 2
  WarmupEpochs = 3
  Lengths <- MCLengths
INVARIANTS
  TypeOK
  RatioInContext
  JudgedByItsGroup
  TrainsEachRowOnce
CHECK_DEADLOCK FALSE
