SPECIFICATION Spec
CONSTANTS
  NumWorkers = 2
  Servers = {s1, s2}
  BatchSizes = {2, 3}
  Turns = 2
  MaxCache = 2
  MaxBatches = 2
CHECK_DEADLOCK FALSE
INVARIANTS
  TypeOK
  DealsEvenly
  Sticky
  InOrder
  QuietBetweenRollouts
PROPERTIES
  RolloutEnds
