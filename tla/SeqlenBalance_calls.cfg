SPECIFICATION Spec
CONSTANTS
  NumItems = 6
  K = 3
  Workloads = {1, 2, 5}
CHECK_DEADLOCK FALSE
INVARIANTS
  TypeOK
  PlacedOnce
  SpreadBounded
  AssertionsHold
