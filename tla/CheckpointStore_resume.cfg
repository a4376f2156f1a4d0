SPECIFICATION FairSpec
CONSTANTS
  r0 = r0
  r1 = r1
  None = None
  Torn = Torn
  Mixed = Mixed
  Empty = Empty
  Ranks <- MCRanks
  Chief = r0
  SaveFreq = 2
  EpochLength = 3
  Epochs = 3
  TotalSteps = 9
  MaxKeep = 2
  ResumeModes <- Auto
  EsiSteps <- Expiring
  MaxLaunches = 3
INVARIANTS
  TypeOK
  TrackedIsComplete
  ResumesInPlace
  FailsOnlyOnTornTracker
  LossIsBounded
  FinishedIsTrained
PROPERTIES
  LaunchEnds
  IsDurable
CHECK_DEADLOCK FALSE
