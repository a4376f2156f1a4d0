SPECIFICATION Spec
CONSTANTS
  Launchers = {l1, l2}
  Starts = {cold_start, base}
  ColdStart = cold_start
  Shards = {shard1, shard2}
  Tokenizer = tokenizer
  MaxLaunches = 3
  None = None
  Torn = Torn
  Plain = Plain
SYMMETRY Interchangeable
CHECK_DEADLOCK FALSE
INVARIANTS
  TypeOK
  TrainsFromItsStart
  NeverSilentlyWrong
  FailsOnlyWhenDisturbed
