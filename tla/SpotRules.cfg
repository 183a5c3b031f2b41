SPECIFICATION MCSpec
CONSTANTS
  Origins <- MCOrigins
  KeyMode = "cqzone"
  Reports <- MCReports
  Window = 1
  PreferStronger = TRUE
  NumShards = 2
  ShardFor <- MCShardFor
  CompactMinPeak = 2
  MaxLate = 2
  MaxTime = 3
  NoEntry = NoEntry
  NoSnapshot = NoSnapshot
  InvalidCell = InvalidCell
  NoRecord = NoRecord
  Corrupt = Corrupt
  t1 = t1
  t2 = t2
INVARIANTS ShownIsTrue  DistanceIsCheapest  RefusalIsFresh
PROPERTIES ImplementsFilter StateIsConfirmed GroundedInference ChangedOnEvidence
CHECK_DEADLOCK FALSE
