SPECIFICATION MCSpec
CONSTANTS
  Scenarios = {"human", "mixed", "aggregate"}
  MaxSpots = 3
  k1 = k1
  k2 = k2
  s1 = s1
  s2 = s2
  s3 = s3
  Sessions = {s1}
  Calls = {c}
  Filters = {f}
  DefaultFilter = f
  BlankFilter = f
  MaxConnections = 2
  DuplicateMsg = TRUE
  ReadErrors = TRUE
  MaxCommands = 1
  NoCall = NoCall
  NoSession = NoSession
  NoRecord = NoRecord
  Truncated = Truncated
INVARIANTS SinksFollowPolicies
PROPERTIES BucketsAreServed
CHECK_DEADLOCK FALSE
