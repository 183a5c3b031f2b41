SPECIFICATION MCSpec
CONSTANTS
  Scenarios = {"mixed"}
  MaxSpots = 2
  k1 = k1
  k2 = k2
  s1 = s1
  s2 = s2
  s3 = s3
  Sessions = {s1, s2, s3}
  Calls = {c}
  Filters = {f}
  DefaultFilter = f
  BlankFilter = f
  MaxConnections = 2
  DuplicateMsg = TRUE
  ReadErrors = TRUE
  MaxCommands = 1
  NoCall = NoCall
  NoSession = NoSession
  NoRecord = NoRecord
  Truncated = Truncated
INVARIANT ClientSpacing
CHECK_DEADLOCK FALSE
