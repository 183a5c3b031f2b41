SPECIFICATION Spec
CONSTANTS
  Sessions = {s1, s2}
  Calls = {c}
  Filters = {blank, f}
  DefaultFilter = f
  BlankFilter = blank
  MaxConnections = 0
  DuplicateMsg = TRUE
  ReadErrors = TRUE
  MaxCommands = 0
  NoCall = NoCall
  NoSession = NoSession
  NoRecord = NoRecord
  Truncated = Truncated
INVARIANT StoredSettingsKept
CHECK_DEADLOCK FALSE
