SPECIFICATION Spec
CONSTANTS
  Actual = {g1}
  Derived = gd
  Origin = g0
  AsyncWorker = w0
  SyncWorkers = {w1}
  UpdatesCap = 1
  SyncCap = 1
  PurgeTTL = 1
  MaxTime = 2
  GridTTL = 1
  NoGrid = NoGrid
  NoCty = NoCty
  BadCty = BadCty
  NoRecord = NoRecord
  MayStop = TRUE
INVARIANT ShutdownIsClean
CHECK_DEADLOCK FALSE
