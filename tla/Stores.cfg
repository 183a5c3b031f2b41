SPECIFICATION MCSpec
CONSTANTS
  Calls = {"A", "B"}
  Incoming <- MCIncoming
  QueueDepth = 1
  BatchCap = 1
  MaxTime = 2
  MaxRequests = 3
  MaxCrashes = 1
  MaxFailures = 1
  NoRecord = NoRecord
  NoGrid = NoGrid
  NoCty = NoCty
  BadCty = BadCty
  k1 = k1
  k2 = k2
  k3 = k3
  l1 = l1
  w0 = w0
  w1 = w1
  g1 = g1
  gd = gd
  g0 = g0
INVARIANTS KeepsMostRecent StoreIsConsistent HistoryIsNewest
PROPERTIES  NothingIsLeftPending  
CHECK_DEADLOCK FALSE
