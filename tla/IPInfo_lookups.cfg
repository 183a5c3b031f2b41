CONSTANTS
 Threads = {t1, t2}
 Holds = {1}
 LookupTTL = 1
 MaxAge = 2
 CymruTTL = 1
 NegativeTTL = 1
 PendingTTL = 1
 CymruQueue = 1
 KeepGzip = TRUE
 CleanOld = TRUE
 MaxBuilds = 2
 MaxTime = 0
 MaxLookups = 2
 MaxCrashes = 0
SPECIFICATION Spec
PROPERTY LookupReturns
CHECK_DEADLOCK FALSE
