------------------------------ MODULE MCStores ------------------------------
(***************************************************************************)
(* What is stored.  A scenario runs one component and leaves the others in *)
(* an initial state:                                                       *)
(*                                                                         *)
(*   lookups  asynchronous and synchronous lookups of one callsign's grid, *)
(*            no time, no shutdown, one update at a time on its way        *)
(*   stop     shutdown with asynchronous lookups under way; the cache      *)
(*            evicts derived grids only                                    *)
(*   aging    entries expire and records are purged, no lookups            *)
(*   cache    three callsigns, one unknown to the CTY database, compete    *)
(*            for two places of a shard                                    *)
(*   grids    two callsigns in the grid store, a crash and a failure       *)
(*            (GridStore, extended)                                        *)
(*   restore  two crashes around checkpoints and their restore             *)
(*   archive  two spots of different retention and two unreadable records, *)
(*            a restart                                                    *)
(***************************************************************************)
EXTENDS GridStore

CONSTANTS k1, k2, k3, l1, w0, w1, g1, gd, g0, NoGrid, NoCty, BadCty

VARIABLES
  scenario,
  ticks, cached, entry, updates, open, writing, pending, store, lookupPending, lookupQueue, syncQueue, pc,
  found, panicked,
  time, order, entries, version, refreshing, lookerPc, call, db, used,
  rDb, temp, backup, handle, rStep, from, left, rCrashes, rFailures,
  clock, offered, sending, aQueue, batch, seq, aDb, stop, inserting, cleaning, aClosed, iter, cutoffs,
  deleting, atStop, restarts

Cache == INSTANCE CallMetaCache WITH
  now <- time, pc <- lookerPc,
  Calls <- {k1, k2, k3}, PerShard <- 2, Known <- {k1, k2}, Lookers <- {l1}, Grids <- {g1}, GridTTL <- 1,
  MaxVersion <- 1, MaxTime <- 1

Grid == INSTANCE GridWriter WITH
  now <- ticks,
  Actual <- {g1}, Derived <- gd, Origin <- g0, AsyncWorker <- w0, SyncWorkers <- {w1}, UpdatesCap <- 1,
  SyncCap <- 1, PurgeTTL <- 1, GridTTL <- 1, MaxTime <- 2, MayStop <- TRUE

ASSUME Grid!MetaConstants /\ Grid!WriterConstants

Arriving(known, grid, derived, prefix, observations, updated) ==
  [known |-> known, grid |-> grid, derived |-> derived, cty |-> prefix, observations |-> observations,
   first |-> 0, updated |-> updated, expires |-> 0]

MCIncoming == {Arriving(FALSE, "JN", FALSE, "", 1, 1), Arriving(TRUE, "KO", TRUE, "S5", 0, 0)}

ASSUME StoreConstants

Recovery == INSTANCE GridRecovery WITH
  db <- rDb, step <- rStep, crashes <- rCrashes, failures <- rFailures,
  Retention <- 2, MaxWrites <- 3, MaxCrashes <- 2, MaxFailures <- 1

History == INSTANCE Archive WITH
  queue <- aQueue, db <- aDb, closed <- aClosed, pending <- deleting,
  Spots <- {[id |-> 1, ts |-> 1, mode |-> "FT8", call |-> "K1"], [id |-> 2, ts |-> 0, mode |-> "CW", call |-> "W2"]},
  Stale <- {[key |-> <<1, 8>>], [key |-> <<1, 9>>]}, QueueSize <- 2, BatchSize <- 2, CleanupBatch <- 2,
  RetentionFT <- 1, RetentionDefault <- 2, Multiplier <- 1, Growth <- 2, ScanMax <- 3, MaxCount <- 2,
  MaxTime <- 3, MaxRestarts <- 1

gridVars ==
  <<ticks, cached, entry, updates, open, writing, pending, store, lookupPending, lookupQueue, syncQueue, pc,
    found, panicked>>
cacheVars == <<time, order, entries, version, refreshing, lookerPc, call, db, used>>
recoveryVars == <<rDb, temp, backup, handle, rStep, from, left, rCrashes, rFailures>>
archiveVars ==
  <<clock, offered, sending, aQueue, batch, seq, aDb, stop, inserting, cleaning, aClosed, iter, cutoffs,
    deleting, atStop, restarts>>
-----------------------------------------------------------------------------
WriterScenarios == {"lookups", "stop", "aging"}

MCInit ==
  /\ scenario \in WriterScenarios \cup {"cache", "grids", "restore", "archive"}
  /\ Init /\ Grid!Init /\ Cache!Init /\ Recovery!Init /\ History!Init

\* A component of another scenario keeps its state
Still(name, vs) == IF scenario = name THEN TRUE ELSE UNCHANGED vs

Rest ==
  /\ UNCHANGED scenario
  /\ IF scenario \in WriterScenarios THEN TRUE ELSE UNCHANGED gridVars
  /\ Still("cache", cacheVars) /\ Still("grids", vars) /\ Still("restore", recoveryVars)
  /\ Still("archive", archiveVars)

\* What the environment does in each scenario of GridWriter
Bound ==
  \/ scenario = "lookups" /\ ticks' = 0 /\ open' /\ (updates' = <<>> \/ pending' = NoRecord)
  \/ scenario = "stop" /\ ticks' = 0 /\ syncQueue' = 0 /\ (cached => cached' \/ entry.derived)
  \/ scenario = "aging" /\ open' /\ ~lookupPending' /\ syncQueue' = 0

WriterStep(A) == scenario \in WriterScenarios /\ Rest /\ A /\ Bound
RestoreStep(A) == scenario = "restore" /\ Rest /\ A
ArchiveStep(A) == scenario = "archive" /\ Rest /\ A

MCNext ==
  \/ WriterStep(Grid!Next)
  \/ scenario = "cache" /\ Rest /\ Cache!Next
  \/ scenario = "grids" /\ Rest /\ Next
  \/ RestoreStep(Recovery!Next)
  \/ ArchiveStep(History!Next)

\* The fairness of GridWriter!FairSpec, GridRecovery and Archive, in their scenarios
MCSpec ==
  /\ MCInit
  /\ [][MCNext]_<<scenario, vars, gridVars, cacheVars, recoveryVars, archiveVars>>
  /\ WF_gridVars(WriterStep(Grid!Writer)) /\ \A w \in {w0, w1} : WF_gridVars(WriterStep(Grid!Work(w)))
  /\ WF_recoveryVars(RestoreStep(Recovery!Start)) /\ WF_recoveryVars(RestoreStep(Recovery!Restore))
  /\ WF_archiveVars(ArchiveStep(History!EnqueueSend)) /\ WF_archiveVars(ArchiveStep(History!InsertReceive))
  /\ WF_archiveVars(ArchiveStep(History!InsertTimer)) /\ WF_archiveVars(ArchiveStep(History!InsertStop))
  /\ WF_archiveVars(ArchiveStep(History!CleanupBegin)) /\ WF_archiveVars(ArchiveStep(History!CleanupStep))
  /\ SF_archiveVars(ArchiveStep(History!CleanupStop)) /\ WF_archiveVars(ArchiveStep(History!Close))
-----------------------------------------------------------------------------
\* An actual grid is not replaced by a derived one, in the cache or in the store (UpdateGrid,
\* ApplyRecord, mergeRecordValue).
ActualGridKept == Grid!ActualGridKept

\* A callsign is marked pending only while its lookup is in flight, and what was accepted
\* before shutdown is flushed (tryGridLookup, stopFn).
NothingIsLeftPending ==
  [](scenario \in {"lookups", "stop", "aging"} => Grid!PendingIsInFlight) /\ Grid!FinalFlush

\* The shard holds the callsigns used last (addEntry, MoveToFront), and its state and the
\* writer's are well formed.
KeepsMostRecent == Grid!TypeOK /\ Cache!TypeOK /\ Cache!KeepsMostRecent

\* A corrupt store is replaced by its newest good checkpoint (restoreGridStoreFromCheckpoint).
RestoresNewest == Recovery!NewestInPlace /\ []<>(scenario # "restore" \/ rStep = "up")

\* The history query gives the newest spots that match (RecentFiltered).
HistoryIsNewest == scenario = "archive" => History!HistoryIsNewest

\* An archived spot stays until its retention has passed, over Stop too, and then goes
\* (cleanupOnce, drainQueue).
KeptUntilExpired == History!KeptUntilExpired
=============================================================================
