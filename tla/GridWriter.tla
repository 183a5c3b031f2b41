----------------------------- MODULE GridWriter -----------------------------
(***************************************************************************)
(* How the grid of one callsign travels between the pipeline, the call     *)
(* metadata cache and the grid store (main.go, startGridWriter): updates   *)
(* go through a channel to a writer that merges them and flushes them in   *)
(* batches; a cache miss sends a request to lookup workers, which read the *)
(* store, derive a grid from the CTY coordinates when it has none, pass    *)
(* that on to the writer and put it into the cache.                        *)
(*                                                                         *)
(* Grids are opaque: the actual ones that spots carry, the one that the    *)
(* coordinates of the CTY prefix give, and the one that the coordinates    *)
(* 0,0 give.  CTY information in the cache comes from the database, with   *)
(* coordinates, or from a stored record, which has none.                   *)
(***************************************************************************)
EXTENDS CallMeta, Sequences, FiniteSets

CONSTANTS
  Actual,                   \* grids that spots carry
  Derived, Origin,          \* grids derived from the prefix and from 0,0
  AsyncWorker, SyncWorkers, \* the lookup goroutines
  UpdatesCap, SyncCap,
  PurgeTTL,                 \* records older than this are purged
  MaxTime, MayStop,         \* bounds: time, whether shutdown happens
  NoRecord

FromDatabase == "database"
FromRecord == "record"
Workers == {AsyncWorker} \cup SyncWorkers
Grids == Actual \cup {Derived, Origin}

WriterConstants ==
  /\ UpdatesCap \in Nat \ {0} /\ SyncCap \in Nat \ {0} /\ PurgeTTL \in Nat /\ MaxTime \in Nat /\ MayStop \in BOOLEAN
  /\ AsyncWorker \notin SyncWorkers /\ Cardinality(Grids) = Cardinality(Actual) + 2
  /\ NoGrid \notin Grids

VARIABLES
  now,
  cached, entry,              \* whether the cache has an entry, and the entry
  updates, open,              \* the updates channel
  writing,                    \* the writer goroutine runs
  pending, store,             \* the record to be flushed, the record in the store
  lookupPending, lookupQueue, \* lookupPending, requests in the lookup queue
  syncQueue,                  \* requests in the sync lookup queue
  pc, found,                  \* each lookup worker, and the record it has read
  panicked                    \* the process has ended with a panic

cache == <<cached, entry>>
channel == <<updates, open, panicked>>
disk == <<writing, pending, store>>
lookup == <<lookupPending, lookupQueue, syncQueue>>
vars == <<now, cache, channel, disk, lookup, pc, found>>

-----------------------------------------------------------------------------
Record(g, d, c) == [grid |-> g, derived |-> d, cty |-> c, at |-> now]

Init ==
  /\ now = 0 /\ cached = FALSE /\ entry = Blank
  /\ updates = <<>> /\ open = TRUE /\ panicked = FALSE
  /\ writing = TRUE /\ pending = NoRecord /\ store = NoRecord
  /\ lookupPending = FALSE /\ lookupQueue = 0 /\ syncQueue = 0
  /\ pc = [w \in Workers |-> "idle"] /\ found = [w \in Workers |-> NoRecord]

Tick ==
  /\ ~panicked /\ now < MaxTime /\ now' = now + 1
  /\ UNCHANGED <<cache, channel, disk, lookup, pc, found>>

\* A send that does not block; on a closed channel it panics.  The records of other
\* callsigns may have filled the channel, the store may be unavailable.
Send(rec) ==
  /\ IF open
     THEN /\ updates' \in {updates} \cup {IF Len(updates) < UpdatesCap THEN Append(updates, rec) ELSE updates}
          /\ UNCHANGED panicked
     ELSE panicked' \in BOOLEAN /\ UNCHANGED updates
  /\ UNCHANGED open

Put(e) == cached' = TRUE /\ entry' = e

\* Ingest validation looks the callsign up (LookupCTY), and on a miss stores what
\* it found through ctyUpdateFn.
Ingest ==
  /\ ~panicked /\ entry.cty = NoCty
  /\ Put([entry EXCEPT !.cty = FromDatabase])
  /\ Send(Record(NoGrid, FALSE, FromRecord))
  /\ UNCHANGED <<now, disk, lookup, pc, found>>

\* gridUpdateFn
GridUpdate(g) ==
  /\ ~panicked
  /\ IF ~cached \/ Updates(entry, g, FALSE, now)
     THEN Put(WithGrid(entry, g, FALSE, now)) /\ Send(Record(g, FALSE, NoCty))
     ELSE UNCHANGED <<cache, channel>>
  /\ UNCHANGED <<now, disk, lookup, pc, found>>

\* The entry is evicted by others, or the cache is cleared.
Forget ==
  /\ ~panicked /\ cached /\ cached' = FALSE /\ entry' = Blank
  /\ UNCHANGED <<now, channel, disk, lookup, pc, found>>

Misses == LookedUp(entry, now).grid = NoGrid

\* Mutant: the mark is set even if the queue has no room.
MutLookup ==
  /\ ~panicked /\ writing /\ Misses
  /\ entry' = LookedUp(entry, now) /\ UNCHANGED cached
  /\ ~lookupPending
  /\ lookupPending' = TRUE /\ lookupQueue' \in {0, 1}
  /\ UNCHANGED <<now, channel, disk, syncQueue, pc, found>>

\* lookupFn on a cache miss; other callsigns may have filled the queue.
Lookup ==
  /\ ~panicked /\ writing /\ Misses
  /\ entry' = LookedUp(entry, now) /\ UNCHANGED cached
  /\ ~lookupPending
  /\ \/ lookupPending' = TRUE /\ lookupQueue' = 1
     \/ UNCHANGED <<lookupPending, lookupQueue>>
  /\ UNCHANGED <<now, channel, disk, syncQueue, pc, found>>

\* lookupSyncFn on a cache miss.  Its caller waits for a while; the request stays.
LookupSync ==
  /\ ~panicked /\ writing /\ Misses /\ syncQueue < SyncCap
  /\ entry' = LookedUp(entry, now) /\ UNCHANGED cached
  /\ syncQueue' = syncQueue + 1
  /\ UNCHANGED <<now, channel, disk, lookupPending, lookupQueue, pc, found>>

\* A request to a queue that stopFn has closed
LookupAfterStop ==
  /\ ~panicked /\ ~writing /\ Misses /\ panicked' = TRUE
  /\ entry' = LookedUp(entry, now) /\ UNCHANGED cached
  /\ UNCHANGED <<now, updates, open, disk, lookup, pc, found>>

\* A worker takes a request and reads the store (lookupRecord), which may fail.
TakeRequest(w) ==
  /\ ~panicked /\ pc[w] = "idle"
  /\ IF w = AsyncWorker
     THEN lookupQueue > 0 /\ lookupQueue' = lookupQueue - 1 /\ UNCHANGED syncQueue
     ELSE syncQueue > 0 /\ syncQueue' = syncQueue - 1 /\ UNCHANGED lookupQueue
  /\ \/ /\ found' = [found EXCEPT ![w] = store]
        /\ pc' = [pc EXCEPT ![w] = IF store # NoRecord /\ store.grid # NoGrid THEN "apply" ELSE "derive"]
     \/ pc' = [pc EXCEPT ![w] = "apply"] /\ UNCHANGED found
  /\ UNCHANGED <<now, cache, channel, disk, lookupPending>>

\* The grid that the coordinates of the CTY information give
GridOf(c) == IF c = FromDatabase THEN Derived ELSE Origin

\* The rest of lookupRecord: effectivePrefixInfo through the cache, the derived
\* record for the writer
Derive(w) ==
  LET c == IF entry.cty = NoCty THEN FromDatabase ELSE entry.cty
      base == found[w]
      rec == Record(GridOf(c), TRUE, IF base # NoRecord THEN base.cty ELSE NoCty)
  IN  /\ ~panicked /\ pc[w] = "derive"
      /\ Put([entry EXCEPT !.cty = c])
      /\ Send(rec)
      /\ found' = [found EXCEPT ![w] = rec]
      /\ pc' = [pc EXCEPT ![w] = "apply"]
      /\ UNCHANGED <<now, disk, lookup>>

\* No CTY database, or it does not know the callsign: lookupRecord returns what it read.
DeriveNothing(w) ==
  /\ ~panicked /\ pc[w] = "derive" /\ pc' = [pc EXCEPT ![w] = "apply"]
  /\ UNCHANGED <<now, cache, channel, disk, lookup, found>>

\* ApplyRecord if there is a record; the async worker then removes its mark.
Apply(w) ==
  /\ ~panicked /\ pc[w] = "apply"
  /\ IF found[w] = NoRecord THEN UNCHANGED cache ELSE Put(Applied(entry, found[w]))
  /\ pc' = [pc EXCEPT ![w] = "idle"] /\ found' = [found EXCEPT ![w] = NoRecord]
  /\ lookupPending' = (lookupPending /\ w # AsyncWorker)
  /\ UNCHANGED <<now, channel, disk, lookupQueue, syncQueue>>

Newer(a, b) == IF a > b THEN a ELSE b

\* mergePending: the incoming grid replaces the one that waits, the mark that says
\* whether it is derived stays.
mergePending(rec, in) ==
  [grid    |-> IF in.grid # NoGrid THEN in.grid ELSE rec.grid,
   derived |-> rec.derived,
   cty     |-> IF in.cty # NoCty THEN in.cty ELSE rec.cty,
   at      |-> Newer(rec.at, in.at)]

\* The writer takes an update.
TakeUpdate ==
  /\ ~panicked /\ writing /\ updates # <<>>
  /\ pending' = IF pending = NoRecord THEN Head(updates) ELSE mergePending(pending, Head(updates))
  /\ updates' = Tail(updates)
  /\ UNCHANGED <<now, cache, open, panicked, writing, store, lookup, pc, found>>

\* mergeRecordValue of the store (gridstore/store.go); normalizeRecordValue drops
\* the mark of a record without a grid.
mergeRecordValue(rec, in) ==
  IF rec = NoRecord THEN [in EXCEPT !.derived = @ /\ in.grid # NoGrid]
  ELSE LET keep == in.grid = NoGrid \/ (in.derived /\ rec.grid # NoGrid /\ ~rec.derived)
       IN  [grid    |-> IF keep THEN rec.grid ELSE in.grid,
            derived |-> IF keep THEN rec.derived ELSE in.derived,
            cty     |-> IF in.cty # NoCty THEN in.cty ELSE rec.cty,
            at      |-> Newer(rec.at, in.at)]

\* flush, by size, by ticker or when the channel is closed and empty
Flush ==
  /\ ~panicked /\ writing /\ pending # NoRecord
  /\ store' = mergeRecordValue(store, pending)
  /\ pending' = NoRecord
  /\ UNCHANGED <<now, cache, channel, writing, lookup, pc, found>>

\* UpsertBatch fails: the batch is dropped.
FlushFails ==
  /\ ~panicked /\ writing /\ pending # NoRecord
  /\ pending' = NoRecord
  /\ UNCHANGED <<now, cache, channel, writing, store, lookup, pc, found>>

\* The writer returns once the channel is closed and empty and the rest is flushed.
Return ==
  /\ ~panicked /\ writing /\ ~open /\ updates = <<>> /\ pending = NoRecord
  /\ writing' = FALSE
  /\ UNCHANGED <<now, cache, channel, pending, store, lookup, pc, found>>

\* PurgeOlderThan, every ttl
Purge ==
  /\ ~panicked /\ PurgeTTL > 0 /\ writing /\ store # NoRecord /\ store.at < now - PurgeTTL
  /\ store' = NoRecord
  /\ UNCHANGED <<now, cache, channel, writing, pending, lookup, pc, found>>

\* stopFn closes the updates channel first, while the pipeline and the workers may
\* still run.  The request queues are closed once the writer has returned, which
\* leaves the workers what is in them.
Stop ==
  /\ ~panicked /\ MayStop /\ open /\ open' = FALSE
  /\ UNCHANGED <<now, cache, updates, panicked, disk, lookup, pc, found>>

Writer == TakeUpdate \/ Flush \/ FlushFails \/ Return
Work(w) == TakeRequest(w) \/ Derive(w) \/ DeriveNothing(w) \/ Apply(w)

Next ==
  \/ Tick
  \/ Ingest
  \/ \E g \in Actual : GridUpdate(g)
  \/ Forget
  \/ Lookup
  \/ LookupSync
  \/ LookupAfterStop
  \/ \E w \in Workers : TakeRequest(w) \/ Derive(w) \/ DeriveNothing(w) \/ Apply(w)
  \/ TakeUpdate
  \/ Flush
  \/ FlushFails
  \/ Return
  \/ Purge
  \/ Stop

Spec == Init /\ [][Next]_vars

\* The goroutines are scheduled; store operations return.
FairSpec == Spec /\ WF_vars(Writer) /\ \A w \in Workers : WF_vars(Work(w))
-----------------------------------------------------------------------------
Records == [grid : Grids \cup {NoGrid}, derived : BOOLEAN, cty : {NoCty, FromRecord, FromDatabase}, at : 0 .. MaxTime]

TypeOK ==
  /\ now \in 0 .. MaxTime /\ cached \in BOOLEAN /\ entry \in Records
  /\ updates \in Seq(Records) /\ Len(updates) <= UpdatesCap /\ open \in BOOLEAN /\ panicked \in BOOLEAN
  /\ writing \in BOOLEAN /\ pending \in Records \cup {NoRecord} /\ store \in Records \cup {NoRecord}
  /\ lookupPending \in BOOLEAN /\ lookupQueue \in 0 .. 1 /\ syncQueue \in 0 .. SyncCap
  /\ pc \in [Workers -> {"idle", "derive", "apply"}] /\ found \in [Workers -> Records \cup {NoRecord}]

\* A callsign marked as pending has a request in the queue or with the worker, and
\* never two: a lost mark would send duplicates, a stale one would end lookups for
\* the callsign for good (lookupFn, async worker).
PendingIsInFlight ==
  lookupPending <=> (lookupQueue = 1 \/ pc[AsyncWorker] # "idle")

\* The cache never shows a derived grid in place of an actual one it still holds,
\* whatever the workers bring back late (UpdateGrid, ApplyRecord), and the store never
\* replaces an actual grid by one marked as derived (mergeRecordValue).
ActualGridKept ==
  [][/\ (cached /\ cached' /\ entry.grid # NoGrid /\ ~entry.derived /\ ~Expired(entry, now))
           => (entry'.grid # NoGrid /\ ~entry'.derived)
     /\ (store # NoRecord /\ store' # NoRecord /\ store.grid # NoGrid /\ ~store.derived)
           => ~store'.derived]_vars

\* "a final flush runs during shutdown": after stopFn the writer takes what is in
\* the channel, flushes it and ends, unless a late send ends the process.
FinalFlush == []<>(~open => (panicked \/ (~writing /\ updates = <<>> /\ pending = NoRecord)))

\* "Closes channels and waits for clean shutdown": nobody sends after the close.
ShutdownIsClean == ~panicked
=============================================================================
