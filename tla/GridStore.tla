----------------------------- MODULE GridStore ------------------------------
(***************************************************************************)
(* The store of grids and known calls (gridstore/store.go): a record per   *)
(* callsign, an index of the records by the time they were updated, and    *)
(* their number, which the database and the memory both hold.  Requests go *)
(* through a channel to one writer.  An upsert is one batch, committed     *)
(* with Sync; clearing the known flags and purging old records take a      *)
(* batch per BatchCap records, and the process may die, or a commit fail,  *)
(* between two of them.                                                    *)
(***************************************************************************)
EXTENDS Integers, Sequences, FiniteSets

CONSTANTS
  Calls,
  Incoming,        \* records to write: [known, grid, derived, cty, observations, first, updated, expires]
  QueueDepth,      \* defaultWriteQueueDepth
  BatchCap,        \* maintenanceBatchCap
  NoRecord,
  MaxTime, MaxRequests, MaxCrashes, MaxFailures   \* bounds

Recs == [known : BOOLEAN, grid : STRING, derived : BOOLEAN, cty : STRING, observations : Nat,
         first : Nat, updated : Nat, expires : Nat]

\* What the constants are
StoreConstants ==
  /\ IsFiniteSet(Calls) /\ BatchCap \in Nat \ {0}
  /\ Incoming \subseteq Recs /\ NoRecord \notin Recs

VARIABLES
  records,         \* call -> record or NoRecord       \
  index,           \* set of [updated, call] keys       > on disk
  metaCount,       \* meta|count, Missing when absent  /
  count,           \* Store.count, in memory
  queue, closed,   \* the writes channel
  job,             \* the request the writer is at
  running,         \* whether the store is open
  now, requests, crashes, failures,
  miscounted       \* history: a purge failed after one of its batches was committed

disk == <<records, index, metaCount>>
bounds == <<now, crashes, failures>>
vars == <<records, index, metaCount, count, queue, closed, job, running, requests, bounds, miscounted>>

Missing == -1
NoJob == [kind |-> "none"]
Zero == 0          \* the zero time, and the epoch
Keys == [updated : Nat, call : Calls]
Stored == {c \in Calls : records[c] # NoRecord}
KeyOf(c) == [updated |-> records[c].updated, call |-> c]

Init ==
  /\ records = [c \in Calls |-> NoRecord] /\ index = {} /\ metaCount = Missing
  /\ count = 0 /\ queue = <<>> /\ closed = FALSE /\ job = NoJob /\ running = FALSE
  /\ now = 1 /\ requests = 0 /\ crashes = 0 /\ failures = 0 /\ miscounted = FALSE

Tick == now < MaxTime /\ now' = now + 1
        /\ UNCHANGED <<disk, count, queue, closed, job, running, requests, crashes, failures, miscounted>>

\* The number on disk, or what a scan counts
loadCount == IF metaCount = Missing THEN Cardinality(Stored) ELSE metaCount

Open ==
  /\ ~running /\ running' = TRUE
  /\ metaCount' = loadCount /\ count' = loadCount
  /\ queue' = <<>> /\ closed' = FALSE /\ job' = NoJob
  /\ UNCHANGED <<records, index, requests, bounds, miscounted>>

\* The process dies; what was not committed is gone.
Crash ==
  /\ running /\ crashes < MaxCrashes /\ crashes' = crashes + 1
  /\ running' = FALSE /\ queue' = <<>> /\ job' = NoJob
  /\ UNCHANGED <<disk, count, closed, requests, now, failures, miscounted>>

\* Close: no more requests; the writer finishes the ones that wait, then the database closes.
closeWriter ==
  /\ running /\ ~closed /\ closed' = TRUE
  /\ UNCHANGED <<disk, count, queue, job, running, requests, bounds, miscounted>>

Close ==
  /\ running /\ closed /\ queue = <<>> /\ job = NoJob /\ running' = FALSE
  /\ UNCHANGED <<disk, count, queue, closed, job, requests, bounds, miscounted>>

enqueue(req) ==
  /\ running /\ ~closed /\ Len(queue) < QueueDepth
  /\ requests < MaxRequests /\ requests' = requests + 1
  /\ queue' = Append(queue, req)
  /\ UNCHANGED <<disk, count, closed, job, running, bounds, miscounted>>

\* UpsertBatch: its callers pass each callsign once.
UpsertBatch == \E S \in SUBSET Calls \ {{}} : \E recs \in [S -> Incoming] :
                 enqueue([kind |-> "upsert", recs |-> recs])
ClearKnownFlags == enqueue([kind |-> "clear"])
PurgeOlderThan == \E cutoff \in 1..now : enqueue([kind |-> "purge", cutoff |-> cutoff])
-----------------------------------------------------------------------------
\* A time that is not set is the time of the write; a derived mark needs a grid.
normalizeRecordValue(rec) ==
  LET updated == IF rec.updated = Zero THEN now ELSE rec.updated
  IN  [rec EXCEPT !.updated = updated,
                  !.first = IF @ = Zero THEN updated ELSE @,
                  !.derived = @ /\ rec.grid # ""]

\* What is known stays known, a derived grid does not replace an actual one, and the times
\* of the first and the last report only widen.
mergeRecordValue(old, in) ==
  LET keepGrid == in.grid = "" \/ (in.derived /\ old.grid # "" /\ ~old.derived)
  IN  IF old = NoRecord THEN in
      ELSE [in EXCEPT !.known = @ \/ old.known,
                      !.grid = IF keepGrid THEN old.grid ELSE @,
                      !.derived = IF keepGrid THEN old.derived ELSE @,
                      !.cty = IF @ = "" THEN old.cty ELSE @,
                      !.observations = @ + old.observations,
                      !.first = IF old.first < @ THEN old.first ELSE @,
                      !.updated = IF old.updated > @ THEN old.updated ELSE @,
                      !.expires = IF @ = Zero THEN old.expires ELSE @]

\* encodeRecordValue and decodeRecordValue: without a grid, its derived mark is lost.
Decoded(rec) == [rec EXCEPT !.derived = @ /\ rec.grid # ""]

Merged(recs, c) ==
  IF c \in DOMAIN recs THEN Decoded(mergeRecordValue(records[c], normalizeRecordValue(recs[c])))
  ELSE records[c]

\* Mutant: the key of the time before stays in the index.
MutStaleKeys(recs) == {}

\* The keys a batch deletes from the index, and the ones it sets
StaleKeys(recs) ==
  {KeyOf(c) : c \in {d \in DOMAIN recs : records[d] # NoRecord /\ Merged(recs, d).updated # records[d].updated}}

NewKeys(recs) == {[updated |-> Merged(recs, c).updated, call |-> c] : c \in DOMAIN recs}

\* applyUpsertBatch
Upsert(recs) ==
  LET added == Cardinality({c \in DOMAIN recs : records[c] = NoRecord})
  IN  /\ records' = [c \in Calls |-> Merged(recs, c)]
      /\ index' = (index \ StaleKeys(recs)) \union NewKeys(recs)
      /\ IF added = 0 THEN UNCHANGED <<metaCount, count>>
         ELSE metaCount' = count + added /\ count' = count + added
-----------------------------------------------------------------------------
\* The writer takes a request: an upsert is done at once, the others look at their keys.
Take ==
  /\ running /\ job = NoJob /\ queue # <<>> /\ queue' = Tail(queue)
  /\ LET req == Head(queue)
     IN  \/ /\ req.kind = "upsert" /\ Upsert(req.recs) /\ job' = NoJob
         \/ /\ req.kind = "clear" /\ UNCHANGED <<disk, count>>
            /\ job' = [kind |-> "clear", left |-> {c \in Stored : records[c].known}]
         \/ /\ req.kind = "purge" /\ UNCHANGED <<disk, count>>
            /\ job' = [kind |-> "purge", left |-> {k \in index : k.updated <= req.cutoff}, count |-> count]
  /\ UNCHANGED <<closed, running, requests, bounds, miscounted>>

\* The next BatchCap of them, at the end fewer; the order of the keys is left open.
Batches(left) == {S \in SUBSET left : \/ Cardinality(S) = BatchCap
                                      \/ S = left /\ Cardinality(S) < BatchCap}

\* applyClearKnownFlags
CommitClear ==
  /\ running /\ job.kind = "clear"
  /\ \E S \in Batches(job.left) :
       /\ records' = [c \in Calls |-> IF c \in S THEN [records[c] EXCEPT !.known = FALSE] ELSE records[c]]
       /\ job' = IF S = job.left THEN NoJob ELSE [job EXCEPT !.left = @ \ S]
  /\ UNCHANGED <<index, metaCount, count, queue, closed, running, requests, bounds, miscounted>>

\* applyPurgeOlderThan: each batch holds the new number; the memory gets it after the last.
CommitPurge ==
  /\ running /\ job.kind = "purge"
  /\ \E S \in Batches(job.left) :
       /\ index' = index \ S
       /\ records' = [c \in Calls |-> IF \E k \in S : k.call = c THEN NoRecord ELSE records[c]]
       /\ metaCount' = IF S = {} THEN metaCount ELSE job.count - Cardinality(S)
       /\ IF S = job.left THEN job' = NoJob /\ count' = job.count - Cardinality(S)
          ELSE job' = [job EXCEPT !.left = @ \ S, !.count = @ - Cardinality(S)] /\ UNCHANGED count
  /\ UNCHANGED <<queue, closed, running, requests, bounds, miscounted>>

\* A commit fails, and the request with it.
CommitFails ==
  /\ running /\ failures < MaxFailures /\ failures' = failures + 1
  /\ \/ /\ job # NoJob /\ job' = NoJob /\ UNCHANGED queue
        /\ miscounted' = (miscounted \/ (job.kind = "purge" /\ job.count # count))
     \/ /\ job = NoJob /\ queue # <<>> /\ Head(queue).kind = "upsert"
        /\ queue' = Tail(queue) /\ UNCHANGED <<job, miscounted>>
  /\ UNCHANGED <<disk, count, closed, running, requests, now, crashes>>

Next ==
  \/ Tick \/ Open \/ Crash \/ closeWriter \/ Close
  \/ UpsertBatch \/ ClearKnownFlags \/ PurgeOlderThan
  \/ Take \/ CommitClear \/ CommitPurge \/ CommitFails

Spec == Init /\ [][Next]_vars
-----------------------------------------------------------------------------
\* The index holds exactly the current time of every record, whatever was committed when
\* the process died or a commit failed: a purge finds every old record and deletes none
\* that was updated since (applyUpsertBatch, applyPurgeOlderThan).
IndexExact == index = {KeyOf(c) : c \in Stored}

\* The number on disk is the number of records, until a purge fails half way.
CountExact == ~miscounted /\ metaCount # Missing => metaCount = Cardinality(Stored)

\* The store answers for its records: both of these.
StoreIsConsistent == IndexExact /\ CountExact
=============================================================================
