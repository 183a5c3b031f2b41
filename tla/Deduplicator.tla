---------------------------- MODULE Deduplicator ----------------------------
(***************************************************************************)
(* The primary deduplicator (dedup/deduplicator.go): the single goroutine  *)
(* `process` reads spots from a bounded input channel, decides on each one *)
(* under the lock of a cache shard and forwards it to a bounded output     *)
(* channel; a second goroutine, `cleanupLoop`, periodically removes        *)
(* expired entries, shard by shard, in two separately locked phases.       *)
(*                                                                         *)
(* Time is discrete.  A spot carries its own time stamp, which may lag the *)
(* clock by up to MaxLate.  `last` and `offered` are history variables: no *)
(* code reads them.                                                        *)
(***************************************************************************)
EXTENDS Integers, Sequences, FiniteSets

CONSTANTS
  Calls,           \* (DE call, DX call, whole kHz) triples, see Hash32
  Reports,         \* signal reports a spot may carry
  Window,          \* dedup.cluster_window_seconds
  PreferStronger,  \* dedup.prefer_stronger_snr
  Minute,          \* length of a minute in ticks: Hash32 truncates to it
  NumShards,       \* shardCount
  ShardFor,        \* hash & (shardCount - 1), as a function on hashes
  CompactMinPeak,  \* dedupCompactMinPeak
  InCap, OutCap,   \* capacities of inputChan and outputChan
  MaxLate,         \* bound: how far a spot's time lags the clock
  MaxTime,         \* bound: last tick of the clock
  MaxSpots,        \* bound: number of spots offered to the input
  NoEntry          \* "hash not in the cache"

Times  == 0 .. MaxTime
Shards == 0 .. (NumShards - 1)
Hashes == Calls \X (0 .. (MaxTime \div Minute))
Entries == [when : Times, snr : Reports, hasReport : BOOLEAN]
Spots  == [call : Calls, time : Times, report : Reports, hasReport : BOOLEAN]

DedupConstants ==
  /\ Reports \subseteq Int /\ 0 \in Reports
  /\ Window \in Nat /\ PreferStronger \in BOOLEAN
  /\ Minute \in Nat \ {0} /\ NumShards \in Nat \ {0}
  /\ MaxTime \in Nat /\ MaxLate \in Nat /\ MaxSpots \in Nat
  /\ InCap \in Nat \ {0} /\ OutCap \in Nat \ {0} /\ CompactMinPeak \in Nat
  /\ ShardFor \in [Hashes -> Shards]
  /\ NoEntry \notin Entries

VARIABLES
  clock,       \* time.Now()
  input,       \* inputChan
  output,      \* outputChan
  cache,       \* the shards' maps, as one function on hashes
  peak,        \* cacheShard.peak
  processed,   \* sum of the shards' processedCount
  duplicates,  \* sum of the shards' duplicateCount
  running,     \* the process goroutine has not returned
  sweeping,    \* the cleanupLoop goroutine has not returned
  shutdown,    \* the shutdown channel is closed
  sweepPc, sweepShard, sweepNow, toDelete,  \* locals of cleanup()
  last,        \* history: the entry of the last accepted spot per hash
  offered      \* history: spots offered to inputChan

queues == <<input, output>>
sweepVars == <<sweepPc, sweepShard, sweepNow, toDelete>>
life == <<running, sweeping, shutdown>>
counters == <<processed, duplicates>>
vars == <<clock, queues, cache, peak, counters, life, sweepVars, last, offered>>

-----------------------------------------------------------------------------
\* Spot.Hash32: the calls, the whole-kHz frequency and the time truncated to
\* the minute.  Collisions of the 32-bit hash are left out.
Hash32(s) == <<s.call, s.time \div Minute>>

EntryOf(s) == [when |-> s.time, snr |-> s.report, hasReport |-> s.hasReport]

Abs(n) == IF n < 0 THEN -n ELSE n

\* Mutant: the window is closed at its far end.
MutIsDuplicate(e, t) == e # NoEntry /\ Abs(t - e.when) <= Window

isDuplicate(e, t) == e # NoEntry /\ Abs(t - e.when) < Window

\* upgradeToReported || stronger
Replaces(s, e) ==
  \/ s.hasReport /\ ~e.hasReport
  \/ PreferStronger /\ s.report > e.snr

InShard(c, i) == {h \in Hashes : ShardFor[h] = i /\ c[h] # NoEntry}

\* updateShardPeakLocked, on the shard of hash h
updateShardPeak(h, c) ==
  LET i == ShardFor[h]
      size == Cardinality(InShard(c, i))
  IN  [peak EXCEPT ![i] = IF size > @ THEN size ELSE @]

\* The cached entry is replaced and the shard's peak updated.
Remember(h, e) ==
  /\ cache' = [cache EXCEPT ![h] = e]
  /\ peak' = updateShardPeak(h, cache')

\* maybeCompactShardLocked: the map is rebuilt with the same content
maybeCompactShard(i, c) ==
  LET size == Cardinality(InShard(c, i))
  IN  [peak EXCEPT ![i] =
         IF @ < CompactMinPeak \/ size >= @ \div 2 THEN @ ELSE size]

Expired(e, now) == e # NoEntry /\ now - e.when > Window

Init ==
  /\ clock = 0 /\ input = <<>> /\ output = <<>>
  /\ cache = [h \in Hashes |-> NoEntry]
  /\ peak = [i \in Shards |-> 0]
  /\ processed = 0 /\ duplicates = 0
  /\ running = TRUE /\ sweeping = TRUE /\ shutdown = FALSE
  /\ sweepPc = "idle" /\ sweepShard = 0 /\ sweepNow = 0 /\ toDelete = {}
  /\ last = [h \in Hashes |-> NoEntry]
  /\ offered = 0

Tick ==
  /\ clock < MaxTime
  /\ clock' = clock + 1
  /\ UNCHANGED <<queues, cache, peak, counters, life, sweepVars, last, offered>>

\* The ingest gate hands a validated spot over without blocking: when the
\* channel is full the spot is dropped.  A spot without a report has report 0.
Offer(s) ==
  /\ offered < MaxSpots
  /\ s.time <= clock /\ clock - s.time <= MaxLate
  /\ s.hasReport \/ s.report = 0
  /\ input' = IF Len(input) < InCap THEN Append(input, s) ELSE input
  /\ offered' = offered + 1
  /\ UNCHANGED <<clock, output, cache, peak, counters, life, sweepVars, last>>

\* One turn of `process` with its call of processSpot: the locked section, then
\* the non-blocking send.  No other goroutine sends to outputChan, so the two
\* are one step.
processSpot ==
  /\ running /\ input # <<>>
  /\ LET s == Head(input)
         h == Hash32(s)
     IN  /\ input' = Tail(input)
         /\ processed' = processed + 1
         /\ IF isDuplicate(cache[h], s.time) /\ ~Replaces(s, cache[h])
            THEN /\ duplicates' = duplicates + 1
                 /\ UNCHANGED <<output, cache, peak, last>>
            ELSE /\ Remember(h, EntryOf(s))
                 /\ last' = [last EXCEPT ![h] = EntryOf(s)]
                 /\ output' = IF Len(output) < OutCap THEN Append(output, s) ELSE output
                 /\ UNCHANGED duplicates
  /\ UNCHANGED <<clock, life, sweepVars, offered>>

\* The output stage takes the next spot.
Consume ==
  /\ output # <<>>
  /\ output' = Tail(output)
  /\ UNCHANGED <<clock, input, cache, peak, counters, life, sweepVars, last, offered>>

\* The shard loop of cleanup() moves on, or the function returns.
NextShard ==
  IF sweepShard + 1 < NumShards
  THEN sweepShard' = sweepShard + 1 /\ sweepPc' = "collect"
  ELSE sweepShard' = 0 /\ sweepPc' = "idle"

\* The ticker of cleanupLoop fires: cleanup() reads the clock once.
CleanupStart ==
  /\ sweeping /\ sweepPc = "idle"
  /\ sweepPc' = "collect" /\ sweepShard' = 0 /\ sweepNow' = clock /\ toDelete' = {}
  /\ UNCHANGED <<clock, queues, cache, peak, counters, life, last, offered>>

\* Phase 1: collect expired keys under the lock, then release it.
CollectExpired ==
  /\ sweepPc = "collect"
  /\ toDelete' = {h \in Hashes : ShardFor[h] = sweepShard /\ Expired(cache[h], sweepNow)}
  /\ IF toDelete' = {}
     THEN NextShard
     ELSE sweepPc' = "delete" /\ UNCHANGED sweepShard
  /\ UNCHANGED <<clock, queues, cache, peak, counters, life, sweepNow, last, offered>>

\* Phase 2: delete the collected keys under a new lock, whatever they hold now.
DeleteCollected ==
  /\ sweepPc = "delete"
  /\ cache' = [h \in Hashes |-> IF h \in toDelete THEN NoEntry ELSE cache[h]]
  /\ peak' = maybeCompactShard(sweepShard, cache')
  /\ toDelete' = {}
  /\ NextShard
  /\ UNCHANGED <<clock, queues, counters, life, sweepNow, last, offered>>

Stop ==
  /\ ~shutdown
  /\ shutdown' = TRUE
  /\ UNCHANGED <<clock, queues, cache, peak, counters, running, sweeping, sweepVars, last, offered>>

\* The select of `process` takes the closed shutdown channel.
ProcessReturns ==
  /\ shutdown /\ running
  /\ running' = FALSE
  /\ UNCHANGED <<clock, queues, cache, peak, counters, sweeping, shutdown, sweepVars, last, offered>>

\* The select of cleanupLoop takes the closed shutdown channel.
CleanupReturns ==
  /\ shutdown /\ sweeping /\ sweepPc = "idle"
  /\ sweeping' = FALSE
  /\ UNCHANGED <<clock, queues, cache, peak, counters, running, shutdown, sweepVars, last, offered>>

Cleanup == CleanupStart \/ CollectExpired \/ DeleteCollected

Next ==
  \/ Tick
  \/ \E s \in Spots : Offer(s)
  \/ processSpot
  \/ Consume
  \/ CleanupStart
  \/ CollectExpired
  \/ DeleteCollected
  \/ Stop
  \/ ProcessReturns
  \/ CleanupReturns

\* Both goroutines are scheduled; the ticker keeps firing; the output stage
\* keeps reading.
Fairness ==
  /\ WF_vars(processSpot) /\ WF_vars(Consume) /\ WF_vars(Cleanup)
  /\ WF_vars(CleanupReturns)

Spec == Init /\ [][Next]_vars
FairSpec == Spec /\ Fairness

-----------------------------------------------------------------------------
TypeOK ==
  /\ clock \in Times /\ offered \in 0 .. MaxSpots
  /\ input \in Seq(Spots) /\ output \in Seq(Spots)
  /\ Len(input) <= InCap /\ Len(output) <= OutCap
  /\ cache \in [Hashes -> Entries \cup {NoEntry}]
  /\ last \in [Hashes -> Entries \cup {NoEntry}]
  /\ peak \in [Shards -> Nat]
  /\ processed \in Nat /\ duplicates \in Nat
  /\ running \in BOOLEAN /\ sweeping \in BOOLEAN /\ shutdown \in BOOLEAN
  /\ sweepPc \in {"idle", "collect", "delete"} /\ sweepShard \in Shards
  /\ sweepNow \in Times /\ toDelete \in SUBSET Hashes

\* A spot is only suppressed because the last accepted spot with its hash is
\* less than Window away and at least as good: cleanup, late spots and
\* replacements never make processSpot swallow a new spot.
SuppressionJustified ==
  [][\A s \in Spots :
       input # <<>> /\ s = Head(input) /\ duplicates' = duplicates + 1
       => LET e == last[Hash32(s)]
          IN  /\ e # NoEntry
              /\ s.time - e.when < Window /\ e.when - s.time < Window
              /\ e.hasReport \/ ~s.hasReport
              /\ PreferStronger => e.snr >= s.report]_vars

\* With the ticker running, expired entries leave the cache or are refreshed, again
\* and again: it stays bounded by the recent traffic (cleanupLoop).
ExpiredIsEvicted == []<>(shutdown \/ \A h \in Hashes : ~Expired(cache[h], clock))
=============================================================================
