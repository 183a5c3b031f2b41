-------------------------- MODULE SecondaryDeduper --------------------------
(***************************************************************************)
(* The broadcast-only deduplicator (dedup/secondary.go), one policy: the   *)
(* output stage calls ShouldForward on every spot, and a cleanup goroutine *)
(* removes expired entries, each shard under a single lock.                *)
(*                                                                         *)
(* The key has no time in it: the window is enforced by the cache alone.   *)
(* `last` and `verdict` are history variables.                             *)
(***************************************************************************)
EXTENDS Integers, FiniteSets

CONSTANTS
  Origins,         \* what is hashed of a spot: [dx, adif, grid2, zone, skimmer]
  KeyMode,         \* "grid2" or "cqzone"
  Reports, Window, PreferStronger,
  NumShards, ShardFor, CompactMinPeak,
  MaxLate,         \* bound: how far a spot's time lags the clock
  MaxTime,         \* bound: last tick of the clock
  NoEntry

Times  == 0 .. MaxTime
Shards == 0 .. (NumShards - 1)
Entries == [when : Times, snr : Reports, hasReport : BOOLEAN]

\* fixedCQZone: out-of-range zones share the zero bucket
fixedCQZone(z) == IF z <= 0 \/ z > 40 THEN 0 ELSE z

\* secondaryHash; `dx` stands for the band and the DX call, a missing grid is ""
secondaryHash(o) ==
  <<o.dx, o.adif, IF KeyMode = "cqzone" THEN fixedCQZone(o.zone) ELSE o.grid2, o.skimmer>>

Keys == {secondaryHash(o) : o \in {p \in Origins : p.adif > 0}}

ASSUME SecondaryConstants ==
  /\ Reports \subseteq Int /\ 0 \in Reports
  /\ Window \in Nat /\ PreferStronger \in BOOLEAN
  /\ NumShards \in Nat \ {0} /\ CompactMinPeak \in Nat
  /\ MaxTime \in Nat /\ MaxLate \in Nat
  /\ IsFiniteSet(Keys) /\ ShardFor \in [Keys -> Shards]
  /\ NoEntry \notin Entries

VARIABLES
  clock,
  cache,                          \* the shards' maps, as one function on keys
  peak,                           \* secondaryShard.peak
  sweepPc, sweepShard, sweepNow,  \* locals of cleanup()
  last, verdict                   \* history, see WindowFilter

sweepVars == <<sweepPc, sweepShard, sweepNow>>
vars == <<clock, cache, peak, sweepVars, last, verdict>>

-----------------------------------------------------------------------------
Abs(n) == IF n < 0 THEN -n ELSE n

\* Mutant: the window is closed at its far end.
MutIsSecondaryDuplicate(e, t) == e # NoEntry /\ Abs(t - e.when) <= Window

isSecondaryDuplicate(e, t) == e # NoEntry /\ Abs(t - e.when) < Window

Replaces(e, old) ==
  \/ e.hasReport /\ ~old.hasReport
  \/ PreferStronger /\ e.snr > old.snr

InShard(c, i) == {k \in Keys : ShardFor[k] = i /\ c[k] # NoEntry}

updateShardPeak(k, c) ==
  LET i == ShardFor[k]
      size == Cardinality(InShard(c, i))
  IN  [peak EXCEPT ![i] = IF size > @ THEN size ELSE @]

maybeCompactShard(i, c) ==
  LET size == Cardinality(InShard(c, i))
  IN  [peak EXCEPT ![i] =
         IF @ < CompactMinPeak \/ size >= @ \div 2 THEN @ ELSE size]

Init ==
  /\ clock = 0
  /\ cache = [k \in Keys |-> NoEntry]
  /\ peak = [i \in Shards |-> 0]
  /\ sweepPc = "idle" /\ sweepShard = 0 /\ sweepNow = 0
  /\ last = [k \in Keys |-> NoEntry]
  /\ verdict = [key |-> NoEntry, entry |-> NoEntry, forward |-> FALSE]

Tick ==
  /\ clock < MaxTime
  /\ clock' = clock + 1
  /\ UNCHANGED <<cache, peak, sweepVars, last, verdict>>

\* Not a duplicate, or a better one: the entry is replaced and the spot goes on.
Forward(k, e) ==
  /\ isSecondaryDuplicate(cache[k], e.when) => Replaces(e, cache[k])
  /\ cache' = [cache EXCEPT ![k] = e]
  /\ peak' = updateShardPeak(k, cache')
  /\ last' = [last EXCEPT ![k] = e]
  /\ verdict' = [key |-> k, entry |-> e, forward |-> TRUE]
  /\ UNCHANGED <<clock, sweepVars>>

Suppress(k, e) ==
  /\ isSecondaryDuplicate(cache[k], e.when) /\ ~Replaces(e, cache[k])
  /\ verdict' = [key |-> k, entry |-> e, forward |-> FALSE]
  /\ UNCHANGED <<clock, cache, peak, sweepVars, last>>

\* ShouldForward with a positive window on a spot of known DXCC (adif > 0); the
\* other calls return true and change nothing.
ShouldForward(o, e) ==
  /\ Window > 0 /\ o.adif > 0
  /\ e.when <= clock /\ clock - e.when <= MaxLate
  /\ e.hasReport \/ e.snr = 0
  /\ Forward(secondaryHash(o), e) \/ Suppress(secondaryHash(o), e)

\* The ticker fires: cleanup() reads the clock once, for all shards.
CleanupStart ==
  /\ Window > 0 /\ sweepPc = "idle"
  /\ sweepPc' = "sweep" /\ sweepShard' = 0 /\ sweepNow' = clock
  /\ UNCHANGED <<clock, cache, peak, last, verdict>>

Expired(e, now) == e # NoEntry /\ now - e.when > Window

\* The shard loop of cleanup() moves on, or the function returns.
NextShard ==
  IF sweepShard + 1 < NumShards
  THEN sweepShard' = sweepShard + 1 /\ UNCHANGED sweepPc
  ELSE sweepShard' = 0 /\ sweepPc' = "idle"

\* One shard of cleanup(): find, delete and compact under one lock.
CleanupShard ==
  /\ sweepPc = "sweep"
  /\ LET gone == {k \in Keys : ShardFor[k] = sweepShard /\ Expired(cache[k], sweepNow)}
     IN  /\ cache' = [k \in Keys |-> IF k \in gone THEN NoEntry ELSE cache[k]]
         /\ peak' = IF gone = {} THEN peak ELSE maybeCompactShard(sweepShard, cache')
  /\ NextShard
  /\ UNCHANGED <<clock, sweepNow, last, verdict>>

Next ==
  \/ Tick
  \/ \E o \in Origins, e \in Entries : ShouldForward(o, e)
  \/ CleanupStart
  \/ CleanupShard

Spec == Init /\ [][Next]_vars
-----------------------------------------------------------------------------
TypeOK ==
  /\ clock \in Times
  /\ cache \in [Keys -> Entries \cup {NoEntry}]
  /\ last \in [Keys -> Entries \cup {NoEntry}]
  /\ peak \in [Shards -> Nat]
  /\ sweepPc \in {"idle", "sweep"} /\ sweepShard \in Shards /\ sweepNow \in Times

\* The cache agrees with the last forwarded spot of every key, and forgets one
\* only when it is older than the window: cleanup and ShouldForward, in any
\* interleaving, never lose a spot that still counts.
CacheRemembersWindow ==
  \A k \in Keys :
     /\ cache[k] # NoEntry => cache[k] = last[k]
     /\ cache[k] = NoEntry => last[k] = NoEntry \/ clock - last[k].when > Window

\* Every decision of ShouldForward is one the cache-less filter would take.
Filter == INSTANCE WindowFilter
ImplementsFilter == Filter!Spec
=============================================================================
