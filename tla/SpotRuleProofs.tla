--------------------------- MODULE SpotRuleProofs ---------------------------
(***************************************************************************)
(* For every set of origins, window, number of shards and bound on time:   *)
(* the secondary deduplicator's cache remembers what the window needs, and *)
(* its decisions are those of the cache-less WindowFilter.                 *)
(*                                                                         *)
(* For every number of goroutines that look up, every sequence of licence  *)
(* databases and every cache: a refusal rests on a database that was in    *)
(* use not longer ago than the cache keeps an answer.                      *)
(*                                                                         *)
(* The reports a correction needs, for any bands, reporters, periods and   *)
(* hysteresis: a group changes its state only on enough evaluations in a   *)
(* row.                                                                    *)
(***************************************************************************)
EXTENDS SecondaryDeduper, Sequences, TLAPS, FiniteSetTheorems

\* The sweep works with a clock reading that is not in the future.
SweepNowPast == sweepNow <= clock

\* The inductive invariant: types, the cache against the history, the sweep.
IInv == TypeOK /\ CacheRemembersWindow /\ SweepNowPast

\* The number of entries of a shard is a number, so the peak stays one.
LEMMA ShardSize == \A c, i : Cardinality(InShard(c, i)) \in Nat
  BY SecondaryConstants, FS_Subset, FS_CardinalityType DEF InShard

\* The key that ShouldForward computes is one of the cache's keys.
LEMMA HashIsKey ==
  ASSUME NEW o \in Origins, o.adif > 0
  PROVE  secondaryHash(o) \in Keys
  BY DEF Keys

\* The empty cache remembers all there is to remember.
LEMMA InitInv == Init => IInv
  BY SecondaryConstants DEF Init, IInv, TypeOK, CacheRemembersWindow, SweepNowPast, Times, Shards

\* Time passing makes entries older, never the window longer.
LEMMA TickInv == IInv /\ Tick => IInv'
  BY SecondaryConstants
  DEF Tick, IInv, TypeOK, CacheRemembersWindow, SweepNowPast, Times, Entries, sweepVars

\* A decision changes the cache and the history together, or neither.
LEMMA ShouldForwardInv ==
  ASSUME IInv, NEW o \in Origins, NEW e \in Entries, ShouldForward(o, e)
  PROVE  IInv'
  <1> DEFINE k == secondaryHash(o)
  <1>1. k \in Keys /\ ShardFor[k] \in Shards
    BY HashIsKey, SecondaryConstants DEF ShouldForward
  <1> HIDE DEF k
  <1>2. CASE Forward(k, e)
    <2>1. peak' \in [Shards -> Nat]
      BY <1>1, <1>2, ShardSize DEF Forward, updateShardPeak, IInv, TypeOK
    <2>2. TypeOK'
      BY <1>1, <1>2, <2>1, Zenon DEF Forward, IInv, TypeOK, sweepVars
    <2>3. CacheRemembersWindow'
      BY <1>1, <1>2, SecondaryConstants DEF Forward, IInv, TypeOK, CacheRemembersWindow
    <2> QED
      BY <1>2, <2>2, <2>3 DEF Forward, IInv, SweepNowPast, sweepVars
  <1>3. CASE Suppress(k, e)
    BY <1>3 DEF Suppress, IInv, TypeOK, CacheRemembersWindow, SweepNowPast, sweepVars
  <1> QED
    BY <1>2, <1>3 DEF ShouldForward, k

\* A sweep starts with the time of the moment.
LEMMA CleanupStartInv == IInv /\ CleanupStart => IInv'
  BY SecondaryConstants
  DEF CleanupStart, IInv, TypeOK, CacheRemembersWindow, SweepNowPast, Times, Shards

\* A sweep of one shard forgets only what has left the window.
LEMMA CleanupShardInv == IInv /\ CleanupShard => IInv'
  <1> SUFFICES ASSUME IInv, CleanupShard PROVE IInv'
    OBVIOUS
  <1>1. peak' \in [Shards -> Nat]
    <2>1. \A c : maybeCompactShard(sweepShard, c) \in [Shards -> Nat]
      BY ShardSize DEF maybeCompactShard, IInv, TypeOK
    <2> QED
      BY <2>1 DEF CleanupShard, NextShard, IInv, TypeOK
  <1>2. TypeOK'
    BY <1>1, SecondaryConstants, SMTT(30) DEF CleanupShard, NextShard, IInv, TypeOK, Shards
  <1>3. CacheRemembersWindow'
    BY SecondaryConstants
    DEF CleanupShard, NextShard, IInv, TypeOK, CacheRemembersWindow, SweepNowPast, Expired, Times, Entries
  <1> QED
    BY <1>2, <1>3 DEF CleanupShard, NextShard, IInv, SweepNowPast

\* Every step keeps the inductive invariant.
LEMMA NextInv == IInv /\ [Next]_vars => IInv'
  <1> SUFFICES ASSUME IInv, [Next]_vars PROVE IInv'
    OBVIOUS
  <1>1. CASE UNCHANGED vars
    BY <1>1 DEF vars, sweepVars, IInv, TypeOK, CacheRemembersWindow, SweepNowPast
  <1>2. CASE Next
    BY <1>2, TickInv, ShouldForwardInv, CleanupStartInv, CleanupShardInv DEF Next
  <1> QED
    BY <1>1, <1>2

\* The inductive invariant holds in every reachable state.
THEOREM Invariance == Spec => []IInv
  BY InitInv, NextInv, PTL DEF Spec

\* Types are preserved by ShouldForward and by every step of cleanup.
THEOREM TypeCorrect == Spec => []TypeOK
  BY Invariance, PTL DEF IInv

\* No interleaving of ShouldForward with the shard-by-shard cleanup makes the
\* cache lose or falsify a spot that is still inside the window.
THEOREM CacheCorrect == Spec => []CacheRemembersWindow
  BY Invariance, PTL DEF IInv

-----------------------------------------------------------------------------
\* Before the first spot nothing is forwarded and nothing forgotten.
LEMMA InitRefines == Init => Filter!Init
  BY DEF Init, Filter!Init, Filter!NoVerdict

\* ShouldForward takes a step of the window filter; the cleanup takes none.
LEMMA NextRefines == IInv /\ [Next]_vars => [Filter!Next]_(Filter!vars)
  <1> SUFFICES ASSUME IInv, [Next]_vars PROVE [Filter!Next]_(Filter!vars)
    OBVIOUS
  <1>1. CASE UNCHANGED vars
    BY <1>1 DEF vars, Filter!vars
  <1>2. CASE Tick
    BY <1>2 DEF Tick, Filter!Next, Filter!Tick
  <1>3. CASE CleanupStart \/ CleanupShard
    BY <1>3 DEF CleanupStart, CleanupShard, NextShard, Filter!vars
  <1>4. ASSUME NEW o \in Origins, NEW e \in Entries, ShouldForward(o, e)
        PROVE  Filter!Next
    <2> DEFINE k == secondaryHash(o)
    <2>1. k \in Keys
      BY <1>4, HashIsKey DEF ShouldForward
    <2> HIDE DEF k
    <2>2. e \in Filter!Entries
      BY DEF Entries, Filter!Entries, Times
    <2>3. CASE Forward(k, e)
      <3>1. Filter!MayForward(k, e)
        BY <2>1, <2>3, SecondaryConstants
        DEF Forward, IInv, TypeOK, CacheRemembersWindow, isSecondaryDuplicate, Replaces, Abs,
            Entries, Times, Filter!MayForward, Filter!Close, Filter!Better, Filter!Forgotten
      <3> QED
        BY <2>1, <2>2, <2>3, <3>1, Zenon DEF Forward, Filter!Forward, Filter!Next
    <2>4. CASE Suppress(k, e)
      <3>1. Filter!MaySuppress(k, e)
        BY <2>1, <2>4, SecondaryConstants
        DEF Suppress, IInv, TypeOK, CacheRemembersWindow, isSecondaryDuplicate, Replaces, Abs,
            Entries, Times, Filter!MaySuppress, Filter!Close, Filter!Better
      <3> QED
        BY <2>1, <2>2, <2>4, <3>1, Zenon DEF Suppress, Filter!Suppress, Filter!Next
    <2> QED
      BY <1>4, <2>3, <2>4 DEF ShouldForward, k
  <1> QED
    BY <1>1, <1>2, <1>3, <1>4 DEF Next

\* The secondary deduplicator, with its cache, shards and cleanup, takes only
\* decisions the abstract window filter allows.
THEOREM Refinement == Spec => ImplementsFilter
  BY InitRefines, NextRefines, Invariance, PTL DEF Spec, ImplementsFilter, Filter!Spec

-----------------------------------------------------------------------------
(* The licence lookups *)

CONSTANTS Threads, Calls, Archives, TTL, Slots, Present, MaxLookups

VARIABLES
  lClock, lookups, dbFile, path, dead, refreshActive, once, handle, entries, slots, hand,
  refresh, thread, inPlace

Lic == INSTANCE LicenseDB WITH clock <- lClock

\* The databases that are built, in their order
Versions == 1 .. Len(Archives)

\* A database that lacks the call could still be read at the given time.
Backed(times, c, time) ==
  \E v \in Versions : times[v] >= 0 /\ times[v] >= time /\ c \notin Lic!Licensed(v)

\* What a goroutine that looks up can hold
Lookups == [step : {"idle", "open", "query", "store", "done"}, call : Calls \cup {""},
            at : Nat, gen : Nat, allow : BOOLEAN]

\* Types of what the argument is about
LicenceTypes ==
  /\ lClock \in Nat
  /\ inPlace \in [Versions -> Int]
  /\ dbFile \in {0} \cup Versions
  /\ handle \in [open : BOOLEAN, conn : {0} \cup Versions, gen : Nat]
  /\ refresh \in [step : {"waiting", "extract", "build", "swap", "finish"}, version : Nat \ {0}]
  /\ thread \in [Threads -> Lookups]
  /\ DOMAIN entries = Calls

\* A rebuild under way has an archive, and the database file and the one the open connection
\* reads can be read now.
FilesInPlace ==
  /\ \A v \in Versions : inPlace[v] <= lClock
  /\ refresh.step \in {"extract", "build", "swap"} => refresh.version \in Versions
  /\ dbFile # 0 => inPlace[dbFile] = lClock
  /\ handle.open /\ handle.conn # 0 => inPlace[handle.conn] = lClock

\* A refusal that a lookup is about to store rests on a database that could be read when it was
\* asked for; one it returns, on one that could be read TTL earlier.
LookupBacked(times, now, l) ==
  /\ l.at <= now
  /\ l.step # "idle" => l.call \in Calls
  /\ l.step \in {"open", "query"} => l.allow
  /\ l.step = "store" /\ ~l.allow => Backed(times, l.call, l.at)
  /\ l.step = "done" /\ ~l.allow => Backed(times, l.call, l.at - TTL)

\* A refusal in the cache rests on a database that could be read at the time of its entry.
EntryBacked(times, c, e) ==
  /\ DOMAIN e = {"value", "at", "used", "slot"}
  /\ e.value \in BOOLEAN /\ e.at \in Nat \cup {-1}
  /\ e.at # -1 /\ ~e.value => Backed(times, c, e.at)

\* The inductive invariant: every refusal on its way is backed.
LicenceInv ==
  /\ LicenceTypes /\ FilesInPlace
  /\ \A t \in Threads : LookupBacked(inPlace, lClock, thread[t])
  /\ \A c \in Calls : EntryBacked(inPlace, c, entries[c])

\* A goroutine that does not look up refuses nothing.
LEMMA IdleBacked == \A times, now : now \in Nat => LookupBacked(times, now, Lic!Idle)
  <1>1. Lic!Idle.step = "idle" /\ Lic!Idle.at = 0
    BY DEF Lic!Idle
  <1> QED BY <1>1 DEF LookupBacked

\* An empty entry of the cache refuses nothing.
LEMMA EmptyBacked == \A times, c : EntryBacked(times, c, Lic!NoAnswer)
  BY DEF EntryBacked, Lic!NoAnswer, Lic!Never

\* At startup nothing is refused.
LEMMA LicenceInit == ASSUME Lic!LicenceConstants, Lic!Init PROVE LicenceInv
  <1> USE DEF Lic!LicenceConstants, Lic!Init, Versions
  <1>1. LicenceTypes
    <2>1. inPlace \in [Versions -> Int]
      BY DEF Lic!Never
    <2>2. dbFile \in {0} \cup Versions /\ refresh.version \in Nat \ {0}
      OBVIOUS
    <2>3. handle \in [open : BOOLEAN, conn : {0} \cup Versions, gen : Nat]
      BY DEF Lic!NoHandle
    <2> QED BY <2>1, <2>2, <2>3 DEF LicenceTypes, Lic!Idle, Lookups, Lic!EmptyCache
  <1>2. FilesInPlace
    <2>1. dbFile # 0 => inPlace[dbFile] = lClock
      OBVIOUS
    <2>2. \A v \in Versions : inPlace[v] <= lClock
      BY DEF Lic!Never
    <2> QED BY <2>1, <2>2 DEF FilesInPlace, Lic!NoHandle
  <1>3. ASSUME NEW t \in Threads PROVE LookupBacked(inPlace, lClock, thread[t])
    <2>1. thread[t] = Lic!Idle
      OBVIOUS
    <2> QED BY <2>1, IdleBacked
  <1>4. ASSUME NEW c \in Calls PROVE EntryBacked(inPlace, c, entries[c])
    <2>1. entries[c] = Lic!NoAnswer
      BY DEF Lic!EmptyCache
    <2> QED BY <2>1, EmptyBacked
  <1> QED BY <1>1, <1>2, <1>3, <1>4, SMTT(30) DEF LicenceInv

\* What backs a refusal goes on backing it while the times only grow.
LEMMA BackingLasts ==
  ASSUME NEW old \in [Versions -> Int], NEW new \in [Versions -> Int],
         \A v \in Versions : new[v] >= old[v],
         NEW c, NEW time \in Int, Backed(old, c, time)
  PROVE  Backed(new, c, time)
  BY DEF Backed

\* The same for what a lookup holds, while time passes
LEMMA LookupLasts ==
  ASSUME Lic!LicenceConstants, NEW old \in [Versions -> Int], NEW new \in [Versions -> Int],
         \A v \in Versions : new[v] >= old[v],
         NEW now \in Nat, NEW later \in Nat, later >= now,
         NEW l \in Lookups, LookupBacked(old, now, l)
  PROVE  LookupBacked(new, later, l)
  <1>1. l.at \in Nat /\ TTL \in Nat
    BY DEF Lookups, Lic!LicenceConstants
  <1>2. l.at \in Int /\ l.at - TTL \in Int
    BY <1>1
  <1>3. \A time \in Int : Backed(old, l.call, time) => Backed(new, l.call, time)
    BY BackingLasts
  <1>4. l.at <= now
    BY Zenon DEF LookupBacked
  <1>5. l.at <= later
    BY <1>2, <1>4
  <1> QED BY <1>2, <1>3, <1>5, Zenon DEF LookupBacked

\* and for an entry of the cache.
LEMMA EntryLasts ==
  ASSUME NEW old \in [Versions -> Int], NEW new \in [Versions -> Int],
         \A v \in Versions : new[v] >= old[v],
         NEW c, NEW e, EntryBacked(old, c, e)
  PROVE  EntryBacked(new, c, e)
  <1>1. \A time \in Int : Backed(old, c, time) => Backed(new, c, time)
    BY BackingLasts
  <1> QED BY <1>1 DEF EntryBacked

\* Steps of the scheduler that leave lookups and cache alone keep every refusal backed.
LEMMA QuietSteps ==
  ASSUME Lic!LicenceConstants, LicenceInv, UNCHANGED <<thread, entries>>, lClock' \in Nat, lClock' >= lClock,
         inPlace' \in [Versions -> Int], \A v \in Versions : inPlace'[v] >= inPlace[v],
         LicenceTypes', FilesInPlace'
  PROVE  LicenceInv'
  <1>1. ASSUME NEW t \in Threads PROVE LookupBacked(inPlace', lClock', thread'[t])
    BY LookupLasts DEF LicenceInv, LicenceTypes
  <1>2. ASSUME NEW c \in Calls PROVE EntryBacked(inPlace', c, entries'[c])
    BY EntryLasts DEF LicenceInv, LicenceTypes
  <1> QED BY <1>1, <1>2, SMTT(30) DEF LicenceInv

\* Time passing leaves the file in place and what the connection reads.
LEMMA LicenceTick == ASSUME Lic!LicenceConstants, LicenceInv, Lic!Tick PROVE LicenceInv'
  <1>1. /\ lClock \in Nat /\ lClock' = lClock + 1 /\ inPlace \in [Versions -> Int]
        /\ inPlace' = [v \in Versions |-> IF v = dbFile \/ (handle.open /\ v = handle.conn) THEN lClock + 1 ELSE inPlace[v]]
        /\ UNCHANGED <<dbFile, handle, refresh, thread, entries>>
    BY DEF Lic!Tick, Lic!cache, LicenceInv, LicenceTypes
  <1>2. \A v \in Versions : inPlace[v] <= lClock
    BY DEF LicenceInv, FilesInPlace
  <1>3. inPlace' \in [Versions -> Int] /\ \A v \in Versions : inPlace'[v] >= inPlace[v]
    BY <1>1, <1>2, SMTT(30)
  <1>4. LicenceTypes'
    BY <1>1, <1>3, SMTT(30) DEF LicenceInv, LicenceTypes
  <1>5. FilesInPlace'
    BY <1>1, <1>2, SMTT(30) DEF LicenceInv, LicenceTypes, FilesInPlace
  <1> QED BY <1>1, <1>3, <1>4, <1>5, QuietSteps, SMTT(30)

\* Refresh removes, builds and swaps the file; lookups and cache stay as they are.
LEMMA RefreshKeeps ==
  ASSUME Lic!LicenceConstants, LicenceInv, Lic!StartRefresh \/ Lic!RemoveDB \/ Lic!SwapDB \/ Lic!EndRefresh
  PROVE  LicenceInv'
  <1> USE DEF LicenceInv, LicenceTypes, FilesInPlace, Versions, Lic!LicenceConstants
  <1>1. lClock' = lClock /\ lClock \in Nat /\ UNCHANGED <<thread, entries>>
    BY DEF Lic!StartRefresh, Lic!RemoveDB, Lic!SwapDB, Lic!EndRefresh, Lic!cache
  <1>2. CASE Lic!StartRefresh
    <2>1. /\ UNCHANGED <<inPlace, dbFile, handle>>
          /\ refresh.version \in Versions
          /\ refresh' = [refresh EXCEPT !.step = "extract"]
      BY <1>2 DEF Lic!StartRefresh
    <2>2. LicenceTypes'
      BY <1>1, <2>1, ZenonT(20)
    <2>3. FilesInPlace'
      BY <1>1, <2>1
    <2> QED BY <1>1, <2>1, <2>2, <2>3, QuietSteps, ZenonT(20)
  <1>3. CASE Lic!RemoveDB
    <2>1. LicenceTypes' /\ FilesInPlace' /\ inPlace' = inPlace
      BY <1>3, ZenonT(20) DEF Lic!RemoveDB, Lic!cache
    <2> QED BY <1>1, <2>1, QuietSteps, ZenonT(20)
  <1>4. CASE Lic!EndRefresh
    <2>1. LicenceTypes' /\ FilesInPlace' /\ inPlace' = inPlace
      BY <1>4, ZenonT(20) DEF Lic!EndRefresh, Lic!cache
    <2> QED BY <1>1, <2>1, QuietSteps, SMTT(30)
  <1>5. CASE Lic!SwapDB
    <2>1. /\ refresh.version \in Versions /\ dbFile' = refresh.version /\ handle' = handle
          /\ inPlace' = [inPlace EXCEPT ![refresh.version] = lClock]
          /\ refresh' = [step |-> "finish", version |-> refresh.version + 1]
          /\ inPlace \in [Versions -> Int] /\ \A v \in Versions : inPlace[v] <= lClock
      BY <1>5 DEF Lic!SwapDB
    <2>2. inPlace' \in [Versions -> Int] /\ \A v \in Versions : inPlace'[v] >= inPlace[v]
      <3> HIDE DEF LicenceInv, LicenceTypes, FilesInPlace, Versions, Lic!LicenceConstants
      <3> QED BY <1>1, <2>1, SMTT(30)
    <2>3. LicenceTypes'
      BY <1>1, <2>1, <2>2, SMTT(30)
    <2>4. FilesInPlace'
      BY <1>1, <2>1, <2>2, SMTT(30)
    <2>5. lClock' \in Nat /\ lClock' >= lClock
      <3> HIDE DEF LicenceInv, LicenceTypes, FilesInPlace, Versions, Lic!LicenceConstants
      <3> QED BY <1>1
    <2> HIDE DEF LicenceInv, LicenceTypes, FilesInPlace, Versions, Lic!LicenceConstants
    <2> QED BY <1>1, <2>2, <2>3, <2>4, <2>5, QuietSteps, Zenon
  <1> QED BY <1>2, <1>3, <1>4, <1>5, ZenonT(20)

\* ResetLicenseDB empties the cache and closes the handle.
LEMMA ResetKeeps == ASSUME Lic!LicenceConstants, LicenceInv, Lic!Reset PROVE LicenceInv'
  <1>1. /\ UNCHANGED <<lClock, dbFile, thread, inPlace>>
        /\ handle' = [Lic!NoHandle EXCEPT !.gen = handle.gen]
        /\ entries' = [c \in Calls |-> Lic!NoAnswer]
        /\ refresh' = [refresh EXCEPT !.step = "build"] /\ refresh.step = "extract"
    BY DEF Lic!Reset, Lic!ResetLicenseDB, Lic!EmptyCache
  <1>2. LicenceTypes'
    BY <1>1, Zenon DEF LicenceInv, LicenceTypes, Lic!NoHandle
  <1>3. FilesInPlace'
    BY <1>1 DEF LicenceInv, LicenceTypes, FilesInPlace, Lic!NoHandle
  <1>4. \A c \in Calls : EntryBacked(inPlace', c, entries'[c])
    BY <1>1, EmptyBacked
  <1>5. \A t \in Threads : LookupBacked(inPlace', lClock', thread'[t])
    BY <1>1, SMTT(30) DEF LicenceInv
  <1> QED BY <1>2, <1>3, <1>4, <1>5, SMTT(30) DEF LicenceInv

\* A step of one lookup that leaves it and the cache backed
LEMMA LookupSteps ==
  ASSUME LicenceInv, LicenceTypes', FilesInPlace', UNCHANGED <<lClock, inPlace>>, NEW t \in Threads,
         \A u \in Threads \ {t} : thread'[u] = thread[u],
         LookupBacked(inPlace, lClock, thread'[t]),
         \A c \in Calls : EntryBacked(inPlace, c, entries'[c])
  PROVE  LicenceInv'
  <1>1. ASSUME NEW u \in Threads PROVE LookupBacked(inPlace', lClock', thread'[u])
    BY SMTT(30) DEF LicenceInv
  <1> QED BY <1>1, SMTT(30) DEF LicenceInv

\* IsLicensedUS returns.
LEMMA ReturnKeeps ==
  ASSUME Lic!LicenceConstants, LicenceInv, NEW t \in Threads, Lic!Return(t) PROVE LicenceInv'
  <1>1. /\ UNCHANGED <<lClock, dbFile, handle, refresh, inPlace, entries>>
        /\ thread' = [thread EXCEPT ![t] = Lic!Idle]
    BY SMTT(30) DEF Lic!Return, Lic!cache
  <1>2. LicenceTypes' /\ FilesInPlace'
    BY <1>1 DEF LicenceInv, LicenceTypes, FilesInPlace, Lic!Idle, Lookups
  <1>3. thread'[t] = Lic!Idle /\ \A u \in Threads \ {t} : thread'[u] = thread[u]
    BY <1>1, ZenonT(20) DEF LicenceInv, LicenceTypes
  <1> QED BY <1>1, <1>2, <1>3, IdleBacked, LookupSteps, ZenonT(20) DEF LicenceInv, LicenceTypes

\* getLicenseDB opens a handle or finds one, or lets the call pass.
LEMMA OpenKeeps ==
  ASSUME Lic!LicenceConstants, LicenceInv, NEW t \in Threads, Lic!Open(t) PROVE LicenceInv'
  <1> DEFINE s == IF handle'.open THEN "query" ELSE "store"
             g == handle'.gen
             l == [thread[t] EXCEPT !.step = s, !.gen = g]
  <1>1. /\ UNCHANGED <<lClock, dbFile, refresh, inPlace, entries>>
        /\ handle' = [open |-> TRUE, conn |-> 0, gen |-> handle.gen + 1] \/ handle' = handle
        /\ thread[t].step = "open"
        /\ thread' = [thread EXCEPT ![t] = l]
    BY Zenon DEF Lic!Open, Lic!cache
  <1>2. handle' \in [open : BOOLEAN, conn : {0} \cup Versions, gen : Nat]
    <2>1. handle \in [open : BOOLEAN, conn : {0} \cup Versions, gen : Nat]
      BY DEF LicenceInv, LicenceTypes
    <2>2. [open |-> TRUE, conn |-> 0, gen |-> handle.gen + 1] \in [open : BOOLEAN, conn : {0} \cup Versions, gen : Nat]
      BY <2>1, SMTT(30)
    <2> QED BY <1>1, <2>1, <2>2, Zenon
  <1>3. s \in {"query", "store"} /\ g \in Nat /\ thread \in [Threads -> Lookups]
    BY <1>2 DEF LicenceInv, LicenceTypes
  <1> HIDE DEF s, g
  <1>9. /\ l \in Lookups /\ l.at = thread[t].at /\ l.call = thread[t].call /\ l.allow = thread[t].allow
        /\ l.step = s
    BY <1>3 DEF Lookups
  <1> HIDE DEF l
  <1>4. l.step \in {"query", "store"} /\ thread'[t] = l /\ \A u \in Threads \ {t} : thread'[u] = thread[u]
    BY <1>1, <1>3, <1>9, ZenonT(20)
  <1>5. LicenceTypes' /\ FilesInPlace'
    BY <1>1, <1>2, <1>3, <1>9, SMTT(30) DEF LicenceInv, LicenceTypes, FilesInPlace
  <1>6. LookupBacked(inPlace, lClock, thread[t])
    BY SMTT(30) DEF LicenceInv
  <1>7. LookupBacked(inPlace, lClock, l)
    BY <1>1, <1>9, <1>4, <1>6, SMTT(30) DEF LookupBacked
  <1> QED BY <1>1, <1>4, <1>5, <1>7, LookupSteps, SMTT(30) DEF LicenceInv

\* The query reads the file its connection has, or else the one that is in place now; every
\* error lets the call pass.
LEMMA QueryKeeps ==
  ASSUME Lic!LicenceConstants, LicenceInv, NEW t \in Threads, Lic!Query(t) PROVE LicenceInv'
  <1> DEFINE v == IF handle.conn # 0 THEN handle.conn ELSE dbFile
  <1>1. UNCHANGED <<lClock, dbFile, refresh, inPlace>> /\ thread[t].step = "query"
    BY DEF Lic!Query
  <1>2. /\ thread[t] \in Lookups /\ LookupBacked(inPlace, lClock, thread[t])
        /\ thread \in [Threads -> Lookups] /\ v \in {0} \cup Versions
        /\ handle \in [open : BOOLEAN, conn : {0} \cup Versions, gen : Nat]
    BY SMTT(30) DEF LicenceInv, LicenceTypes
  <1>3. /\ thread[t].call \in Calls /\ thread[t].at <= lClock /\ thread[t].at \in Nat /\ lClock \in Nat
        /\ thread[t].allow = TRUE
    BY <1>1, <1>2 DEF LookupBacked, Lookups, LicenceInv, LicenceTypes
  <1>4. CASE /\ thread' = [thread EXCEPT ![t].step = "store"]
             /\ UNCHANGED <<handle, entries>> \/ Lic!ResetLicenseDB
    <2>1. thread'[t] \in Lookups /\ \A u \in Threads \ {t} : thread'[u] = thread[u]
      BY <1>2, <1>4 DEF Lookups
    <2>2. /\ thread'[t].step = "store" /\ thread'[t].call = thread[t].call
          /\ thread'[t].at = thread[t].at /\ thread'[t].allow = TRUE
      BY <1>2, <1>3, <1>4 DEF Lookups
    <2>3. LookupBacked(inPlace, lClock, thread'[t])
      BY <1>3, <2>2, ZenonT(20) DEF LookupBacked
    <2>4. CASE UNCHANGED <<handle, entries>>
      <3>1. LicenceTypes' /\ FilesInPlace'
        BY <1>1, <1>2, <1>4, <2>1, <2>4, ZenonT(20) DEF LicenceInv, LicenceTypes, FilesInPlace
      <3> QED BY <1>1, <2>1, <2>3, <2>4, <3>1, LookupSteps, ZenonT(20) DEF LicenceInv
    <2>5. CASE Lic!ResetLicenseDB
      <3>1. entries' = [c \in Calls |-> Lic!NoAnswer] /\ handle' = [Lic!NoHandle EXCEPT !.gen = handle.gen]
        BY <2>5 DEF Lic!ResetLicenseDB, Lic!EmptyCache
      <3>2. LicenceTypes' /\ FilesInPlace'
        BY <1>1, <1>2, <1>4, <2>1, <3>1, Zenon DEF LicenceInv, LicenceTypes, FilesInPlace, Lic!NoHandle
      <3>3. \A c \in Calls : EntryBacked(inPlace, c, entries'[c])
        BY <3>1, EmptyBacked
      <3> QED BY <1>1, <2>1, <2>3, <3>2, <3>3, LookupSteps, ZenonT(20)
    <2> QED BY <1>4, <2>4, <2>5, SMTT(30)
  <1>5. CASE /\ handle.open /\ v # 0
             /\ thread' = [thread EXCEPT ![t].step = "store", ![t].allow = thread[t].call \in Lic!Licensed(v)]
             /\ handle' = [handle EXCEPT !.conn = v] /\ UNCHANGED Lic!cache
    <2> HIDE DEF v
    <2>1. v \in Versions /\ inPlace[v] = lClock
      BY <1>2, <1>5 DEF LicenceInv, FilesInPlace, v
    <2> DEFINE b == thread[t].call \in Lic!Licensed(v)
               l == [thread[t] EXCEPT !.step = "store", !.allow = b]
    <2>2. b \in BOOLEAN
      OBVIOUS
    <2> HIDE DEF b
    <2>3. /\ l \in Lookups /\ l.step = "store" /\ l.call = thread[t].call /\ l.at = thread[t].at /\ l.allow = b
      BY <1>2, <2>2 DEF Lookups
    <2>4. thread' = [thread EXCEPT ![t] = l]
      BY <1>5, Zenon DEF b
    <2>5. thread'[t] = l /\ \A u \in Threads \ {t} : thread'[u] = thread[u]
      BY <1>2, <2>4
    <2>6. ~l.allow => Backed(inPlace, l.call, l.at)
      <3>1. ~l.allow => l.call \notin Lic!Licensed(v)
        BY <2>3, Zenon DEF b
      <3>2. inPlace[v] >= 0 /\ inPlace[v] >= l.at
        BY <1>3, <2>1, <2>3, SMTT(30)
      <3> QED BY <2>1, <3>1, <3>2, Zenon DEF Backed
    <2>7. LookupBacked(inPlace, lClock, l)
      BY <1>3, <2>3, <2>6, ZenonT(20) DEF LookupBacked
    <2>8. LicenceTypes'
      <3>1. handle' \in [open : BOOLEAN, conn : {0} \cup Versions, gen : Nat]
        BY <1>2, <1>5, <2>1
      <3>2. thread' \in [Threads -> Lookups]
        BY <1>2, <2>3, <2>4
      <3> QED BY <1>1, <1>5, <3>1, <3>2, ZenonT(20) DEF LicenceInv, LicenceTypes, Lic!cache
    <2>9. FilesInPlace'
      BY <1>1, <1>2, <1>5, <2>1, ZenonT(20) DEF LicenceInv, FilesInPlace
    <2> QED BY <1>1, <1>5, <2>5, <2>7, <2>8, <2>9, LookupSteps, ZenonT(30) DEF LicenceInv, Lic!cache
  <1>6. \/ /\ thread' = [thread EXCEPT ![t].step = "store"]
           /\ UNCHANGED <<handle, entries>> \/ Lic!ResetLicenseDB
        \/ /\ handle.open /\ v # 0
           /\ thread' = [thread EXCEPT ![t].step = "store", ![t].allow = thread[t].call \in Lic!Licensed(v)]
           /\ handle' = [handle EXCEPT !.conn = v] /\ UNCHANGED Lic!cache
    BY Zenon DEF Lic!Query, Lic!cache
  <1> QED BY <1>4, <1>5, <1>6

\* The cache answers with an entry no older than TTL, or the lookup goes on.
LEMMA AskKeeps ==
  ASSUME Lic!LicenceConstants, LicenceInv, NEW t \in Threads, NEW c \in Calls, Lic!Ask(t, c) PROVE LicenceInv'
  <1> DEFINE e == entries[c]
  <1>1. UNCHANGED <<lClock, dbFile, handle, refresh, inPlace>>
    BY DEF Lic!Ask
  <1>2. /\ thread \in [Threads -> Lookups] /\ lClock \in Nat /\ TTL \in Nat
        /\ DOMAIN entries = Calls
        /\ \A d \in Calls : EntryBacked(inPlace, d, entries[d])
    BY ZenonT(20) DEF LicenceInv, LicenceTypes, Lic!LicenceConstants
  <1>3. DOMAIN e = {"value", "at", "used", "slot"} /\ e.value \in BOOLEAN /\ e.at \in Nat \cup {-1}
    BY <1>2 DEF EntryBacked
  <1>4. DOMAIN entries' = Calls /\ \A d \in Calls : EntryBacked(inPlace, d, entries'[d])
    <2>1. CASE UNCHANGED Lic!cache
      BY <1>2, <2>1, ZenonT(20) DEF Lic!cache
    <2>2. CASE entries' = [entries EXCEPT ![c] = Lic!NoAnswer]
      BY <1>2, <2>2, EmptyBacked
    <2>3. CASE entries' = [entries EXCEPT ![c].used = TRUE]
      <3>1. EntryBacked(inPlace, c, entries'[c])
        BY <1>2, <1>3, <2>3, SMTT(30) DEF EntryBacked
      <3> QED BY <1>2, <2>3, <3>1
    <2> QED BY <2>1, <2>2, <2>3 DEF Lic!Ask, Lic!CacheGet
  <1> DEFINE passed == [Lic!Idle EXCEPT !.step = "done", !.call = c]
             asked == [Lic!Idle EXCEPT !.step = "open", !.call = c, !.at = lClock]
             cached == [Lic!Idle EXCEPT !.step = "done", !.call = c, !.at = lClock, !.allow = e.value]
  <1>5. PICK l : /\ thread' = [thread EXCEPT ![t] = l]
                 /\ l \in {passed, asked} \/ (l = cached /\ e.at # -1 /\ ~(lClock - e.at > TTL))
    BY DEF Lic!Ask, Lic!Hit, Lic!Expired, Lic!Never
  <1>6. l \in Lookups /\ LookupBacked(inPlace, lClock, l)
    <2>1. CASE l \in {passed, asked}
      <3>1. l \in Lookups /\ l.step \in {"open", "done"} /\ l.call = c /\ l.allow /\ l.at <= lClock
        <4>1. PICK at \in {0, lClock}, step \in {"open", "done"} :
                l = [step |-> step, call |-> c, at |-> at, gen |-> 0, allow |-> TRUE]
          BY <1>2, <2>1, Zenon DEF Lic!Idle
        <4>2. l \in Lookups
          <5>1. lClock \in Nat
            BY <1>2
          <5>2. at \in Nat
            BY <5>1
          <5>3. c \in Calls \cup {""}
            OBVIOUS
          <5> QED BY <4>1, <5>2, <5>3 DEF Lookups
        <4>3. l.step = step /\ l.call = c /\ l.at = at
          BY <4>1
        <4>4. l.allow
          BY <4>1
        <4>5. at <= lClock
          BY <1>2
        <4> QED BY <4>2, <4>3, <4>4, <4>5, Zenon
      <3> QED BY <3>1 DEF LookupBacked
    <2>2. CASE l = cached /\ e.at # -1 /\ ~(lClock - e.at > TTL)
      <3>1. l \in Lookups /\ l.step = "done" /\ l.call = c /\ l.at = lClock /\ l.allow = e.value
        BY <1>2, <1>3, <2>2 DEF Lic!Idle, Lookups
      <3>2. ASSUME ~e.value PROVE Backed(inPlace, c, lClock - TTL)
        <4>1. PICK v \in Versions : inPlace[v] >= 0 /\ inPlace[v] >= e.at /\ c \notin Lic!Licensed(v)
          BY <1>2, <2>2, <3>2, Zenon DEF EntryBacked, Backed
        <4>2. inPlace[v] \in Int
          BY DEF LicenceInv, LicenceTypes
        <4>3. inPlace[v] >= lClock - TTL
          BY <1>2, <1>3, <2>2, <4>1, <4>2, SMTT(30)
        <4> QED BY <4>1, <4>3, Zenon DEF Backed
      <3>3. l.at <= lClock
        BY <1>2, <3>1
      <3> QED BY <3>1, <3>2, <3>3, Zenon DEF LookupBacked
    <2> QED BY <1>5, <2>1, <2>2, ZenonT(20)
  <1>7. LicenceTypes' /\ FilesInPlace'
    BY <1>1, <1>2, <1>4, <1>5, <1>6, ZenonT(20) DEF LicenceInv, LicenceTypes, FilesInPlace
  <1>8. thread'[t] = l /\ \A u \in Threads \ {t} : thread'[u] = thread[u]
    BY <1>2, <1>5
  <1> QED BY <1>1, <1>4, <1>6, <1>7, <1>8, LookupSteps, ZenonT(20)

\* The answer goes into the cache with the time it was asked for, also after the cache was
\* emptied meanwhile, and may evict another.
LEMMA StoreKeeps ==
  ASSUME Lic!LicenceConstants, LicenceInv, NEW t \in Threads, Lic!Store(t) PROVE LicenceInv'
  <1> DEFINE c == thread[t].call
             l == [thread[t] EXCEPT !.step = "done"]
  <1>1. /\ UNCHANGED <<lClock, dbFile, handle, refresh, inPlace>>
        /\ thread[t].step = "store" /\ thread' = [thread EXCEPT ![t] = l]
        /\ Lic!CacheSet(c, thread[t].allow, thread[t].at)
    BY DEF Lic!Store
  <1>2. /\ thread \in [Threads -> Lookups] /\ lClock \in Nat /\ TTL \in Nat /\ inPlace \in [Versions -> Int]
        /\ DOMAIN entries = Calls
        /\ \A d \in Calls : EntryBacked(inPlace, d, entries[d])
        /\ LookupBacked(inPlace, lClock, thread[t])
    BY DEF LicenceInv, LicenceTypes, Lic!LicenceConstants
  <1>3. /\ thread[t].allow \in BOOLEAN /\ thread[t].at \in Nat /\ c \in Calls /\ thread[t].at <= lClock
        /\ ~thread[t].allow => Backed(inPlace, c, thread[t].at)
    BY <1>1, <1>2 DEF LookupBacked, Lookups
  <1>4. /\ l \in Lookups /\ l.step = "done" /\ l.call = c /\ l.at = thread[t].at /\ l.allow = thread[t].allow
    BY <1>2, ZenonT(30) DEF Lookups
  <1>5. LookupBacked(inPlace, lClock, l)
    <2>1. ~l.allow => Backed(inPlace, c, l.at - TTL)
      BY <1>2, <1>3, <1>4 DEF Backed
    <2> QED BY <1>3, <1>4, <2>1, Zenon DEF LookupBacked
  <1>6. ASSUME NEW e, DOMAIN e = {"value", "at", "used", "slot"}, e.value = thread[t].allow, e.at = thread[t].at
        PROVE  EntryBacked(inPlace, c, e)
    BY <1>3, <1>6, Zenon DEF EntryBacked
  <1>7. DOMAIN entries' = Calls /\ \A d \in Calls : EntryBacked(inPlace, d, entries'[d])
    <2>1. CASE entries' = [entries EXCEPT ![c].value = thread[t].allow, ![c].at = thread[t].at, ![c].used = TRUE]
      <3>1. EntryBacked(inPlace, c, entries'[c])
        <4>1. DOMAIN entries[c] = {"value", "at", "used", "slot"}
          BY <1>2, <1>3 DEF EntryBacked
        <4> QED BY <1>2, <1>3, <1>6, <2>1, <4>1, ZenonT(30)
      <3> QED BY <1>2, <2>1, <3>1, Zenon
    <2> DEFINE free == Lic!FreeSlots # {}
               slot == IF free THEN Lic!FirstFrom(Lic!FreeSlots)
                       ELSE IF Lic!Evictable # {} THEN Lic!FirstFrom(Lic!Evictable) ELSE hand
               marked == IF free THEN {} ELSE {slots[j] : j \in Lic!Passed(slot)}
               swept == [d \in Calls |-> IF ~free /\ d = slots[slot] THEN Lic!NoAnswer
                                         ELSE [entries[d] EXCEPT !.used = @ /\ d \notin marked]]
    <2>2. CASE entries' = [swept EXCEPT ![c] = [value |-> thread[t].allow, at |-> thread[t].at,
                                                used |-> TRUE, slot |-> slot]]
      <3> HIDE DEF free, slot, marked
      <3>1. EntryBacked(inPlace, c, entries'[c])
        BY <1>3, <1>6, <2>2, ZenonT(20)
      <3>2. ASSUME NEW d \in Calls, d # c PROVE EntryBacked(inPlace, d, entries'[d])
        BY <1>2, <2>2, <3>2, EmptyBacked, ZenonT(20) DEF EntryBacked
      <3> QED BY <2>2, <3>1, <3>2, ZenonT(20)
    <2> QED BY <1>1, <2>1, <2>2, Zenon DEF Lic!CacheSet
  <1>8. LicenceTypes' /\ FilesInPlace'
    BY <1>1, <1>2, <1>4, <1>7, ZenonT(20) DEF LicenceInv, LicenceTypes, FilesInPlace
  <1>9. thread'[t] = l /\ \A u \in Threads \ {t} : thread'[u] = thread[u]
    BY <1>1, <1>2, ZenonT(20)
  <1> QED BY <1>1, <1>5, <1>7, <1>8, <1>9, LookupSteps, ZenonT(20)

\* Every step of lookups and rebuild keeps the inductive invariant.
LEMMA LicenceNext == ASSUME Lic!LicenceConstants, LicenceInv, [Lic!Next]_(Lic!vars) PROVE LicenceInv'
  <1>1. CASE UNCHANGED Lic!vars
    BY <1>1 DEF Lic!vars, LicenceInv, LicenceTypes, FilesInPlace
  <1> QED BY <1>1, LicenceTick, RefreshKeeps, ResetKeeps, ReturnKeeps, OpenKeeps, QueryKeeps, AskKeeps, StoreKeeps, ZenonT(20)
      DEF Lic!Next

\* The inductive invariant holds in every reachable state, for any number of goroutines and
\* archives, any size of the cache and any TTL.
THEOREM LicenceInvariant == ASSUME Lic!LicenceConstants PROVE Lic!Spec => []LicenceInv
  <1>1. Lic!Init => LicenceInv
    BY LicenceInit
  <1>2. LicenceInv /\ [Lic!Next]_(Lic!vars) => LicenceInv'
    BY LicenceNext
  <1> QED BY <1>1, <1>2, PTL DEF Lic!Spec

\* Whatever a rebuild does meanwhile, a call is refused only if a database without it could be
\* read at most TTL before the lookup began (IsLicensedUS, ResetLicenseDB).
THEOREM RefusalsAreFresh == ASSUME Lic!LicenceConstants PROVE Lic!Spec => []Lic!RefusalIsFresh
  <1>1. LicenceInv => Lic!RefusalIsFresh
    <2> SUFFICES ASSUME LicenceInv, NEW t \in Threads, thread[t].step = "done", ~thread[t].allow
                 PROVE  \E v \in DOMAIN inPlace : /\ inPlace[v] # -1 /\ thread[t].call \notin Lic!Licensed(v)
                                                  /\ thread[t].at - inPlace[v] <= TTL
      BY DEF Lic!RefusalIsFresh, Lic!Never
    <2>1. LookupBacked(inPlace, lClock, thread[t])
      BY DEF LicenceInv
    <2>2. PICK v \in Versions : /\ inPlace[v] >= 0 /\ inPlace[v] >= thread[t].at - TTL
                                /\ thread[t].call \notin Lic!Licensed(v)
      BY <2>1, Zenon DEF LookupBacked, Backed
    <2>3. v \in DOMAIN inPlace /\ inPlace[v] \in Int /\ thread[t].at \in Nat /\ TTL \in Nat
      BY DEF LicenceInv, LicenceTypes, Lookups, Lic!LicenceConstants
    <2>4. inPlace[v] # -1 /\ thread[t].at - inPlace[v] <= TTL
      BY <2>2, <2>3
    <2> QED BY <2>2, <2>3, <2>4, Zenon
  <1> QED BY <1>1, LicenceInvariant, PTL

-----------------------------------------------------------------------------
(* The reports a correction needs *)
CONSTANTS Groups, Bands, Reporters, ActiveFor, EvalPeriod, HysteresisWindows, Fallback, Refresh,
  MinSpots, LastTime, MostSpots

VARIABLES tClock, active, groups, lastEval, pipeline, lastRun, spotCount, votes

Thr == INSTANCE AdaptiveThreshold WITH clock <- tClock, seen <- active, Window <- ActiveFor, MaxTime
  <- LastTime, MaxSpots <- MostSpots

States == {"quiet", "normal", "busy"}

\* The evaluations of a streak are the last ones, they all called for the pending state, and a
\* streak that is long enough is not kept.
StreakInv(gs, vs) ==
  /\ vs \in Seq(States) /\ Len(vs) <= HysteresisWindows
  /\ gs.streak \in Nat /\ gs.streak < HysteresisWindows /\ gs.streak <= Len(vs)
  /\ \A i \in 1 .. Len(vs) : i > Len(vs) - gs.streak => vs[i] = gs.pending

\* Groups are records of these fields.
GroupFields(gs) ==
  gs = [state |-> gs.state, pending |-> gs.pending, streak |-> gs.streak, minReports |-> gs.minReports]

\* The inductive invariant: streaks are backed by the votes, and the reports needed are those of
\* the state.
ThresholdInv ==
  /\ DOMAIN groups = DOMAIN Groups
  /\ \A g \in DOMAIN Groups :
       /\ GroupFields(groups[g])
       /\ StreakInv(groups[g], votes[g])
       /\ groups[g].minReports = Groups[g].min[groups[g].state]

\* ws are the newest of the votes vs followed by c.
Newest(ws, vs, c) ==
  /\ ws \in Seq(States) /\ Len(ws) \in Nat /\ Len(ws) <= HysteresisWindows
  /\ Len(vs) < HysteresisWindows => Len(ws) = Len(vs) + 1
  /\ Len(vs) >= HysteresisWindows => Len(ws) = HysteresisWindows
  /\ ws[Len(ws)] = c
  /\ \A i \in 1 .. Len(ws) - 1 : ws[i] = vs[i + Len(vs) + 1 - Len(ws)]

\* LastVotes keeps the newest votes.
LEMMA VotesKept ==
  ASSUME Thr!ThresholdConstants, NEW vs \in Seq(States), Len(vs) <= HysteresisWindows, NEW c \in States
  PROVE  Newest(Thr!LastVotes(Append(vs, c)), vs, c)
  <1> DEFINE ws == Thr!LastVotes(Append(vs, c))
             a == Append(vs, c)
             m == IF Len(a) > HysteresisWindows THEN Len(a) - HysteresisWindows + 1 ELSE 1
  <1>1. a \in Seq(States) /\ Len(a) = Len(vs) + 1 /\ a[Len(vs) + 1] = c /\ Len(vs) \in Nat
        /\ \A i \in 1 .. Len(vs) : a[i] = vs[i]
    OBVIOUS
  <1>2. m \in 1 .. 2 /\ m <= Len(a) /\ Len(a) - m + 1 <= HysteresisWindows
        /\ Len(a) - m + 1 = IF Len(vs) < HysteresisWindows THEN Len(vs) + 1 ELSE HysteresisWindows
    <2>1. HysteresisWindows \in Nat \ {0} /\ Len(a) = Len(vs) + 1 /\ Len(vs) \in Nat
      BY <1>1 DEF Thr!ThresholdConstants
    <2>2. CASE Len(vs) < HysteresisWindows
      <3>1. m = 1
        BY <2>1, <2>2
      <3> HIDE DEF m, a
      <3> QED BY <2>1, <2>2, <3>1, SMTT(30)
    <2>3. CASE ~ (Len(vs) < HysteresisWindows)
      <3>1. Len(vs) = HysteresisWindows
        BY <2>1, <2>3, SMTT(30)
      <3>2. m = 2
        BY <2>1, <3>1
      <3> HIDE DEF m, a
      <3> QED BY <2>1, <2>3, <3>1, <3>2, SMTT(30)
    <2> QED BY <2>2, <2>3, ZenonT(20)
  <1>3. ws = SubSeq(a, m, Len(a))
    BY DEF Thr!LastVotes
  <1> HIDE DEF a, m, ws
  <1>4. Len(ws) = Len(a) - m + 1 /\ ws \in Seq(States) /\ \A i \in 1 .. Len(ws) : ws[i] = a[i + m - 1]
    <2>1. a \in Seq(States) /\ Len(a) \in Nat /\ m \in 1 .. Len(a)
      BY <1>1, <1>2, SMTT(30)
    <2>2. ws \in Seq(States) /\ Len(ws) = Len(a) - m + 1
      BY <1>3, <2>1, SMTT(30)
    <2>3. ASSUME NEW i \in 1 .. Len(ws) PROVE ws[i] = a[i + m - 1]
      BY <1>3, <2>1, <2>2, SMTT(30)
    <2> QED BY <2>2, <2>3, ZenonT(20)
  <1>5. ws[Len(ws)] = c
    <2>1. Len(ws) \in 1 .. Len(ws) /\ Len(ws) + m - 1 = Len(vs) + 1
      BY <1>1, <1>2, <1>4, SMTT(30)
    <2>2. ws[Len(ws)] = a[Len(ws) + m - 1]
      BY <1>4, <2>1, ZenonT(20)
    <2> QED BY <1>1, <2>1, <2>2, ZenonT(20)
  <1>6. ASSUME NEW i \in 1 .. Len(ws) - 1 PROVE ws[i] = vs[i + Len(vs) + 1 - Len(ws)]
    <2>1. i + m - 1 = i + Len(vs) + 1 - Len(ws) /\ i + m - 1 \in 1 .. Len(vs) /\ i \in 1 .. Len(ws)
      BY <1>1, <1>2, <1>4, SMTT(30)
    <2> QED BY <1>1, <1>4, <2>1, ZenonT(20)
  <1>7. Len(ws) \in Nat /\ Len(vs) \in Nat /\ HysteresisWindows \in Nat
    BY <1>1, <1>4, SMTT(30) DEF Thr!ThresholdConstants
  <1>8. /\ Len(ws) <= HysteresisWindows
        /\ Len(vs) < HysteresisWindows => Len(ws) = Len(vs) + 1
        /\ Len(vs) >= HysteresisWindows => Len(ws) = HysteresisWindows
    BY <1>2, <1>4, <1>7, SMTT(30)
  <1>9. Newest(ws, vs, c)
    BY <1>4, <1>5, <1>6, <1>7, <1>8, ZenonT(30) DEF Newest
  <1> QED BY <1>9, ZenonT(20) DEF ws

\* One evaluation of one group: a streak is kept or restarted with the votes, and what changes
\* the state is a streak as long as the hysteresis.
LEMMA GroupMoves ==
  ASSUME Thr!ThresholdConstants, NEW gs, NEW vs, GroupFields(gs), StreakInv(gs, vs), NEW c \in States,
         NEW hs, hs = Thr!NextGroup(gs, c), NEW ws, ws = Thr!LastVotes(Append(vs, c))
  PROVE  /\ GroupFields(hs) /\ StreakInv(hs, ws) /\ hs.minReports = gs.minReports
         /\ hs.state # gs.state =>
              Len(ws) = HysteresisWindows /\ \A i \in DOMAIN ws : ws[i] = hs.state
  <1> DEFINE none == ""
             k == IF gs.pending = c THEN gs.streak + 1 ELSE 1
  <1>1. /\ gs = [state |-> gs.state, pending |-> gs.pending, streak |-> gs.streak, minReports |-> gs.minReports]
        /\ vs \in Seq(States) /\ Len(vs) <= HysteresisWindows /\ Len(vs) \in Nat
        /\ gs.streak \in Nat /\ gs.streak < HysteresisWindows /\ gs.streak <= Len(vs)
        /\ \A i \in 1 .. Len(vs) : i > Len(vs) - gs.streak => vs[i] = gs.pending
    BY DEF StreakInv, GroupFields
  <1>2. Newest(ws, vs, c)
    BY <1>1, VotesKept, ZenonT(30)
  <1>3. /\ ws \in Seq(States) /\ Len(ws) <= HysteresisWindows
        /\ Len(vs) < HysteresisWindows => Len(ws) = Len(vs) + 1
        /\ Len(vs) >= HysteresisWindows => Len(ws) = HysteresisWindows
        /\ ws[Len(ws)] = c
        /\ \A i \in 1 .. Len(ws) - 1 : ws[i] = vs[i + Len(vs) + 1 - Len(ws)]
    BY <1>2, ZenonT(20) DEF Newest
  <1>4. Len(ws) \in Nat
    BY <1>3, SMTT(30)
  <1>5. k \in Nat \ {0} /\ k <= HysteresisWindows /\ k <= Len(ws)
    <2>1. HysteresisWindows \in Nat \ {0}
      BY ZenonT(20) DEF Thr!ThresholdConstants
    <2>2. gs.streak + 1 <= Len(ws) /\ 1 <= Len(ws)
      BY <1>1, <1>3, <2>1, SMTT(30)
    <2>3. CASE gs.pending = c
      BY <1>1, <1>3, <2>1, <2>2, <2>3, SMTT(30)
    <2>4. CASE gs.pending # c
      BY <1>1, <1>3, <2>1, <2>2, <2>4, SMTT(30)
    <2> QED BY <2>3, <2>4, ZenonT(20)
  <1>6. (gs.pending = c => k = gs.streak + 1) /\ (gs.pending # c => k = 1)
    OBVIOUS
  <1>7. \/ c = gs.state /\ hs = [gs EXCEPT !.pending = none, !.streak = 0]
        \/ c # gs.state /\ k >= HysteresisWindows /\ hs = [gs EXCEPT !.state = c, !.pending = none, !.streak = 0]
        \/ c # gs.state /\ ~(k >= HysteresisWindows) /\ hs = [gs EXCEPT !.pending = c, !.streak = k]
    BY Zenon DEF Thr!NextGroup
  <1> HIDE DEF k, none
  <1>8. ASSUME NEW i \in 1 .. Len(ws), i > Len(ws) - k PROVE ws[i] = c
    <2>1. CASE i = Len(ws)
      BY <1>3, <2>1, ZenonT(20)
    <2>2. CASE i # Len(ws)
      <3>1. gs.pending = c /\ k = gs.streak + 1
        BY <1>4, <1>8, <1>6, <2>2, SMTT(30)
      <3>2. HysteresisWindows \in Nat \ {0} /\ (Len(vs) < HysteresisWindows \/ Len(vs) = HysteresisWindows)
        BY <1>1, SMTT(30) DEF Thr!ThresholdConstants
      <3>3. Len(ws) = Len(vs) + 1 \/ Len(ws) = Len(vs)
        BY <1>1, <1>3, <3>2, ZenonT(20)
      <3>4. i \in 1 .. Len(ws) - 1 /\ i \in Nat
        BY <1>4, <2>2, SMTT(30)
      <3>5. i > Len(ws) - (gs.streak + 1) /\ gs.streak \in Nat /\ Len(vs) \in Nat
        BY <1>1, <1>8, <3>1, ZenonT(20)
      <3>6. i \in 1 .. Len(ws) - 1 /\ i + Len(vs) + 1 - Len(ws) \in 1 .. Len(vs)
            /\ i + Len(vs) + 1 - Len(ws) > Len(vs) - gs.streak
        BY <1>4, <3>3, <3>4, <3>5, SMTT(30)
      <3> QED BY <1>1, <1>3, <3>1, <3>6, ZenonT(20)
    <2> QED BY <2>1, <2>2, ZenonT(20)
  <1>9. CASE c = gs.state /\ hs = [gs EXCEPT !.pending = none, !.streak = 0]
    <2>1. hs = [state |-> gs.state, pending |-> none, streak |-> 0, minReports |-> gs.minReports]
      BY <1>1, <1>9, ZenonT(30)
    <2>2. hs.state = gs.state /\ hs.pending = none /\ hs.streak = 0 /\ hs.minReports = gs.minReports
      BY <2>1
    <2>3. GroupFields(hs)
      BY <2>1, <2>2, ZenonT(30) DEF GroupFields
    <2> QED BY <1>4, <1>3, <2>2, <2>3, SMTT(30) DEF StreakInv, Thr!ThresholdConstants
  <1>10. CASE c # gs.state /\ k >= HysteresisWindows /\ hs = [gs EXCEPT !.state = c, !.pending = none, !.streak = 0]
    <2>1. hs = [state |-> c, pending |-> none, streak |-> 0, minReports |-> gs.minReports]
      BY <1>1, <1>10, Zenon
    <2>2. hs.state = c /\ hs.pending = none /\ hs.streak = 0 /\ hs.minReports = gs.minReports
      BY <2>1
    <2>3. Len(ws) = HysteresisWindows /\ k = Len(ws)
      BY <1>3, <1>5, <1>10, SMTT(30) DEF Thr!ThresholdConstants
    <2>4. \A i \in DOMAIN ws : ws[i] = c
      BY <1>3, <1>8, <2>3, SMTT(30)
    <2>5. GroupFields(hs)
      BY <2>1, <2>2, Zenon DEF GroupFields
    <2> QED BY <1>4, <1>3, <2>2, <2>3, <2>4, <2>5, SMTT(30) DEF StreakInv, Thr!ThresholdConstants
  <1>11. CASE c # gs.state /\ ~(k >= HysteresisWindows) /\ hs = [gs EXCEPT !.pending = c, !.streak = k]
    <2>1. hs = [state |-> gs.state, pending |-> c, streak |-> k, minReports |-> gs.minReports]
      BY <1>1, <1>11, ZenonT(30)
    <2>2. hs.state = gs.state /\ hs.pending = c /\ hs.streak = k /\ hs.minReports = gs.minReports
      BY <2>1
    <2>3. GroupFields(hs)
      BY <2>1, <2>2, ZenonT(30) DEF GroupFields
    <2> QED BY <1>4, <1>3, <1>5, <1>8, <1>11, <2>2, <2>3, SMTT(30) DEF StreakInv, Thr!ThresholdConstants
  <1> QED BY <1>7, <1>9, <1>10, <1>11, ZenonT(20)

\* What StateIsConfirmed demands of a step
Confirmed ==
  \A g \in DOMAIN groups :
    /\ groups'[g].state # groups[g].state =>
         /\ Len(votes'[g]) = HysteresisWindows
         /\ \A i \in DOMAIN votes'[g] : votes'[g][i] = groups'[g].state
    /\ groups'[g].minReports # groups[g].minReports => groups'[g].state # groups[g].state

\* A step that leaves groups and votes alone
LEMMA QuietStep == ASSUME ThresholdInv, UNCHANGED <<groups, votes>> PROVE ThresholdInv' /\ Confirmed
  BY DEF ThresholdInv, Confirmed

\* ensureEvaluatedLocked, whoever calls it
LEMMA Evaluation ==
  ASSUME Thr!ThresholdConstants, ThresholdInv, Thr!ensureEvaluated
  PROVE  ThresholdInv' /\ Confirmed
  <1>1. CASE UNCHANGED <<groups, votes>>
    BY <1>1, QuietStep, ZenonT(20)
  <1>2. CASE lastEval = Thr!Never \/ tClock - lastEval >= EvalPeriod
    <2> DEFINE cand(g) == Thr!stateForCount(g, Thr!averageReporters(g, Thr!Active(active)))
               moved(g) == Thr!NextGroup(groups[g], cand(g))
    <2>1. /\ groups' = [g \in DOMAIN groups |-> [moved(g) EXCEPT !.minReports = Groups[g].min[moved(g).state]]]
          /\ votes' = [g \in DOMAIN groups |-> Thr!LastVotes(Append(votes[g], cand(g)))]
      BY <1>2, ZenonT(30) DEF Thr!ensureEvaluated
    <2>2. \A g : cand(g) \in States
      BY ZenonT(20) DEF Thr!stateForCount, States
    <2> HIDE DEF cand
    <2>3. ASSUME NEW g \in DOMAIN Groups
          PROVE  /\ GroupFields(groups'[g]) /\ StreakInv(groups'[g], votes'[g])
                 /\ groups'[g].minReports = Groups[g].min[groups'[g].state]
                 /\ groups'[g].state # groups[g].state =>
                      Len(votes'[g]) = HysteresisWindows /\ \A i \in DOMAIN votes'[g] : votes'[g][i] = groups'[g].state
                 /\ groups'[g].minReports # groups[g].minReports => groups'[g].state # groups[g].state
      <3> DEFINE hs == moved(g)
                 n == Groups[g].min[hs.state]
      <3>1. /\ GroupFields(groups[g]) /\ StreakInv(groups[g], votes[g])
            /\ groups[g].minReports = Groups[g].min[groups[g].state] /\ g \in DOMAIN groups
        BY DEF ThresholdInv
      <3>2. votes'[g] = Thr!LastVotes(Append(votes[g], cand(g))) /\ groups'[g] = [hs EXCEPT !.minReports = n]
        BY <2>1, <3>1, SMTT(30)
      <3>3. /\ GroupFields(hs) /\ StreakInv(hs, votes'[g])
            /\ hs.state # groups[g].state =>
                 Len(votes'[g]) = HysteresisWindows /\ \A i \in DOMAIN votes'[g] : votes'[g][i] = hs.state
        BY <2>2, <3>1, <3>2, GroupMoves, SMTT(30)
      <3>4. n = Groups[g].min[hs.state]
        OBVIOUS
      <3> HIDE DEF hs, n
      <3>5. groups'[g] = [state |-> hs.state, pending |-> hs.pending, streak |-> hs.streak, minReports |-> n]
        BY <3>2, <3>3, ZenonT(20) DEF GroupFields
      <3>6. groups'[g].state = hs.state /\ groups'[g].pending = hs.pending /\ groups'[g].streak = hs.streak
            /\ groups'[g].minReports = n
        BY <3>5, SMTT(30)
      <3>7. GroupFields(groups'[g])
        BY <3>5, <3>6, ZenonT(20) DEF GroupFields
      <3>8. StreakInv(groups'[g], votes'[g])
        BY <3>3, <3>6, SMTT(30) DEF StreakInv
      <3> QED BY <3>1, <3>3, <3>4, <3>6, <3>7, <3>8, ZenonT(20)
    <2>4. DOMAIN groups' = DOMAIN Groups /\ DOMAIN groups = DOMAIN Groups
      BY <2>1 DEF ThresholdInv
    <2> QED BY <2>3, <2>4 DEF ThresholdInv, Confirmed
  <1> QED BY <1>1, <1>2, Zenon DEF Thr!ensureEvaluated

\* Every step evaluates or leaves groups and votes alone.
LEMMA ThresholdStep ==
  ASSUME Thr!ThresholdConstants, ThresholdInv, [Thr!Next]_(Thr!vars)
  PROVE  ThresholdInv' /\ Confirmed
  <1>1. Thr!ensureEvaluated \/ UNCHANGED <<groups, votes>>
    BY ZenonT(30) DEF Thr!Next, Thr!Tick, Thr!Observe, Thr!MinReportsForBand, Thr!StateForBand, Thr!maybeRefresh, Thr!vars
  <1> QED BY <1>1, Evaluation, QuietStep, SMTT(30)

\* The streak of a group is the number of last evaluations that called for its pending state
\* (evaluate), and minReports is the one of its state.
THEOREM ThresholdInvariant == ASSUME Thr!ThresholdConstants PROVE Thr!Spec => []ThresholdInv
  <1>1. Thr!Init => ThresholdInv
    <2> DEFINE none == ""
    <2> SUFFICES ASSUME Thr!Init, NEW g \in DOMAIN Groups
                 PROVE  /\ GroupFields(groups[g]) /\ StreakInv(groups[g], votes[g])
                        /\ groups[g].minReports = Groups[g].min[groups[g].state]
      BY ZenonT(30) DEF Thr!Init, ThresholdInv
    <2>1. /\ groups[g] = [state |-> "normal", pending |-> none, streak |-> 0, minReports |-> Groups[g].min["normal"]]
          /\ votes[g] = <<>>
      BY DEF Thr!Init
    <2> HIDE DEF none
    <2>2. groups[g].state = "normal" /\ groups[g].pending = none /\ groups[g].streak = 0
          /\ groups[g].minReports = Groups[g].min["normal"]
      BY <2>1
    <2>3. GroupFields(groups[g])
      BY <2>1, <2>2, ZenonT(30) DEF GroupFields
    <2>4. Len(votes[g]) = 0 /\ votes[g] \in Seq(States)
      BY <2>1, SMTT(30)
    <2>5. StreakInv(groups[g], votes[g])
      BY <2>2, <2>4, SMTT(30) DEF StreakInv, Thr!ThresholdConstants
    <2> QED BY <2>2, <2>3, <2>5, SMTT(30)
  <1>2. ThresholdInv /\ [Thr!Next]_(Thr!vars) => ThresholdInv'
    BY ThresholdStep
  <1> QED BY <1>1, <1>2, PTL DEF Thr!Spec

\* Whoever asks, and however their evaluations interleave, a group changes its state only when
\* the last hysteresis_windows evaluations all called for the new one (ensureEvaluatedLocked).
THEOREM ChangesAreConfirmed == ASSUME Thr!ThresholdConstants PROVE Thr!Spec => Thr!StateIsConfirmed
  <1>1. ThresholdInv /\ [Thr!Next]_(Thr!vars) => [Confirmed]_(Thr!vars)
    BY ThresholdStep
  <1>2. Thr!StateIsConfirmed <=> [][Confirmed]_(Thr!vars)
    BY DEF Thr!StateIsConfirmed, Confirmed
  <1> QED BY <1>1, <1>2, ThresholdInvariant, PTL DEF Thr!Spec
=============================================================================
