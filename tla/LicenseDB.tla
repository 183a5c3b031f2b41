----------------------------- MODULE LicenseDB ------------------------------
(***************************************************************************)
(* The FCC licence lookups (uls/license_check.go, cache.go) against the    *)
(* rebuild of their database (downloader.go, loader.go, extract.go).  The  *)
(* ingest validator and the output pipeline ask, each from its goroutine;  *)
(* the scheduler replaces the database under them.  Every error and every  *)
(* lookup during a rebuild lets the call pass.                             *)
(***************************************************************************)
EXTENDS Integers, Sequences, FiniteSets

CONSTANTS
  Threads,             \* the goroutines that look up
  Calls,
  Archives,            \* sequence of [hd : id -> licence status, am : id -> call]
  TTL, Slots,          \* of the cache of answers
  Present,             \* whether the database file exists at startup
  MaxTime, MaxLookups  \* bounds

\* What the constants are
LicenceConstants ==
  /\ TTL \in Nat /\ MaxTime \in Nat /\ MaxLookups \in Nat /\ Present \in BOOLEAN
  /\ Len(Archives) \in Nat \ {0}

VARIABLES
  clock, lookups,
  dbFile,      \* version of the database file, 0 when there is none
  path,        \* whether licenseDBPath is set
  dead, refreshActive, once,   \* flags; once is TRUE when licenseOnce has run
  handle,      \* licenseDB: "none", or "open" with the version its connection reads
  entries, slots, hand,        \* the cache: call -> entry, slot -> call, the clock hand
  refresh,     \* [step of Refresh, version of the archive it builds from]
  thread,      \* thread -> [step, call, at, db, allow]
  inPlace      \* history: version -> the last time a lookup could read it

vars == <<clock, lookups, dbFile, path, dead, refreshActive, once, handle,
          entries, slots, hand, refresh, thread, inPlace>>
flags == <<path, dead, refreshActive, once>>
cache == <<entries, slots, hand>>

Never == -1
NoAnswer == [value |-> FALSE, at |-> Never, used |-> FALSE, slot |-> 0]
NoHandle == [open |-> FALSE, conn |-> 0, gen |-> 0]
Idle == [step |-> "idle", call |-> "", at |-> 0, gen |-> 0, allow |-> TRUE]
EmptyCache == [entries |-> [c \in Calls |-> NoAnswer], slots |-> [i \in 0..Slots-1 |-> ""]]

\* loadTable: the rows of AM whose licence is active in HD, which is loaded first
Licensed(v) == {Archives[v].am[id] : id \in {i \in DOMAIN Archives[v].am :
                  i \in DOMAIN Archives[v].hd /\ Archives[v].hd[i] = "A"}}

\* SetLicenseDBPath at startup: without a file the path stays empty
Init ==
  /\ clock = 0 /\ lookups = 0
  /\ dbFile = (IF Present THEN 1 ELSE 0) /\ path = Present /\ dead = ~Present
  /\ refreshActive = FALSE /\ once = FALSE /\ handle = NoHandle
  /\ entries = EmptyCache.entries /\ slots = EmptyCache.slots /\ hand = 0
  /\ refresh = [step |-> "waiting", version |-> IF Present THEN 2 ELSE 1]
  /\ thread = [t \in Threads |-> Idle]
  /\ inPlace = [v \in 1..Len(Archives) |-> IF Present /\ v = 1 THEN 0 ELSE Never]

Tick ==
  /\ clock < MaxTime /\ clock' = clock + 1
  /\ inPlace' = [v \in DOMAIN inPlace |->
                   IF v = dbFile \/ (handle.open /\ v = handle.conn) THEN clock + 1 ELSE inPlace[v]]
  /\ UNCHANGED <<lookups, dbFile, flags, handle, cache, refresh, thread>>
-----------------------------------------------------------------------------
\* ttlCache.get: an entry past the TTL is deleted, one that is used gets its second chance
Expired(e) == clock - e.at > TTL
Hit(call) == entries[call].at # Never /\ ~Expired(entries[call])

CacheGet(call) ==
  IF entries[call].at = Never THEN UNCHANGED cache
  ELSE IF Expired(entries[call])
  THEN /\ entries' = [entries EXCEPT ![call] = NoAnswer]
       /\ slots' = [slots EXCEPT ![entries[call].slot] = ""] /\ UNCHANGED hand
  ELSE entries' = [entries EXCEPT ![call].used = TRUE] /\ UNCHANGED <<slots, hand>>

\* findSlotLocked: a free slot while there is room; else the hand clears the marks of
\* used entries and takes the first expired or unmarked one.
Distance(i) == (i - hand + Slots) % Slots
FirstFrom(S) == CHOOSE i \in S : \A j \in S : Distance(i) <= Distance(j)

FreeSlots == {i \in 0..Slots-1 : slots[i] = ""}
Evictable == {i \in 0..Slots-1 : Expired(entries[slots[i]]) \/ ~entries[slots[i]].used}
Passed(i) == IF Evictable = {} THEN 0..Slots-1 ELSE {j \in 0..Slots-1 : Distance(j) < Distance(i)}

CacheSet(call, value, at) ==
  LET free == FreeSlots # {}
      slot == IF free THEN FirstFrom(FreeSlots) ELSE IF Evictable # {} THEN FirstFrom(Evictable) ELSE hand
      marked == IF free THEN {} ELSE {slots[j] : j \in Passed(slot)}
      swept == [c \in Calls |-> IF ~free /\ c = slots[slot] THEN NoAnswer
                                ELSE [entries[c] EXCEPT !.used = @ /\ c \notin marked]]
  IN  IF entries[call].at # Never
      THEN /\ entries' = [entries EXCEPT ![call].value = value, ![call].at = at, ![call].used = TRUE]
           /\ UNCHANGED <<slots, hand>>
      ELSE /\ entries' = [swept EXCEPT ![call] = [value |-> value, at |-> at, used |-> TRUE, slot |-> slot]]
           /\ slots' = [slots EXCEPT ![slot] = call]
           /\ hand' = (slot + 1) % Slots

ResetLicenseDB ==
  /\ handle' = [NoHandle EXCEPT !.gen = handle.gen]
  /\ once' = FALSE /\ dead' = FALSE
  /\ entries' = EmptyCache.entries /\ slots' = EmptyCache.slots /\ hand' = 0
-----------------------------------------------------------------------------
\* Mutant: while the database is rebuilt every call is refused.
MutAsk(t, call) ==
  /\ thread[t].step = "idle" /\ lookups < MaxLookups /\ lookups' = lookups + 1
  /\ IF refreshActive \/ dead
     THEN thread' = [thread EXCEPT ![t] = [step |-> "done", call |-> call, at |-> clock, gen |-> 0, allow |-> FALSE]]
          /\ UNCHANGED cache
     ELSE CacheGet(call) /\ UNCHANGED thread
  /\ UNCHANGED <<clock, dbFile, flags, handle, refresh, inPlace>>

\* IsLicensedUS: the early returns, or an answer of the cache, or on to the database
Ask(t, call) ==
  /\ thread[t].step = "idle" /\ lookups < MaxLookups /\ lookups' = lookups + 1
  /\ IF refreshActive \/ dead
     THEN thread' = [thread EXCEPT ![t] = [Idle EXCEPT !.step = "done", !.call = call]] /\ UNCHANGED cache
     ELSE /\ CacheGet(call)
          /\ thread' = [thread EXCEPT ![t] =
               IF Hit(call) THEN [Idle EXCEPT !.step = "done", !.call = call, !.at = clock, !.allow = entries[call].value]
               ELSE [Idle EXCEPT !.step = "open", !.call = call, !.at = clock]]
  /\ UNCHANGED <<clock, dbFile, flags, handle, refresh, inPlace>>

\* getLicenseDB: the once runs its function whether or not that opens anything.
Open(t) ==
  LET opens == ~once /\ path /\ ~refreshActive
  IN  /\ thread[t].step = "open"
      /\ once' = TRUE
      /\ handle' = IF opens THEN [open |-> TRUE, conn |-> 0, gen |-> handle.gen + 1] ELSE handle
      /\ thread' = [thread EXCEPT ![t].step = IF handle'.open THEN "query" ELSE "store",
                                  ![t].gen = handle'.gen]
      /\ UNCHANGED <<clock, lookups, dbFile, path, dead, refreshActive, cache, refresh, inPlace>>

\* The query.  The first one of a handle connects to the file, which may be gone: then the
\* handle is reset and the call passes.  A handle closed meanwhile is an error too.
Query(t) ==
  LET closed == ~handle.open \/ handle.gen # thread[t].gen
      version == IF handle.conn # 0 THEN handle.conn ELSE dbFile
  IN  /\ thread[t].step = "query"
      /\ IF closed
         THEN thread' = [thread EXCEPT ![t].step = "store"] /\ UNCHANGED <<handle, once, dead, cache>>
         ELSE IF version = 0
         THEN thread' = [thread EXCEPT ![t].step = "store"] /\ ResetLicenseDB
         ELSE /\ thread' = [thread EXCEPT ![t].step = "store", ![t].allow = thread[t].call \in Licensed(version)]
              /\ handle' = [handle EXCEPT !.conn = version] /\ UNCHANGED <<once, dead, cache>>
      /\ UNCHANGED <<clock, lookups, dbFile, path, refreshActive, refresh, inPlace>>

\* The answer goes into the cache of the moment, stamped with the start of the lookup.
Store(t) ==
  /\ thread[t].step = "store"
  /\ CacheSet(thread[t].call, thread[t].allow, thread[t].at)
  /\ thread' = [thread EXCEPT ![t].step = "done"]
  /\ UNCHANGED <<clock, lookups, dbFile, flags, handle, refresh, inPlace>>

\* The caller has its answer.
Return(t) ==
  /\ thread[t].step = "done" /\ thread' = [thread EXCEPT ![t] = Idle]
  /\ UNCHANGED <<clock, lookups, dbFile, flags, handle, cache, refresh, inPlace>>
-----------------------------------------------------------------------------
\* Refresh, once the archive is there: it is announced, ...
StartRefresh ==
  /\ refresh.step = "waiting" /\ refresh.version <= Len(Archives)
  /\ refreshActive' = TRUE /\ refresh' = [refresh EXCEPT !.step = "extract"]
  /\ UNCHANGED <<clock, lookups, dbFile, path, dead, once, handle, cache, thread, inPlace>>

\* ... extracted, and the handle is closed and the cache cleared, ...
Reset ==
  /\ refresh.step = "extract" /\ ResetLicenseDB
  /\ refresh' = [refresh EXCEPT !.step = "build"]
  /\ UNCHANGED <<clock, lookups, dbFile, path, refreshActive, thread, inPlace>>

\* ... the new database is built beside the old one, which is removed, and takes its place.
RemoveDB ==
  /\ refresh.step = "build" /\ refresh' = [refresh EXCEPT !.step = "swap"]
  /\ dbFile' = 0
  /\ UNCHANGED <<clock, lookups, flags, handle, cache, thread, inPlace>>

SwapDB ==
  /\ refresh.step = "swap" /\ refresh' = [step |-> "finish", version |-> refresh.version + 1]
  /\ dbFile' = refresh.version
  /\ inPlace' = [inPlace EXCEPT ![dbFile'] = clock]
  /\ UNCHANGED <<clock, lookups, flags, handle, cache, thread>>

\* Also the end of a failed extraction, build or swap
EndRefresh ==
  /\ refresh.step # "waiting" /\ refresh' = [refresh EXCEPT !.step = "waiting"] /\ refreshActive' = FALSE
  /\ UNCHANGED <<clock, lookups, dbFile, path, dead, once, handle, cache, thread, inPlace>>

Next ==
  \/ Tick \/ StartRefresh \/ Reset \/ RemoveDB \/ SwapDB \/ EndRefresh
  \/ \E t \in Threads : Open(t) \/ Query(t) \/ Store(t) \/ Return(t) \/ \E c \in Calls : Ask(t, c)

Spec == Init /\ [][Next]_vars
-----------------------------------------------------------------------------
\* A call is refused only because a database that was in place at most the cache's TTL
\* before the lookup holds no licence of it: no error, rebuild, eviction or answer stored
\* after its database was replaced makes a refusal out of nothing, or keeps one longer.
RefusalIsFresh ==
  \A t \in Threads :
    thread[t].step = "done" /\ ~thread[t].allow =>
      \E v \in DOMAIN inPlace : /\ inPlace[v] # Never
                                /\ thread[t].call \notin Licensed(v)
                                /\ thread[t].at - inPlace[v] <= TTL
=============================================================================
