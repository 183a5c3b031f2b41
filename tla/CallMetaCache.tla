---------------------------- MODULE CallMetaCache ----------------------------
(***************************************************************************)
(* One shard of the call metadata cache (call_meta_cache.go): a bounded    *)
(* LRU of entries under a mutex, used by ingest validation, the output     *)
(* pipeline and the grid lookup workers, and cleared when a new CTY        *)
(* database is loaded (main.go, startCTYScheduler).                        *)
(*                                                                         *)
(* LookupCTY is the one operation that leaves the mutex in the middle: it  *)
(* looks a missing callsign up in the database its caller loaded before,   *)
(* and enters the answer afterwards.  The database is known by its         *)
(* version, and CTY information by the version it came from.               *)
(***************************************************************************)
EXTENDS CallMeta, Sequences, FiniteSets, SequencesExt

CONSTANTS
  Calls, PerShard,          \* the callsigns of the shard and its capacity
  Known,               \* the callsigns the CTY database knows
  Lookers,             \* goroutines that call LookupCTY
  Grids,
  MaxVersion, MaxTime  \* bounds: database refreshes, time

Versions == 0 .. MaxVersion

VARIABLES
  now,
  order,       \* the LRU list, most recently used first
  entries,     \* the entries by callsign, blank for one without
  version,     \* the database behind ctyPtr
  refreshing,  \* the scheduler has stored a new database and not cleared yet
  pc, call, db, \* each looker: where it is, its callsign and database
  used         \* history: when each callsign was last used, in steps

lookers == <<pc, call, db>>
vars == <<now, order, entries, version, refreshing, lookers, used>>

-----------------------------------------------------------------------------
Cached == ToSet(order)

Init ==
  /\ now = 0 /\ order = <<>> /\ entries = [c \in Calls |-> Blank]
  /\ version = 0 /\ refreshing = FALSE
  /\ pc = [l \in Lookers |-> "idle"] /\ call = [l \in Lookers |-> CHOOSE c \in Calls : TRUE]
  /\ db = [l \in Lookers |-> 0]
  /\ used = <<>>

\* MoveToFront, or addEntry with its eviction
ToFront(c) == LET o == <<c>> \o SelectSeq(order, LAMBDA d : d # c)
              IN  IF Len(o) > PerShard THEN Front(o) ELSE o

\* Mutant: a hit does not move the entry.
MutUse(c, e) ==
  LET o == IF c \in Cached THEN order ELSE ToFront(c)
  IN  /\ order' = o
      /\ entries' = [d \in Calls |-> CASE d = c -> e
                                      [] d # c /\ d \in ToSet(o) -> entries[d]
                                      [] OTHER -> Blank]
      /\ used' = <<c>> \o SelectSeq(used, LAMBDA d : d # c)

\* The entry of c is found or created, and moved to the front with its new value.
\* A callsign without an entry has a blank one.
Use(c, e) ==
  /\ order' = ToFront(c)
  /\ entries' = [d \in Calls |-> CASE d = c -> e
                                  [] d # c /\ d \in ToSet(ToFront(c)) -> entries[d]
                                  [] OTHER -> Blank]
  /\ used' = <<c>> \o SelectSeq(used, LAMBDA d : d # c)

Tick ==
  /\ now < MaxTime /\ now' = now + 1
  /\ UNCHANGED <<order, entries, version, refreshing, lookers, used>>

\* The caller of LookupCTY loads the database pointer first.
Load(l) ==
  /\ pc[l] = "idle" /\ db[l] # version
  /\ db' = [db EXCEPT ![l] = version]
  /\ UNCHANGED <<now, order, entries, version, refreshing, pc, call, used>>

\* LookupCTY up to the first unlock
LookupCTY(l, c) ==
  /\ pc[l] = "idle"
  /\ IF c \in Cached THEN Use(c, entries[c]) ELSE UNCHANGED <<order, entries, used>>
  /\ IF entries[c].cty # NoCty
     THEN UNCHANGED <<pc, call>>
     ELSE pc' = [pc EXCEPT ![l] = "missed"] /\ call' = [call EXCEPT ![l] = c]
  /\ UNCHANGED <<now, version, refreshing, db>>

\* The rest of LookupCTY: the answer of the database, or of shouldRejectCTYCall
Fill(l) ==
  LET c == call[l]
  IN  /\ pc[l] = "missed"
      /\ Use(c, [entries[c] EXCEPT !.cty = IF c \in Known THEN db[l] ELSE BadCty])
      /\ pc' = [pc EXCEPT ![l] = "idle"]
      /\ UNCHANGED <<now, version, refreshing, call, db>>

LookupGrid(c) ==
  /\ c \in Cached
  /\ Use(c, LookedUp(entries[c], now))
  /\ UNCHANGED <<now, version, refreshing, lookers>>

UpdateGrid(c, g, d) ==
  /\ Use(c, IF c \notin Cached \/ Updates(entries[c], g, d, now)
            THEN WithGrid(entries[c], g, d, now) ELSE entries[c])
  /\ UNCHANGED <<now, version, refreshing, lookers>>

\* ApplyRecord, with a record stored at any time up to now
ApplyRecord(c, g, d, t) ==
  /\ t <= now
  /\ Use(c, Applied(entries[c], [grid |-> g, derived |-> d, at |-> t, cty |-> NoCty]))
  /\ UNCHANGED <<now, version, refreshing, lookers>>

\* startCTYScheduler stores the new database and then clears the cache.
StoreDatabase ==
  /\ version < MaxVersion /\ ~refreshing
  /\ version' = version + 1 /\ refreshing' = TRUE
  /\ UNCHANGED <<now, order, entries, lookers, used>>

Clear ==
  /\ refreshing
  /\ order' = <<>> /\ entries' = [c \in Calls |-> Blank] /\ used' = <<>>
  /\ refreshing' = FALSE
  /\ UNCHANGED <<now, version, lookers>>

Next ==
  \/ Tick
  \/ \E l \in Lookers, c \in Calls : LookupCTY(l, c)
  \/ \E l \in Lookers : Load(l) \/ Fill(l)
  \/ \E c \in Calls : LookupGrid(c)
  \/ \E c \in Calls, g \in Grids, d \in BOOLEAN : UpdateGrid(c, g, d)
  \/ \E c \in Calls, g \in Grids, d \in BOOLEAN, t \in 0 .. MaxTime : ApplyRecord(c, g, d, t)
  \/ StoreDatabase
  \/ Clear

Spec == Init /\ [][Next]_vars
-----------------------------------------------------------------------------
TypeOK ==
  /\ now \in 0 .. MaxTime /\ version \in Versions /\ refreshing \in BOOLEAN
  /\ order \in Seq(Calls) /\ Len(order) <= PerShard /\ IsInjective(order)
  /\ \A c \in Calls : /\ entries[c].grid \in Grids \cup {NoGrid} /\ entries[c].derived \in BOOLEAN
                      /\ entries[c].at \in 0 .. MaxTime
                      /\ entries[c].cty \in {NoCty, BadCty} \/ entries[c].cty \in Versions
  /\ pc \in [Lookers -> {"idle", "missed"}] /\ call \in [Lookers -> Calls] /\ db \in [Lookers -> Versions]

\* The cache holds the callsigns used last: eviction never takes one that was used
\* after one it keeps (addEntry, MoveToFront in every operation).
KeepsMostRecent == IsPrefix(order, used)
=============================================================================
