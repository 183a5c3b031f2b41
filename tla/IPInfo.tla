------------------------------- MODULE IPInfo -------------------------------
(***************************************************************************)
(* Where an address comes from (reputation: gate.go, cache.go, cymru.go,   *)
(* ipinfo_pebble.go, downloader.go): a local database, rebuilt by a daily  *)
(* job and swapped under the feet of the lookups; behind it DNS and then a *)
(* web service; in front a cache.  One address stands for one shard of the *)
(* caches.                                                                 *)
(***************************************************************************)
EXTENDS Integers, Sequences, FiniteSets

CONSTANTS
  Threads,                  \* logins
  Holds,                    \* the builds of the database that have the address
  LookupTTL, MaxAge,        \* of the lookup cache; age of an answer it may still give
  CymruTTL, NegativeTTL, PendingTTL, CymruQueue,
  KeepGzip, CleanOld,       \* ipinfo_keep_gzip, ipinfo_pebble_cleanup
  MaxBuilds, MaxTime, MaxLookups, MaxCrashes

\* What the constants are
AddressConstants == LookupTTL \in Nat /\ MaxBuilds \in Nat

VARIABLES
  now,
  gz,                       \* the archive of an earlier download is there
  builds,                   \* builds begun; each has a directory of its own, named by the time
  dirs,                     \* build -> "partial" or "whole", the directories of the root
  current,                  \* what CURRENT_DB names, 0 for nothing
  store, opened, closed,    \* the handle in use; one LoadStore has open; those closed
  builtAt, replacedAt,      \* build -> times; replacedAt of one not yet replaced is -1
  job,                      \* the download loop
  thread,                   \* thread -> [step, at, store, answer]
  cache, lock,              \* lookup cache entry in a sequence; the thread in the middle of a set
  cymru, pending, queue,    \* the resolver's cache entry, its pending mark and its queue
  served,                   \* the last answer given: [build, at] in a sequence
  lookups, crashes

diskVars == <<gz, builds, dirs, current>>
jobVars == <<diskVars, store, opened, closed, builtAt, replacedAt, job>>
dnsVars == <<cymru, pending, queue>>
vars == <<now, jobVars, thread, cache, lock, dnsVars, served, lookups, crashes>>

Builds == 1..MaxBuilds
Idle == [step |-> "idle", at |-> 0, store |-> 0, answer |-> 0]
NoThread == "none"
\* Answers: the build of the database it comes from, or one of these
Cymru == -1
Api == -2
Unknown == 0

Init ==
  /\ now = 0 /\ gz = FALSE /\ builds = 0 /\ dirs = <<>> /\ current = 0
  /\ store = 0 /\ opened = 0 /\ closed = {} /\ job = "start"
  /\ builtAt = [v \in Builds |-> 0] /\ replacedAt = [v \in Builds |-> -1]
  /\ thread = [t \in Threads |-> Idle] /\ cache = <<>> /\ lock = NoThread
  /\ cymru = <<>> /\ pending = <<>> /\ queue = 0 /\ served = <<>> /\ lookups = 0 /\ crashes = 0

Tick == now < MaxTime /\ now' = now + 1
        /\ UNCHANGED <<jobVars, thread, cache, lock, dnsVars, served, lookups, crashes>>
-----------------------------------------------------------------------------
Rest == <<now, thread, cache, lock, dnsVars, served, lookups, crashes>>
ToJob(j) == job' = j /\ UNCHANGED Rest

\* Start loads what CURRENT_DB names before the loop begins.
Start == job = "start" /\ ToJob("load") /\ UNCHANGED <<diskVars, store, opened, closed, builtAt, replacedAt>>

\* downloadSnapshot: the fetch fails, finds nothing new, or brings a new file.
Download ==
  /\ job = "wait"
  /\ \/ ToJob("wait") /\ UNCHANGED gz
     \/ gz /\ ToJob(IF store = 0 THEN "load" ELSE "wait") /\ UNCHANGED gz
     \/ gz' = TRUE /\ ToJob("build")
  /\ UNCHANGED <<builds, dirs, current, store, opened, closed, builtAt, replacedAt>>

\* buildIPInfoPebble: into a directory of its own, removed when the import fails.
BuildBegins ==
  /\ job = "build" /\ builds < MaxBuilds /\ ToJob("building")
  /\ builds' = builds + 1
  /\ dirs' = [v \in DOMAIN dirs \cup {builds'} |-> IF v = builds' THEN "partial" ELSE dirs[v]]
  /\ UNCHANGED <<gz, current, store, opened, closed, builtAt, replacedAt>>

BuildEnds ==
  /\ job = "building"
  /\ \/ dirs' = [v \in DOMAIN dirs \ {builds} |-> dirs[v]] /\ ToJob("wait") /\ UNCHANGED builtAt
     \/ dirs' = [dirs EXCEPT ![builds] = "whole"] /\ builtAt' = [builtAt EXCEPT ![builds] = now] /\ ToJob("switch")
  /\ UNCHANGED <<gz, builds, current, store, opened, closed, replacedAt>>

\* Mutant: the switch does not wait for the build.
MutPebbleCurrent ==
  /\ job \in {"building", "switch"} /\ current' = builds /\ ToJob("clean")
  /\ UNCHANGED <<gz, builds, dirs, store, opened, closed, builtAt, replacedAt>>

updateIPInfoPebbleCurrent ==
  /\ job = "switch" /\ current' = builds /\ ToJob("clean")
  /\ UNCHANGED <<gz, builds, dirs, store, opened, closed, builtAt, replacedAt>>

\* The archive goes unless it is kept, and the other directories, the one still in use
\* included; an archive that cannot be removed ends the refresh before the new store is loaded.
cleanupIPInfoPebbleDirs ==
  /\ job = "clean"
  /\ \/ ~KeepGzip /\ ToJob("wait") /\ UNCHANGED <<dirs, gz>>
     \/ /\ ToJob("load")
        /\ dirs' = IF CleanOld THEN [v \in {current} |-> dirs[v]] ELSE dirs
        /\ gz' = KeepGzip
  /\ UNCHANGED <<builds, current, store, opened, closed, builtAt, replacedAt>>

\* LoadStore opens what CURRENT_DB names, which may fail, ...
OpenStore ==
  /\ job = "load"
  /\ \/ opened' = 0 /\ ToJob("wait")
     \/ current \in DOMAIN dirs /\ opened' = current /\ ToJob("swap")
  /\ UNCHANGED <<diskVars, store, closed, builtAt, replacedAt>>

Reading == {t \in Threads : thread[t].step = "reading"}

\* ... puts it in place when no lookup holds the read lock, and closes the old one.
SwapStore ==
  /\ job = "swap" /\ Reading = {} /\ ToJob("close")
  /\ store' = opened /\ opened' = store
  /\ closed' = closed \ {store'}
  /\ replacedAt' = [v \in Builds |-> IF v = store' THEN -1 ELSE IF v = store THEN now ELSE replacedAt[v]]
  /\ UNCHANGED <<diskVars, builtAt>>

CloseOld ==
  /\ job = "close" /\ ToJob("wait") /\ opened' = 0
  /\ closed' = closed \union ({opened} \ {0, store})
  /\ UNCHANGED <<diskVars, store, builtAt, replacedAt>>

\* A crash loses what is in memory.
Crash ==
  /\ crashes < MaxCrashes /\ crashes' = crashes + 1
  /\ job' = "start" /\ store' = 0 /\ opened' = 0 /\ closed' = {}
  /\ thread' = [t \in Threads |-> Idle] /\ cache' = <<>> /\ lock' = NoThread
  /\ cymru' = <<>> /\ pending' = <<>> /\ queue' = 0 /\ served' = <<>>
  /\ UNCHANGED <<now, diskVars, builtAt, replacedAt, lookups>>
-----------------------------------------------------------------------------
Step(t, s) == thread' = [thread EXCEPT ![t].step = s] /\ UNCHANGED <<now, jobVars, lookups, crashes>>
Answer(t, s, a) == thread' = [thread EXCEPT ![t].step = s, ![t].answer = a]
                   /\ UNCHANGED <<now, jobVars, lookups, crashes>>
Serve(t, a) == /\ served' = <<[build |-> a, at |-> thread[t].at]>>
               /\ thread' = [thread EXCEPT ![t] = Idle] /\ UNCHANGED <<now, jobVars, lookups, crashes>>

\* A login looks its address up, with the time it began.
Login(t) ==
  /\ thread[t] = Idle /\ lookups < MaxLookups /\ lookups' = lookups + 1
  /\ thread' = [thread EXCEPT ![t] = [step |-> "get", at |-> now, store |-> 0, answer |-> 0]]
  /\ UNCHANGED <<now, jobVars, cache, lock, dnsVars, served, crashes>>

Expired(t) == thread[t].at > cache[1].expires

\* ttlCache.get copies the shard, with its mutex as it is at that moment, and locks the copy:
\* when a set is under way the copy is locked and nobody will ever unlock it.
Get(t) ==
  /\ thread[t].step = "get"
  /\ IF lock # NoThread THEN Step(t, "stuck") /\ UNCHANGED <<cache, served>>
     ELSE LET gone == cache # <<>> /\ Expired(t)
          IN  /\ cache' = IF gone THEN <<>> ELSE cache
              /\ IF cache # <<>> /\ ~gone /\ thread[t].at - cache[1].fetched <= MaxAge
                 THEN Serve(t, cache[1].answer)
                 ELSE Step(t, "store") /\ UNCHANGED served
  /\ UNCHANGED <<lock, dnsVars>>

\* lookupIPInfoStore reads under the read lock, which the swap waits for.
RLock(t) ==
  /\ thread[t].step = "store"
  /\ thread' = [thread EXCEPT ![t].step = IF store = 0 THEN "dns" ELSE "reading", ![t].store = store]
  /\ UNCHANGED <<now, jobVars, cache, lock, dnsVars, served, lookups, crashes>>

Read(t) ==
  /\ thread[t].step = "reading"
  /\ IF thread[t].store \in Holds THEN Answer(t, "set", thread[t].store) ELSE Step(t, "dns")
  /\ UNCHANGED <<cache, lock, dnsVars, served>>

\* cymruResolver.lookup: its cache, good or bad, else the question is queued once for a
\* while; a full queue loses it although it is marked.
LookupCymru(t) ==
  /\ thread[t].step = "dns"
  /\ LET hit == cymru # <<>> /\ thread[t].at <= cymru[1].expires
         ask == ~hit /\ (pending = <<>> \/ thread[t].at - pending[1] >= PendingTTL)
     IN  /\ IF hit /\ cymru[1].good THEN Answer(t, "set", Cymru) ELSE Step(t, "api")
         /\ pending' = IF ask THEN <<thread[t].at>> ELSE pending
         /\ queue' = IF ask /\ queue < CymruQueue THEN queue + 1 ELSE queue
         /\ cymru' = IF hit THEN cymru ELSE <<>>
  /\ UNCHANGED <<cache, lock, served>>

\* A resolver's worker stores what DNS says, or that it says nothing.
CymruWorker ==
  /\ queue > 0 /\ queue' = queue - 1 /\ pending' = <<>>
  /\ \E good \in BOOLEAN : cymru' = <<[good |-> good, expires |-> now + (IF good THEN CymruTTL ELSE NegativeTTL)]>>
  /\ UNCHANGED <<now, jobVars, thread, cache, lock, served, lookups, crashes>>

LookupApi(t) ==
  /\ thread[t].step = "api"
  /\ \/ Answer(t, "set", Api) /\ UNCHANGED served
     \/ Serve(t, Unknown)
  /\ UNCHANGED <<cache, lock, dnsVars>>

\* ttlCache.set, under the shard's mutex
SetLock(t) ==
  /\ thread[t].step = "set" /\ lock = NoThread /\ lock' = t /\ Step(t, "write")
  /\ UNCHANGED <<cache, dnsVars, served>>

SetWrite(t) ==
  /\ thread[t].step = "write" /\ lock' = NoThread
  /\ LET a == thread[t].answer
         fetched == IF a > 0 THEN builtAt[a] ELSE thread[t].at
     IN  cache' = <<[answer |-> a, expires |-> thread[t].at + LookupTTL, fetched |-> fetched]>> /\ Serve(t, a)
  /\ UNCHANGED dnsVars
-----------------------------------------------------------------------------
Lookup(t) == Get(t) \/ RLock(t) \/ Read(t) \/ LookupCymru(t) \/ LookupApi(t) \/ SetLock(t) \/ SetWrite(t)
Refresh == Start \/ Download \/ BuildBegins \/ BuildEnds \/ updateIPInfoPebbleCurrent
           \/ cleanupIPInfoPebbleDirs \/ OpenStore \/ SwapStore \/ CloseOld

Next == Tick \/ Refresh \/ CymruWorker \/ Crash \/ \E t \in Threads : Login(t) \/ Lookup(t)

Fairness == \A t \in Threads : WF_vars(Lookup(t))
Spec == Init /\ [][Next]_vars /\ Fairness
-----------------------------------------------------------------------------
\* A lookup never reads a database that is closed or half built, CURRENT_DB never names one,
\* and an answer from the database is not of a build replaced longer ago than the cache
\* keeps an entry, although reloading leaves the cache alone (lookupIP, LoadStore).
LookupsAreSound ==
  /\ \A t \in Reading : thread[t].store \notin closed
  /\ current # 0 => current \in DOMAIN dirs /\ dirs[current] = "whole"
  /\ served # <<>> /\ served[1].build > 0 =>
       LET v == served[1].build
       IN  replacedAt[v] = -1 \/ served[1].at - replacedAt[v] <= LookupTTL

\* A login's lookup always comes to an end (cymru.go: "Drop when queue is full to keep
\* ingress non-blocking.").
LookupReturns == \A t \in Threads : []<>(thread[t] = Idle)
=============================================================================
