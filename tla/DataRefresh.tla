---------------------------- MODULE DataRefresh -----------------------------
(***************************************************************************)
(* The data files the server keeps up to date: the country file, the known *)
(* calls, the FCC archive with the database built from it, and the RBN     *)
(* skew table.  One scheduler each (main.go, uls/downloader.go) downloads  *)
(* its file with a conditional request whose validators are kept in a      *)
(* metadata file beside it (download/download.go), and loads it when the   *)
(* download says it changed.  The process may be killed between any two    *)
(* steps.  A file's content is its version at the publisher; 0 is no file. *)
(***************************************************************************)
EXTENDS Integers

CONSTANTS
  Kinds,           \* the data sets looked at: subset of {"cty", "known", "uls", "skew"}
  Bad,             \* versions that cannot be parsed
  MaxVersion,      \* bound: versions published
  MaxRestarts      \* bound: times the process is killed

\* Versions count from 1; 0 stands for none.
DataConstants == Kinds \subseteq {"cty", "known", "uls", "skew"} /\ Bad \subseteq Nat \ {0}

VARIABLES
  kind,
  validates,   \* whether the publisher honours conditional requests
  remote,      \* the version published
  file,        \* the version of the downloaded file
  meta,        \* the version the metadata file describes
  active,      \* the version in use: in memory, or for "uls" the database file
  step,        \* where the task is
  fetched,     \* the version being installed
  booting,     \* whether main's startup or the scheduler is at it
  ok,          \* ctyRefreshState: the last attempt counts as a success
  restarts

vars == <<kind, validates, remote, file, meta, active, step, fetched, booting, ok, restarts>>
publisher == <<kind, validates, remote>>

Init ==
  /\ kind \in Kinds /\ validates \in BOOLEAN
  /\ remote = 1 /\ file = 0 /\ meta = 0 /\ active = 0 /\ fetched = 0
  /\ step = "down" /\ booting = TRUE /\ ok = FALSE /\ restarts = 0

\* The publisher replaces the file.
Publish ==
  /\ remote < MaxVersion /\ remote' = remote + 1
  /\ UNCHANGED <<kind, validates, file, meta, active, step, fetched, booting, ok, restarts>>

\* The process is killed; what was in memory is gone.
Crash ==
  /\ step # "down" /\ restarts < MaxRestarts /\ restarts' = restarts + 1
  /\ step' = "down" /\ booting' = TRUE /\ ok' = FALSE
  /\ active' = IF kind = "uls" THEN active ELSE 0
  /\ UNCHANGED <<publisher, file, meta, fetched>>
-----------------------------------------------------------------------------
\* What follows an attempt: startup goes on to the scheduler, which the known calls and
\* the skew table need data for; the country file is retried with backoff.
AfterStep(loaded, failed) ==
  IF booting THEN (IF kind \in {"known", "skew"} /\ loaded = 0 THEN "off" ELSE "wait")
  ELSE IF failed /\ kind = "cty" THEN "backoff" ELSE "wait"

\* recordSuccess and recordFailure
Finish(loaded, failed) ==
  /\ step' = AfterStep(loaded, failed) /\ booting' = FALSE
  /\ ok' = IF kind = "cty" THEN ~failed ELSE ok
  /\ active' = loaded

\* main's startup.  What is there is loaded, ...
Booted(loaded, failed) == step = "down" /\ Finish(loaded, failed) /\ UNCHANGED <<publisher, file, meta, fetched, restarts>>
\* ... what is not is downloaded, a file that does not parse is not.
BootFetch ==
  /\ step = "down" /\ step' = "fetch"
  /\ UNCHANGED <<publisher, file, meta, active, fetched, booting, ok, restarts>>

BootCTY ==
  /\ kind = "cty"
  /\ IF file = 0 THEN BootFetch ELSE IF file \in Bad THEN Booted(0, TRUE) ELSE Booted(file, FALSE)

BootKnownCalls ==
  /\ kind = "known"
  /\ IF file = 0 THEN BootFetch ELSE IF file \in Bad THEN Booted(0, TRUE) ELSE Booted(file, FALSE)

\* A skew table that is missing or does not parse is downloaded.
BootSkew ==
  /\ kind = "skew"
  /\ IF file = 0 \/ file \in Bad THEN BootFetch ELSE Booted(file, FALSE)

\* StartBackground: only the database counts.
BootULS == kind = "uls" /\ IF active = 0 THEN BootFetch ELSE Booted(active, FALSE)

Boot == BootCTY \/ BootKnownCalls \/ BootSkew \/ BootULS

\* The timers: once a day, and the backoff of the country file
Woken ==
  /\ step' = "fetch"
  /\ UNCHANGED <<publisher, file, meta, active, fetched, booting, ok, restarts>>
startSkewScheduler == kind = "skew" /\ step = "wait" /\ Woken
startKnownCallScheduler == kind = "known" /\ step = "wait" /\ Woken
startCTYScheduler == kind = "cty" /\ step \in {"wait", "backoff"} /\ Woken
startScheduler == kind = "uls" /\ step = "wait" /\ Woken

Wake == startSkewScheduler \/ startKnownCallScheduler \/ startCTYScheduler \/ startScheduler
-----------------------------------------------------------------------------
\* A missing file is fetched unconditionally, except the archive, which is deleted once
\* its database is built.
Forced == IF kind = "uls" THEN active = 0 ELSE file = 0

\* What the request's validators describe: the metadata, or the file's own date
Known == IF meta # 0 THEN meta ELSE file

\* The request fails, or the answer is not a success.
FetchFails ==
  /\ step = "fetch" /\ Finish(active, TRUE)
  /\ UNCHANGED <<publisher, file, meta, fetched, restarts>>

\* StatusNotModified, and StatusSameContent from a publisher without validators: the
\* metadata is written, and the caller has nothing to load.
NotModified ==
  /\ step = "fetch" /\ kind # "skew" /\ ~Forced
  /\ \/ validates /\ Known = remote
     \/ ~validates /\ meta = remote /\ file # 0
  /\ Finish(active, FALSE)
  /\ meta' = Known
  /\ UNCHANGED <<publisher, file, fetched, restarts>>

\* A new body, in a temporary file
Fetched ==
  /\ step = "fetch" /\ kind # "skew"
  /\ Forced \/ ~((validates /\ Known = remote) \/ (~validates /\ meta = remote /\ file # 0))
  /\ fetched' = remote /\ step' = "remove"
  /\ UNCHANGED <<publisher, file, meta, active, booting, ok, restarts>>

\* The old file is removed, the new one takes its name, or that fails
RemoveOld ==
  /\ step = "remove" /\ file' = 0 /\ step' = "rename"
  /\ UNCHANGED <<publisher, meta, active, fetched, booting, ok, restarts>>

Rename ==
  /\ step = "rename"
  /\ \/ file' = fetched /\ step' = "meta" /\ UNCHANGED <<active, booting, ok>>
     \/ Finish(active, TRUE) /\ UNCHANGED file
  /\ UNCHANGED <<publisher, meta, fetched, restarts>>

\* A metadata file that cannot be written is only logged.
WriteMetadata ==
  /\ step = "meta" /\ step' = "load"
  /\ meta' \in {fetched, meta}
  /\ UNCHANGED <<publisher, file, active, fetched, booting, ok, restarts>>

\* Mutant: the new file is taken into use without being parsed.
MutLoadInto == Finish(file, FALSE) /\ UNCHANGED <<publisher, file, meta, fetched, restarts>>

\* The last good one stays when the new one does not parse.
LoadInto ==
  /\ IF file \in Bad THEN Finish(active, TRUE) ELSE Finish(file, FALSE)
  /\ UNCHANGED <<publisher, file, meta, fetched, restarts>>

refreshCTYDatabase == step = "load" /\ kind = "cty" /\ LoadInto
refreshKnownCallsigns == step = "load" /\ kind = "known" /\ LoadInto

\* refreshSkewTable: the table is replaced, then its file is written or not
FetchSkew ==
  /\ step = "fetch" /\ kind = "skew"
  /\ IF remote \in Bad THEN Finish(active, TRUE) /\ UNCHANGED fetched
     ELSE /\ active' = remote /\ fetched' = remote
          /\ step' = "write" /\ UNCHANGED <<booting, ok>>
  /\ UNCHANGED <<publisher, file, meta, restarts>>

WriteSkew ==
  /\ step = "write" /\ file' \in {fetched, file}
  /\ Finish(active, file' # fetched)
  /\ UNCHANGED <<publisher, meta, fetched, restarts>>

\* Refresh of the archive: extracting it or building the database fails, ...
BuildFails ==
  /\ step = "load" /\ kind = "uls" /\ Finish(active, TRUE)
  /\ UNCHANGED <<publisher, file, meta, fetched, restarts>>

\* ... or the old database is removed, the new one takes its name, and the archive is deleted.
BuildDatabase ==
  /\ step = "load" /\ kind = "uls" /\ file \notin Bad
  /\ active' = 0 /\ step' = "swap"
  /\ UNCHANGED <<publisher, file, meta, fetched, booting, ok, restarts>>

SwapDatabase ==
  /\ step = "swap" /\ Finish(file, FALSE) /\ file' = 0
  /\ UNCHANGED <<publisher, meta, fetched, restarts>>

Refresh ==
  \/ Boot \/ Wake \/ FetchFails \/ NotModified \/ Fetched \/ RemoveOld \/ Rename \/ WriteMetadata
  \/ refreshCTYDatabase \/ refreshKnownCallsigns \/ FetchSkew \/ WriteSkew \/ BuildFails \/ BuildDatabase \/ SwapDatabase

Next == Publish \/ Crash \/ Refresh

\* The schedulers wake up for ever, the process goes on and is restarted; at last the
\* publisher answers and files can be written.
Failing == FetchFails \/ ((Rename \/ WriteSkew) /\ file' # fetched)
Fairness == WF_vars(Refresh) /\ <>[][~Failing]_vars

Spec == Init /\ [][Next]_vars /\ Fairness
-----------------------------------------------------------------------------
\* The last good version stays in use until a newer good one replaces it, over failed
\* downloads, files that do not parse and restarts.
LastGoodStays ==
  [][active' # active =>
       /\ active' \notin Bad
       /\ active' > active \/ step = "swap" \/ step' \in {"down", "swap"}]_vars

\* Once the publisher rests on a good version it is taken into use, unless the scheduler was
\* never started.  The database of the archive may stay behind: a download that was renamed
\* but not built is answered with "not modified" from then on.
TakenIntoUse ==
  <>[](kind = "uls" \/ active = remote) \/ []<>(remote \in Bad) \/ []<>(step = "off")

\* The data in use is good and follows what is published (main.go, download.Download).
GoodAndCurrent == LastGoodStays /\ TakenIntoUse
=============================================================================
