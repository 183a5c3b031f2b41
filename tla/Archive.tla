------------------------------ MODULE Archive ------------------------------
(***************************************************************************)
(* The spot archive (archive/archive.go): a bounded queue that the output  *)
(* pipeline never blocks on, an insert loop that writes batches to Pebble, *)
(* a cleanup loop that enforces a retention per mode, and the history      *)
(* query of SHOW DX (commands/processor.go).                               *)
(*                                                                         *)
(* Pebble is a map from keys <<time, sequence number>>, in key order, to   *)
(* records; an iterator sees the map as it was when the iterator was made. *)
(***************************************************************************)
EXTENDS Integers, Sequences, FiniteSets, SequencesExt

CONSTANTS
  Spots,               \* spots of the output pipeline: [id, ts, mode, call]
  QueueSize, BatchSize,
  CleanupBatch,        \* deletions per write batch
  RetentionFT, RetentionDefault,   \* 0: kept for ever
  Multiplier, Growth, ScanMax,     \* recentScanMultiplier, Growth, Max
  MaxCount,            \* showDXMaxCount
  MaxTime, MaxRestarts,   \* bounds
  Stale                \* records of an older encoding found in the database: [key, ts]

VARIABLES
  clock, offered,         \* the time; the spots the pipeline has handed over
  sending,                \* the spot in Enqueue, past its stop check
  queue, batch, seq,      \* channel, insert loop
  db,
  stop, inserting, cleaning, closed,   \* lifecycle
  iter, cutoffs, pending, \* a cleanup pass
  atStop, restarts        \* history: accepted when Stop was called; bound

writer == <<sending, queue, batch, seq, stop, inserting, closed, atStop>>
pass == <<cleaning, iter, cutoffs, pending>>
vars == <<clock, offered, writer, db, pass, restarts>>

Never == -1
RecordOf(s) == [id |-> s.id, ft |-> s.mode \in {"FT8", "FT4"}, call |-> s.call, valid |-> TRUE]

\* Keys in the order of their bytes
Before(k, l) == k[1] < l[1] \/ (k[1] = l[1] /\ k[2] < l[2])
Ascending(m) == SetToSortSeq(DOMAIN m, Before)

-----------------------------------------------------------------------------
Init ==
  /\ clock = 1 /\ offered = {} /\ sending = {}
  /\ queue = <<>> /\ batch = <<>> /\ seq = 0
  /\ db = [k \in {r.key : r \in Stale} |-> [id |-> 0, ft |-> FALSE, call |-> "", valid |-> FALSE]]
  /\ stop = FALSE /\ inserting = TRUE /\ cleaning = "idle" /\ closed = FALSE
  /\ iter = <<>> /\ cutoffs = [ft |-> Never, default |-> Never] /\ pending = {}
  /\ atStop = {} /\ restarts = 0

Tick == clock < MaxTime /\ clock' = clock + 1 /\ UNCHANGED <<offered, writer, db, pass, restarts>>

\* Enqueue: the stop check ...
EnqueueCheck(s) ==
  /\ s \notin offered /\ sending = {} /\ s.ts <= clock
  /\ offered' = offered \cup {s}
  /\ sending' = IF stop THEN {} ELSE {s}
  /\ UNCHANGED <<clock, queue, batch, seq, stop, inserting, closed, atStop, db, pass, restarts>>

\* ... and the send, which drops the spot when the queue is full.
EnqueueSend ==
  \E s \in sending :
    /\ sending' = {}
    /\ queue' = IF Len(queue) < QueueSize THEN Append(queue, s) ELSE queue
    /\ UNCHANGED <<clock, offered, batch, seq, stop, inserting, closed, atStop, db, pass, restarts>>

\* flush: one write batch.  Its keys are the spots' own times and a number that
\* the writer counts up.
flush(b) ==
  LET keys == {<<b[i].ts, seq + i>> : i \in 1 .. Len(b)}
  IN  /\ db' = [k \in DOMAIN db \cup keys |-> IF k \in keys THEN RecordOf(b[k[2] - seq]) ELSE db[k]]
      /\ seq' = seq + Len(b)

\* insertLoop: a spot from the queue
InsertReceive ==
  LET b == Append(batch, Head(queue))
  IN  /\ inserting /\ queue # <<>>
      /\ queue' = Tail(queue)
      /\ IF Len(b) >= BatchSize THEN flush(b) /\ batch' = <<>>
                                ELSE batch' = b /\ UNCHANGED <<db, seq>>
      /\ UNCHANGED <<clock, offered, sending, stop, inserting, closed, atStop, pass, restarts>>

\* insertLoop: the batch interval
InsertTimer ==
  /\ inserting /\ batch # <<>>
  /\ flush(batch) /\ batch' = <<>>
  /\ UNCHANGED <<clock, offered, sending, queue, stop, inserting, closed, atStop, pass, restarts>>

\* Mutant: the loop returns with what it has and leaves the queue.
MutDrainQueue == batch

\* drainQueue takes everything; the batches it writes on the way are one here,
\* since nobody else writes keys.
drainQueue == batch \o queue

\* insertLoop: stop
InsertStop ==
  /\ inserting /\ stop
  /\ flush(drainQueue) /\ batch' = <<>> /\ queue' = <<>> /\ inserting' = FALSE
  /\ UNCHANGED <<clock, offered, sending, stop, closed, atStop, pass, restarts>>

-----------------------------------------------------------------------------
retentionCutoff(seconds) == IF seconds <= 0 THEN Never ELSE clock - seconds

\* cleanupLoop: a tick starts a pass over the database as it is now.
CleanupBegin ==
  /\ cleaning = "idle" /\ ~closed
  /\ cutoffs' = [ft |-> retentionCutoff(RetentionFT), default |-> retentionCutoff(RetentionDefault)]
  /\ iter' = [i \in 1 .. Cardinality(DOMAIN db) |->
               [key |-> Ascending(db)[i], rec |-> db[Ascending(db)[i]]]]
  /\ pending' = {}
  /\ cleaning' = "scan"
  /\ UNCHANGED <<clock, offered, writer, db, restarts>>

Without(m, keys) == [k \in DOMAIN m \ keys |-> m[k]]

\* A record that cannot be decoded goes as soon as any retention has passed.
Expires(r) ==
  ~r.rec.valid \/ r.key[1] < IF r.rec.ft THEN cutoffs.ft ELSE cutoffs.default

\* The first time that no cutoff reaches
stopAfter == IF cutoffs.ft > cutoffs.default THEN cutoffs.ft ELSE cutoffs.default

\* cleanupOnce: the next record of the iterator; the pass ends at the first one
\* that no cutoff reaches.
CleanupStep ==
  LET r == Head(iter)
      del == pending \cup {r.key}
  IN  /\ cleaning = "scan"
      /\ CASE iter = <<>> \/ (iter # <<>> /\ r.key[1] >= stopAfter) ->
                db' = Without(db, pending) /\ pending' = {} /\ cleaning' = "idle" /\ iter' = <<>>
           [] iter # <<>> /\ r.key[1] < stopAfter /\ ~Expires(r) ->
                iter' = Tail(iter) /\ UNCHANGED <<db, pending, cleaning>>
           [] OTHER ->
                /\ iter' = Tail(iter) /\ UNCHANGED cleaning
                /\ IF Cardinality(del) >= CleanupBatch THEN db' = Without(db, del) /\ pending' = {}
                                                       ELSE pending' = del /\ UNCHANGED db
      /\ UNCHANGED <<clock, offered, writer, cutoffs, restarts>>

\* cleanupLoop: stop, which a pass under way does not look at
CleanupStop ==
  /\ cleaning = "idle" /\ stop
  /\ cleaning' = "done"
  /\ UNCHANGED <<clock, offered, writer, db, iter, cutoffs, pending, restarts>>

\* Stop: signal, ...
Stop ==
  /\ ~stop
  /\ stop' = TRUE /\ atStop' = {queue[i] : i \in DOMAIN queue} \cup {batch[i] : i \in DOMAIN batch}
  /\ UNCHANGED <<clock, offered, sending, queue, batch, seq, inserting, closed, db, pass, restarts>>

\* ... wait for both loops and close the database.
Close ==
  /\ stop /\ ~inserting /\ cleaning = "done" /\ ~closed
  /\ closed' = TRUE
  /\ UNCHANGED <<clock, offered, sending, queue, batch, seq, stop, inserting, atStop, db, pass, restarts>>

NewWriter ==
  /\ sending' = {} /\ queue' = <<>> /\ batch' = <<>> /\ seq' = 0
  /\ stop' = FALSE /\ inserting' = TRUE /\ closed' = FALSE /\ atStop' = {}
  /\ cleaning' = "idle" /\ iter' = <<>> /\ pending' = {} /\ UNCHANGED cutoffs

\* The process starts again, after a shutdown or a crash
Restart ==
  /\ restarts < MaxRestarts
  /\ restarts' = restarts + 1
  /\ NewWriter
  /\ UNCHANGED <<clock, offered, db>>

Next ==
  \/ Tick \/ \E s \in Spots : EnqueueCheck(s)
  \/ EnqueueSend \/ InsertReceive \/ InsertTimer \/ InsertStop
  \/ CleanupBegin \/ CleanupStep \/ CleanupStop \/ Stop \/ Close \/ Restart

\* The loops run, the cleanup ticker ticks, and no call waits for ever.
Fairness ==
  /\ WF_vars(EnqueueSend) /\ WF_vars(InsertReceive) /\ WF_vars(InsertTimer) /\ WF_vars(InsertStop)
  /\ WF_vars(CleanupBegin) /\ WF_vars(CleanupStep) /\ SF_vars(CleanupStop) /\ WF_vars(Close)

Spec == Init /\ [][Next]_vars /\ Fairness

-----------------------------------------------------------------------------
(* The history query                                                       *)

Matches(call, r) == call = "" \/ r.call = call

\* Mutant: a scan ends with its first window.
MutScanEnds(scanned, window) == scanned >= window

\* Whether a scan has used up its last window
ScanEnds(scanned, window) == scanned >= window /\ window >= ScanMax

\* How far a scan that has used up its window may go on
Widen(limit) == IF limit > ScanMax \div Growth THEN ScanMax ELSE limit * Growth

\* RecentFiltered: the position of the iterator from the newest key, the records
\* scanned, the current window and the results
RecentFiltered(limit, call) ==
  LET keys == Ascending(db)
      n == Len(keys)
      scan[i \in 0 .. n] ==
        IF i = 0 THEN [window |-> IF limit * Multiplier > ScanMax THEN ScanMax ELSE limit * Multiplier,
                       over |-> FALSE, out |-> <<>>]
        ELSE LET st == scan[i - 1]
                 r == db[keys[n - i + 1]]
                 full == i - 1 >= st.window
                 over == st.over \/ Len(st.out) >= limit \/ ScanEnds(i - 1, st.window)
             IN  [window |-> IF full /\ ~over THEN Widen(st.window) ELSE st.window,
                  over |-> over,
                  out |-> IF ~over /\ r.valid /\ Matches(call, r) THEN Append(st.out, r.id) ELSE st.out]
  IN  scan[n].out

\* SHOW MYDX and SHOW DX: oldest first
handleShowMYDX(count, call) ==
  IF count \in 1 .. MaxCount THEN Reverse(RecentFiltered(count, call)) ELSE <<>>

-----------------------------------------------------------------------------
(* Properties                                                              *)

\* Property: SHOW DX n lists the n newest archived spots that pass the filter
\* and no others, in time order, although the scan works with a window that
\* it widens in jumps: nothing among the newest ScanMax records is missed.
HistoryIsNewest ==
  \A count \in 1 .. MaxCount, call \in {s.call : s \in Spots} \cup {""} :
    LET keys == Ascending(db)
        newest == SubSeq(keys, 1 + Len(keys) - IF Len(keys) < ScanMax THEN Len(keys) ELSE ScanMax, Len(keys))
        good == SelectSeq(newest, LAMBDA k : db[k].valid /\ Matches(call, db[k]))
        last == SubSeq(good, 1 + Len(good) - IF Len(good) < count THEN Len(good) ELSE count, Len(good))
    IN  handleShowMYDX(count, call) = [i \in DOMAIN last |-> db[last[i]].id]

Retention(ft) == IF ft THEN RetentionFT ELSE RetentionDefault
Expired(ts, ft) == Retention(ft) > 0 /\ ts < clock - Retention(ft)

\* Property: a cleanup pass deletes nothing before the retention of its own
\* mode has passed, although the pass goes on while spots are written, the
\* clock moves and the deletions are held back in batches; and a record
\* whose retention has passed does not stay for ever.
RetentionHonoured ==
  /\ [][\A k \in DOMAIN db \ DOMAIN db' : ~db[k].valid \/ Expired(k[1], db[k].ft)]_vars
  /\ \A s \in Spots : []<>(\/ stop \/ \A k \in DOMAIN db : db[k].id # s.id
                             \/ ~Expired(s.ts, s.mode \in {"FT8", "FT4"}))

Kept(s) ==
  \/ \E k \in DOMAIN db : db[k].id = s.id
  \/ Expired(s.ts, s.mode \in {"FT8", "FT4"})

\* Property: what the pipeline hands over is kept until its retention has passed, and Stop
\* loses none of the spots that were queued or batched when it was called: the insert loop
\* writes them before the database is closed.
KeptUntilExpired == RetentionHonoured /\ [](closed => \A s \in atStop : Kept(s))
=============================================================================
