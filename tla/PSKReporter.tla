---------------------------- MODULE PSKReporter ----------------------------
(***************************************************************************)
(* The PSKReporter feed (pskreporter/client.go): MQTT handlers copy each   *)
(* payload into a pooled buffer and queue it, workers decode it and route  *)
(* the spot, and the loops of main.go hand spots to the ingest validator   *)
(* and path-only spots to the path predictor.                              *)
(***************************************************************************)
EXTENDS Integers, Sequences, FiniteSets, SequencesExt

CONSTANTS
  Messages,       \* [id, topic, size, parses, report, canonical, variant, psk, valid, time, grids]
  Handlers,       \* the MQTT client's inbound workers; handlers run in any order
  Workers,
  Topics,         \* number of topics; they are subscribed in order
  AllowedModes, PathOnlyModes,
  MaxPayload, PoolMaxBytes,
  PoolCap, QueueCap, SpotBuffer, IngestCap,
  MaxFuture, MaxPast,   \* an hour, a day
  MaxAge,               \* spot_policy.max_age_seconds; 0 is off
  PredictorOn,
  MaxTime, MaxLosses

VARIABLES
  conn,           \* "new", "up", "lost", "failed", "closed"
  subscribed,     \* topics subscribed since the last connect
  sent,           \* messages the broker has delivered
  handler,        \* handler -> the buffer it holds, 0 for none
  content, size,  \* buffer -> the message last copied into it, its capacity
  pool, queue,    \* the free buffers and the processing queue, oldest first
  worker,         \* worker -> the buffer it handles, 0 for none, -1 when it has ended
  spotChan, pathOnlyChan, ingest, predictor,
  shutdown, stopped,
  losses, now

connVars == <<conn, subscribed, losses>>
bufVars == <<handler, content, size, pool, queue>>
outVars == <<spotChan, pathOnlyChan, ingest, predictor>>
vars == <<connVars, sent, bufVars, worker, outVars, shutdown, stopped, now>>

Nil == 0
Running == conn # "new" /\ ~stopped     \* c.processing # nil
Spot(m) == [id |-> m.id, mode |-> m.canonical, time |-> m.time, grids |-> m.grids]

\* NewClient
Init ==
  /\ conn = "new" /\ subscribed = 0 /\ losses = 0 /\ sent = {} /\ now = 0
  /\ handler = [h \in Handlers |-> Nil] /\ worker = [w \in Workers |-> Nil]
  /\ content = <<>> /\ size = <<>> /\ pool = <<>> /\ queue = <<>>
  /\ spotChan = <<>> /\ pathOnlyChan = <<>> /\ ingest = <<>> /\ predictor = <<>>
  /\ shutdown = FALSE /\ stopped = FALSE

Tick == now < MaxTime /\ now' = now + 1
        /\ UNCHANGED <<connVars, sent, bufVars, worker, outVars, shutdown, stopped>>
-----------------------------------------------------------------------------
\* The first connection: the workers start whatever its outcome, and when it fails main
\* does not start the loops and nobody tries again.
Connect ==
  /\ conn = "new" /\ ~shutdown
  /\ conn' \in {"up", "failed"}
  /\ UNCHANGED <<subscribed, losses, sent, bufVars, worker, outVars, shutdown, stopped, now>>

\* The MQTT client subscribes the topics in order after each connect; a failure ends the loop.
onConnect ==
  /\ conn = "up" /\ subscribed = 0
  /\ subscribed' \in 0..Topics
  /\ UNCHANGED <<conn, losses, sent, bufVars, worker, outVars, shutdown, stopped, now>>

onConnectionLost ==
  /\ conn = "up" /\ losses < MaxLosses
  /\ conn' = "lost" /\ subscribed' = 0 /\ losses' = losses + 1
  /\ UNCHANGED <<sent, bufVars, worker, outVars, shutdown, stopped, now>>

Reconnect ==
  /\ conn = "lost" /\ conn' = "up"
  /\ UNCHANGED <<subscribed, losses, sent, bufVars, worker, outVars, shutdown, stopped, now>>
-----------------------------------------------------------------------------
InUse == Range(pool) \union Range(queue) \union Range(handler) \union Range(worker)
Fresh == IF DOMAIN content \subseteq InUse THEN Len(content) + 1
         ELSE CHOOSE b \in DOMAIN content \ InUse : TRUE

\* A pooled buffer that is large enough, or a new one; one that is too small is given up.
acquirePayloadBuffer(n) ==
  IF n > PoolMaxBytes \/ pool = <<>> \/ size[Head(pool)] < n THEN Fresh ELSE Head(pool)

PoolAfterAcquire(n) == IF n > PoolMaxBytes \/ pool = <<>> THEN pool ELSE Tail(pool)

releasePayloadBuffer(b) ==
  IF size[b] > PoolMaxBytes \/ Len(pool) >= PoolCap THEN pool ELSE Append(pool, b)

\* The handler drops what is too large or comes when there is no queue; else it copies the
\* payload into a buffer of its own.
messageHandler(h, m) ==
  /\ conn = "up" /\ m.topic <= subscribed /\ m \notin sent /\ handler[h] = Nil
  /\ sent' = sent \union {m}
  /\ IF shutdown \/ m.size > MaxPayload \/ ~Running \/ m.size = 0
     THEN UNCHANGED bufVars
     ELSE LET b == acquirePayloadBuffer(m.size)
              kept == b \in DOMAIN content
          IN  /\ handler' = [handler EXCEPT ![h] = b]
              /\ content' = IF kept THEN [content EXCEPT ![b] = m] ELSE Append(content, m)
              /\ size' = IF ~kept THEN Append(size, m.size)
                         ELSE IF b = Fresh THEN [size EXCEPT ![b] = m.size] ELSE size
              /\ pool' = PoolAfterAcquire(m.size)
              /\ UNCHANGED queue
  /\ UNCHANGED <<connVars, worker, outVars, shutdown, stopped, now>>

\* Mutant: the handler gives its buffer back although a worker is to read it.
MutEnqueue(h) ==
  /\ handler[h] # Nil /\ handler' = [handler EXCEPT ![h] = Nil]
  /\ pool' = releasePayloadBuffer(handler[h])
  /\ queue' = IF ~shutdown /\ Len(queue) < QueueCap THEN Append(queue, handler[h]) ELSE queue
  /\ UNCHANGED <<connVars, sent, content, size, worker, outVars, shutdown, stopped, now>>

\* It never waits for room: the buffer is queued or given back.  After Stop both are ready.
Enqueue(h) ==
  /\ handler[h] # Nil /\ handler' = [handler EXCEPT ![h] = Nil]
  /\ \/ Len(queue) < QueueCap /\ queue' = Append(queue, handler[h]) /\ UNCHANGED pool
     \/ (shutdown \/ Len(queue) >= QueueCap) /\ pool' = releasePayloadBuffer(handler[h]) /\ UNCHANGED queue
  /\ UNCHANGED <<connVars, sent, content, size, worker, outVars, shutdown, stopped, now>>
-----------------------------------------------------------------------------
\* workerLoop: a payload, or the end; with both ready either is taken.
Take(w) ==
  /\ Running /\ worker[w] = Nil /\ queue # <<>>
  /\ worker' = [worker EXCEPT ![w] = Head(queue)] /\ queue' = Tail(queue)
  /\ UNCHANGED <<connVars, sent, handler, content, size, pool, outVars, shutdown, stopped, now>>

Exit(w) ==
  /\ Running /\ shutdown /\ worker[w] = Nil
  /\ worker' = [worker EXCEPT ![w] = -1]
  /\ UNCHANGED <<connVars, sent, bufVars, outVars, shutdown, stopped, now>>

\* By the mode itself; a PSK variant also by its own name
modeMatchesList(m, modes) == m.canonical \in modes \/ (m.psk /\ m.variant \in modes)

PathOnly(m) == modeMatchesList(m, PathOnlyModes)
Allowed(m) == AllowedModes = {} \/ PathOnly(m) \/ modeMatchesList(m, AllowedModes)

\* convertToSpot and normalizeMessage yield a spot: valid calls and frequency, a time that is
\* neither of the future nor older than a day
Converts(m) == m.valid /\ now - m.time >= -MaxFuture /\ now - m.time <= MaxPast

\* A report of zero counts as none.  A full channel drops the spot; the buffer goes back.
handlePayload(w) ==
  /\ worker[w] \in DOMAIN content
  /\ LET m == content[worker[w]]
         emit == m.parses /\ m.report # 0 /\ Allowed(m) /\ Converts(m)
         put(chan) == IF Len(chan) < SpotBuffer THEN Append(chan, Spot(m)) ELSE chan
     IN  /\ spotChan' = IF emit /\ ~PathOnly(m) THEN put(spotChan) ELSE spotChan
         /\ pathOnlyChan' = IF emit /\ PathOnly(m) THEN put(pathOnlyChan) ELSE pathOnlyChan
  /\ worker' = [worker EXCEPT ![w] = Nil]
  /\ pool' = releasePayloadBuffer(worker[w])
  /\ UNCHANGED <<connVars, sent, handler, content, size, queue, ingest, predictor, shutdown, stopped, now>>
-----------------------------------------------------------------------------
isStale(s) == MaxAge > 0 /\ now - s.time > MaxAge

\* The feed loops run when the first connection succeeded, and never end: Stop leaves the
\* channels open.  Ingest is not waited for.
LoopsStarted == conn \notin {"new", "failed"}

processPSKRSpots ==
  /\ LoopsStarted /\ spotChan # <<>> /\ spotChan' = Tail(spotChan)
  /\ ingest' = IF ~isStale(Head(spotChan)) /\ Len(ingest) < IngestCap
               THEN Append(ingest, Head(spotChan)) ELSE ingest
  /\ UNCHANGED <<connVars, sent, bufVars, worker, pathOnlyChan, predictor, shutdown, stopped, now>>

processPSKRPathOnlySpots ==
  /\ LoopsStarted /\ pathOnlyChan # <<>> /\ pathOnlyChan' = Tail(pathOnlyChan)
  /\ LET s == Head(pathOnlyChan)
     IN  predictor' = IF ~isStale(s) /\ PredictorOn /\ s.grids THEN Append(predictor, s) ELSE predictor
  /\ UNCHANGED <<connVars, sent, bufVars, worker, spotChan, ingest, shutdown, stopped, now>>

\* Disconnect, tell the workers, wait for them and drop the queue; what is queued is lost.
Stop ==
  /\ ~shutdown /\ conn # "new" /\ shutdown' = TRUE
  /\ conn' = IF conn = "failed" THEN conn ELSE "closed"
  /\ UNCHANGED <<subscribed, losses, sent, bufVars, worker, outVars, stopped, now>>

stopWorkerPool ==
  /\ shutdown /\ ~stopped /\ \A w \in Workers : worker[w] = -1
  /\ stopped' = TRUE
  /\ UNCHANGED <<connVars, sent, bufVars, worker, outVars, shutdown, now>>
-----------------------------------------------------------------------------
Work(w) == Take(w) \/ Exit(w) \/ handlePayload(w)

Next ==
  \/ Tick \/ Connect \/ onConnect \/ onConnectionLost \/ Reconnect \/ Stop \/ stopWorkerPool
  \/ processPSKRSpots \/ processPSKRPathOnlySpots
  \/ \E h \in Handlers : Enqueue(h) \/ \E m \in Messages : messageHandler(h, m)
  \/ \E w \in Workers : Work(w)

Fairness ==
  /\ WF_vars(stopWorkerPool)
  /\ \A h \in Handlers : WF_vars(Enqueue(h))
  /\ \A w \in Workers : WF_vars(handlePayload(w)) /\ WF_vars(Exit(w))

Spec == Init /\ [][Next]_vars /\ Fairness
-----------------------------------------------------------------------------
\* Buffers are reused without mixing payloads: no message is handed on twice (an overwritten
\* buffer would give a second spot of the message written last), no buffer is free while it
\* is read, path-only modes reach the predictor and nothing else, and nothing not allowed or
\* stale for its loop goes on (acquire- and releasePayloadBuffer, handlePayload).  And Stop ends.
FeedIsFaithful ==
  /\ [](LET handed == spotChan \o ingest \o pathOnlyChan \o predictor
            id(i) == handed[i].id
        IN  /\ \A i, j \in DOMAIN handed : id(i) = id(j) => i = j
            /\ \A i, j \in DOMAIN pool : pool[i] = pool[j] => i = j
            /\ Range(pool) \intersect (Range(queue) \union Range(worker) \union Range(handler)) = {}
            /\ \A s \in Range(handed) : \E m \in sent :
                 /\ Spot(m) = s /\ m.report # 0 /\ Allowed(m)
                 /\ PathOnly(m) <=> s \in Range(pathOnlyChan \o predictor))
  /\ []<>(shutdown => stopped)
=============================================================================
