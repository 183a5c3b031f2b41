---------------------------- MODULE TelnetFanout ----------------------------
(***************************************************************************)
(* How one spot becomes a line for every interested telnet client          *)
(* (telnet/server.go): the pipeline puts it into the broadcast queue,      *)
(* handleBroadcasts cuts the clients into shards and hands each shard to   *)
(* a worker, and the workers deliver in batches.  A spot that every        *)
(* dedupe policy suppresses goes straight to its own callsign's client.    *)
(*                                                                         *)
(* Spots are numbered in the order the pipeline outputs them.  A spot is   *)
(* known by the policies that let it through and by the client whose       *)
(* callsign it carries.  enqueueSpot, the end of the way, is the subject   *)
(* of ClientWriter; here a client collects what it is offered.             *)
(***************************************************************************)
EXTENDS Integers, Sequences, FiniteSets

CONSTANTS
  Clients,       \* the callsigns
  NumWorkers, BroadcastCap, QueueCap, BatchMax,
  Kinds,         \* the kinds of spots: [allow : SUBSET Policies, dx : Clients \cup {NoCall}]
  AllSettings,   \* client settings: [policy : Policies, self : BOOLEAN, match : BOOLEAN]
  MaxSpots,      \* bound: spots output
  MaxChurn,      \* bound: logins and logouts
  NoCall

Policies == {"fast", "med", "slow"}
Workers == 0 .. (NumWorkers - 1)
SpotIds == 1 .. MaxSpots
Pipeline == NumWorkers     \* the caller of DeliverSelfSpot, besides the workers

VARIABLES
  settings,          \* policy, SELF switch and filter verdict of each client
  clients,           \* s.clients
  shardsDirty, clientShards,
  broadcast,         \* the broadcast channel: spot numbers
  workerQueues,      \* the jobs waiting for each worker
  batch, flushing,   \* each worker's batch, and whether it is being delivered
  shutdown, running, \* shutdown is closed; the workers still running
  kind,              \* the spots output so far
  churn,
  received,          \* history: what each client was offered, and by whom
  lost               \* history: <<client, spot>> whose job a full queue dropped

input == <<settings, kind, churn>>
registry == <<clients, shardsDirty, clientShards>>
pool == <<workerQueues, batch, flushing, running>>
vars == <<input, registry, broadcast, pool, shutdown, received, lost>>

-----------------------------------------------------------------------------
Init ==
  /\ settings \in [Clients -> AllSettings]
  /\ clients \in SUBSET Clients
  /\ shardsDirty = FALSE /\ clientShards = <<>>
  /\ broadcast = <<>>
  /\ workerQueues = [w \in Workers |-> <<>>]
  /\ batch = [w \in Workers |-> <<>>] /\ flushing = [w \in Workers |-> FALSE]
  /\ shutdown = FALSE /\ running = Workers
  /\ kind = <<>> /\ churn = 0
  /\ received = [c \in Clients |-> <<>>] /\ lost = {}

\* registerClient and unregisterClient
Churn(c) ==
  /\ churn < MaxChurn
  /\ churn' = churn + 1
  /\ clients' = IF c \in clients THEN clients \ {c} ELSE clients \cup {c}
  /\ shardsDirty' = TRUE
  /\ UNCHANGED <<settings, kind, clientShards, broadcast, pool, shutdown, received, lost>>

Offered(c, by, n) == [received EXCEPT ![c] = Append(@, [by |-> by, spot |-> n])]

isSelfMatch(k, c) == k.dx = c

BroadcastSpot(n) ==
  /\ IF Len(broadcast) < BroadcastCap
     THEN broadcast' = Append(broadcast, n) /\ UNCHANGED lost
     ELSE UNCHANGED broadcast /\ lost' = lost \cup (Clients \X {n})
  /\ UNCHANGED received

DeliverSelfSpot(n, k) ==
  /\ received' = IF k.dx \in clients /\ settings[k.dx].self
                 THEN Offered(k.dx, Pipeline, n) ELSE received
  /\ UNCHANGED <<broadcast, lost>>

\* The end of processOutputSpots
Output(k) ==
  LET n == Len(kind) + 1
  IN  /\ n <= MaxSpots
      /\ kind' = Append(kind, k)
      /\ IF k.allow = {} THEN DeliverSelfSpot(n, k) ELSE BroadcastSpot(n)
      /\ UNCHANGED <<settings, churn, registry, pool, shutdown>>

\* What iterating over the client map, which Go does in any order, deals out
\* round-robin to the workers
Dealt ==
  LET size(w) == Cardinality({i \in 1 .. Cardinality(clients) : (i - 1) % NumWorkers = w})
      parts == {f \in [clients -> Workers] :
                  \A w \in Workers : Cardinality({c \in clients : f[c] = w}) = size(w)}
  IN  {[w \in Workers |-> {c \in clients : f[c] = w}] : f \in parts}

Stale == shardsDirty \/ clientShards = <<>>

\* cachedClientShards leaves the shards of this spot in clientShards'.
cachedClientShards ==
  IF Stale THEN clientShards' \in Dealt /\ shardsDirty' = FALSE
           ELSE UNCHANGED <<clientShards, shardsDirty>>

Queued(w, job) ==
  IF Len(workerQueues[w]) < QueueCap THEN Append(workerQueues[w], job) ELSE workerQueues[w]

\* handleBroadcasts takes the next spot: broadcastSpot, dispatchSpotToWorkers
Dispatch ==
  LET n == Head(broadcast)
      job(w) == [spot |-> n, clients |-> clientShards'[w]]
      full == {w \in Workers : Len(workerQueues[w]) >= QueueCap}
  IN  /\ ~shutdown /\ broadcast # <<>>
      /\ broadcast' = Tail(broadcast)
      /\ cachedClientShards
      /\ workerQueues' = [w \in Workers |-> IF clientShards'[w] = {} THEN workerQueues[w]
                                             ELSE Queued(w, job(w))]
      /\ lost' = lost \cup UNION {clientShards'[w] \X {n} : w \in full}
      /\ UNCHANGED <<input, clients, batch, flushing, running, shutdown, received>>

Taken(w) == Append(batch[w], Head(workerQueues[w]))

\* A worker takes a job into its batch; a full batch is delivered at once.
TakeJob(w) ==
  /\ w \in running /\ ~flushing[w] /\ workerQueues[w] # <<>>
  /\ batch' = [batch EXCEPT ![w] = Taken(w)]
  /\ workerQueues' = [workerQueues EXCEPT ![w] = Tail(@)]
  /\ flushing' = [flushing EXCEPT ![w] = Len(Taken(w)) >= BatchMax]
  /\ UNCHANGED <<input, registry, broadcast, running, shutdown, received, lost>>

\* The ticker fires, or shutdown is seen: the batch is delivered.
Flush(w) ==
  /\ w \in running /\ ~flushing[w] /\ batch[w] # <<>>
  /\ flushing' = [flushing EXCEPT ![w] = TRUE]
  /\ UNCHANGED <<input, registry, broadcast, workerQueues, batch, running, shutdown, received, lost>>

\* Mutant: a spot that the client's policy suppresses is not its own any more.
MutWants(c, k) ==
  /\ settings[c].policy \in k.allow
  /\ IF isSelfMatch(k, c) THEN settings[c].self ELSE settings[c].match

\* The decisions of deliverJob for one client
Wants(c, k) ==
  \/ isSelfMatch(k, c) /\ settings[c].self
  \/ ~isSelfMatch(k, c) /\ settings[c].policy \in k.allow /\ settings[c].match

\* What is left of the batch once client c has been offered its first job
Rest(w, c) ==
  LET job == Head(batch[w])
  IN  IF job.clients = {c} THEN Tail(batch[w])
      ELSE <<[job EXCEPT !.clients = @ \ {c}]>> \o Tail(batch[w])

\* deliverJob, for one client of the first job of the batch
Deliver(w) ==
  LET job == Head(batch[w])
  IN  /\ flushing[w] /\ batch[w] # <<>>
      /\ \E c \in job.clients :
            /\ received' = IF Wants(c, kind[job.spot]) THEN Offered(c, w, job.spot) ELSE received
            /\ batch' = [batch EXCEPT ![w] = Rest(w, c)]
            /\ flushing' = [flushing EXCEPT ![w] = Rest(w, c) # <<>>]
      /\ UNCHANGED <<input, registry, broadcast, workerQueues, running, shutdown, lost>>

Stop ==
  /\ ~shutdown /\ shutdown' = TRUE
  /\ UNCHANGED <<input, registry, broadcast, pool, received, lost>>

\* A worker that has seen shutdown and delivered its batch returns.
Return(w) ==
  /\ shutdown /\ w \in running /\ ~flushing[w] /\ batch[w] = <<>>
  /\ running' = running \ {w}
  /\ UNCHANGED <<input, registry, broadcast, workerQueues, batch, flushing, shutdown, received, lost>>

broadcastWorker(w) == TakeJob(w) \/ Flush(w) \/ Deliver(w) \/ Return(w)

Next ==
  \/ \E c \in Clients : Churn(c)
  \/ \E k \in Kinds : Output(k)
  \/ Dispatch
  \/ \E w \in Workers : TakeJob(w) \/ Flush(w) \/ Deliver(w) \/ Return(w)
  \/ Stop

Spec == Init /\ [][Next]_vars

\* The goroutines are scheduled, and each worker's ticker fires.
FairSpec == Spec /\ WF_vars(Dispatch) /\ \A w \in Workers : WF_vars(broadcastWorker(w))
-----------------------------------------------------------------------------
Jobs == [spot : SpotIds, clients : SUBSET Clients]

TypeOK ==
  /\ settings \in [Clients -> AllSettings] /\ clients \subseteq Clients
  /\ shardsDirty \in BOOLEAN /\ clientShards \in [Workers -> SUBSET Clients] \cup {<<>>}
  /\ broadcast \in Seq(SpotIds) /\ Len(broadcast) <= BroadcastCap
  /\ \A w \in Workers : workerQueues[w] \in Seq(Jobs) /\ Len(workerQueues[w]) <= QueueCap
  /\ \A w \in Workers : batch[w] \in Seq(Jobs) /\ Len(batch[w]) <= BatchMax
  /\ flushing \in [Workers -> BOOLEAN] /\ shutdown \in BOOLEAN /\ running \subseteq Workers
  /\ kind \in Seq(Kinds) /\ Len(kind) <= MaxSpots /\ churn \in 0 .. MaxChurn
  /\ \A c \in Clients : received[c] \in Seq([by : Workers \cup {Pipeline}, spot : SpotIds])
  /\ lost \subseteq Clients \X SpotIds

\* No client is offered a spot twice, and what one worker offers it is in the order
\* the pipeline output it ("preserving order per shard"), although a login reshuffles
\* the shards while jobs with the old shards are still queued (dispatchSpotToWorkers,
\* broadcastWorker, deliverJob).
DeliveredInOrder ==
  \A c \in Clients : \A i, j \in 1 .. Len(received[c]) :
     i < j => /\ received[c][i].spot # received[c][j].spot
              /\ received[c][i].by = received[c][j].by => received[c][i].spot < received[c][j].spot

Got(c, n) == \E i \in 1 .. Len(received[c]) : received[c][i].spot = n

\* "a matching client still receives it if SELF is enabled": while the client stays
\* and the server runs, a spot of its own callsign reaches it whatever the dedupe
\* policies decide, or is lost to a full queue (deliverJob, DeliverSelfSpot).
SelfSpotArrives ==
  []<>(\A c \in Clients, n \in 1 .. Len(kind) :
         (churn = 0 /\ ~shutdown /\ c \in clients /\ settings[c].self /\ kind[n].dx = c)
            => (Got(c, n) \/ <<c, n>> \in lost))

\* Shutdown lets every worker deliver its batch and return.
WorkersReturn == []<>(shutdown => (running = {} /\ \A w \in Workers : batch[w] = <<>>))
=============================================================================
