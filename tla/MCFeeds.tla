------------------------------ MODULE MCFeeds ------------------------------
(***************************************************************************)
(* What comes in: command lines, spots from the primary deduplicator on,   *)
(* feeds, published files and frames of peers.  A scenario runs one        *)
(* component and leaves the others in an initial state:                    *)
(*                                                                         *)
(*   commands   two sessions type, the country file is replaced meanwhile  *)
(*              (Commands, extended)                                       *)
(*   dedup      one callsign pair; minutes of two ticks, so that its first *)
(*              and its second minute lie in different shards              *)
(*   gate       three spots between validation and licence gate, while     *)
(*              country file and licences are replaced                     *)
(*   feed       two connections of one feed client alive at a time, two    *)
(*              failures of the network                                    *)
(*   broker     three PSKReporter messages, one lost connection            *)
(*   files      one data set, three published versions, the second bad     *)
(*   spots      a spot and a message in a triangle of peers with full      *)
(*              queues, aging spots and pruned marks                       *)
(*   raw        a frame that is passed on as it is, in a triangle with     *)
(*              marks that may be pruned at any time                       *)
(*   reach      a spot in a triangle with a tail of one node over a legacy *)
(*              link; no queue overflows                                   *)
(***************************************************************************)
EXTENDS Commands, TLC

CONSTANTS h1, w1, NoEntry

VARIABLES
  scenario,
  clock, input, output, cache, peak, processed, duplicates, running, sweeping, shutdown, sweepPc, sweepShard,
  sweepNow, toDelete, last, offered,
  gCty, licences, gInput, deduped, gOutput, aired, received,
  cur, connected, token, stopping, sup, open, doneClosed, reader, rd, ka, writing, login, logins, failures,
  conn, subscribed, published, handler, content, size, pool, mQueue, worker, spotChan, pathOnlyChan, ingest,
  predictor, mqttStop, mqttStopped, losses, now,
  kind, validates, remote, file, meta, active, step, fetched, booting, ok, restarts,
  sent, age, net, seen, ingested, forwarded
-----------------------------------------------------------------------------
Call(stem, test, dash) == [stem |-> stem, test |-> test, slash |-> FALSE, dash |-> dash]
K1 == Call("K1", FALSE, "none")
W2 == Call("W2", FALSE, "none")
K1Test == Call("K1", TRUE, "none")

Entity(adif, prefix) == [adif |-> adif, prefix |-> prefix]
Line(verb, arg, from) == [verb |-> verb, arg |-> arg, fault |-> "", dialect |-> "go", from |-> from]

MCLines ==
  {Line("DX", W2, K1), Line("DX", W2, Call("K1", TRUE, "digits")), Line("SHOW DXCC", K1, K1),
   [Line("SHOW/DX", NoCall, K1) EXCEPT !.dialect = "cc"], [Line("DX", NoCall, K1) EXCEPT !.fault = "usage"]}

MCCtyOf ==
  <<K1 :> Entity(1, "K") @@ W2 :> Entity(1, "W"),
    K1 :> Entity(1, "K") @@ W2 :> Entity(2, "W") @@ K1Test :> Entity(1, "K")>>

ASSUME CommandConstants
-----------------------------------------------------------------------------
Dedup == INSTANCE Deduplicator WITH
  Calls <- {"a"}, Reports <- {-1, 0}, Window <- 1, PreferStronger <- TRUE, Minute <- 2, NumShards <- 2,
  ShardFor <- [h \in {"a"} \X {0, 1} |-> h[2]], CompactMinPeak <- 2, InCap <- 1, OutCap <- 1, MaxLate <- 1,
  MaxTime <- 3, MaxSpots <- 2

Offered(dx, de, fixed, marked) == [dx |-> dx, de |-> de, fixed |-> fixed, beacon |-> marked, test |-> marked]

Country(slovenia) == [K1A |-> 291, K1B |-> 291, S5X |-> slovenia, K1W |-> 0, TEST |-> 0] @@ "K1B/3" :> 291

Gate == INSTANCE IngestGate WITH
  cty <- gCty, input <- gInput, dedup <- deduped, output <- gOutput,
  Spots <- {Offered("K1A", "S5X", "K1A", FALSE), Offered("S5X", "K1A", "K1B", FALSE),
            Offered("K1B/3", "K1A", "S5X", FALSE), Offered("K1B", "K1A", "K1B", TRUE),
            Offered("K1W", "TEST", "K1W", FALSE)},
  Base <- [c \in DOMAIN Country(0) |-> IF c = "K1B/3" THEN "K1B" ELSE c],
  Countries <- <<Country(499), Country(500)>>, Licences <- <<{"K1A"}, {"K1B"}>>,
  Allowlist <- {[key |-> -1, call |-> "K1W"], [key |-> 499, call |-> "S5X"]}, Malformed <- {"TEST"},
  RequireCTY <- TRUE, DedupBuffer <- 1, MaxSpots <- 3

Conns == {1, 2}
Feed == INSTANCE RbnClient WITH shutdown <- stopping, MaxFailures <- 2, PromptClose <- TRUE

Message(id, topic, bytes, mode, variant, time) ==
  [id |-> id, topic |-> topic, size |-> bytes, parses |-> TRUE, report |-> 5, canonical |-> mode,
   variant |-> variant, psk |-> mode = "PSK", valid |-> TRUE, time |-> time, grids |-> TRUE]

Broker == INSTANCE PSKReporter WITH
  sent <- published, queue <- mQueue, shutdown <- mqttStop, stopped <- mqttStopped,
  Messages <- {Message(1, 1, 1, "FT8", "FT8", 0), Message(2, 1, 2, "WSPR", "WSPR", 0),
               Message(3, 2, 1, "PSK", "PSK31", -1)},
  Handlers <- {h1}, Workers <- {w1}, Topics <- 2, AllowedModes <- {"FT8", "PSK31"},
  PathOnlyModes <- {"WSPR"}, MaxPayload <- 3, PoolMaxBytes <- 2, PoolCap <- 1, QueueCap <- 1,
  SpotBuffer <- 1, IngestCap <- 1, MaxFuture <- 1, MaxPast <- 3, MaxAge <- 1, PredictorOn <- TRUE,
  MaxTime <- 1, MaxLosses <- 1

Files == INSTANCE DataRefresh WITH
  Kinds <- {"cty", "known", "skew", "uls"}, Bad <- {2}, MaxVersion <- 3, MaxRestarts <- 1
-----------------------------------------------------------------------------
Both(pairs) == pairs \cup {<<l[2], l[1]>> : l \in pairs}
Triangle == Both({<<1, 2>>, <<2, 3>>, <<1, 3>>})
TailLinks == Triangle \cup Both({<<3, 4>>})

Mesh == INSTANCE PeerMesh WITH
  Nodes <- {1, 2, 3}, Links <- Triangle, Legacy <- {}, Origins <- {<<1, "PC61">>, <<3, "PC93">>},
  HopCount <- 3, MaxAge <- 1, TTL <- 1, Lossy <- TRUE
Raw == INSTANCE PeerMesh WITH
  Nodes <- {1, 2, 3}, Links <- Triangle, Legacy <- {}, Origins <- {<<1, "PC26">>, <<1, "PC92">>},
  HopCount <- 3, MaxAge <- 0, TTL <- 0, Lossy <- FALSE
Tailed == INSTANCE PeerMesh WITH
  Nodes <- 1 .. 4, Links <- TailLinks, Legacy <- Both({<<3, 4>>}), Origins <- {<<1, "PC61">>},
  HopCount <- 3, MaxAge <- 0, TTL <- 0, Lossy <- FALSE

ASSUME Dedup!DedupConstants /\ Feed!FeedConstants /\ Files!DataConstants
ASSUME Mesh!MeshConstants /\ Raw!MeshConstants /\ Tailed!MeshConstants
-----------------------------------------------------------------------------
dedupVars ==
  <<clock, input, output, cache, peak, processed, duplicates, running, sweeping, shutdown, sweepPc, sweepShard,
    sweepNow, toDelete, last, offered>>
gateVars == <<gCty, licences, gInput, deduped, gOutput, aired, received>>
feedVars ==
  <<cur, connected, token, stopping, sup, open, doneClosed, reader, rd, ka, writing, login, logins, failures>>
brokerVars ==
  <<conn, subscribed, published, handler, content, size, pool, mQueue, worker, spotChan, pathOnlyChan, ingest,
    predictor, mqttStop, mqttStopped, losses, now>>
fileVars == <<kind, validates, remote, file, meta, active, step, fetched, booting, ok, restarts>>
meshVars == <<sent, age, net, seen, ingested, forwarded>>

MCInit ==
  /\ scenario \in {"commands", "dedup", "gate", "feed", "broker", "files", "spots", "raw", "reach"}
  /\ Init /\ Dedup!Init /\ Gate!Init /\ Feed!Init /\ Broker!Init
  /\ Files!Init /\ (scenario # "files" => kind = "uls" /\ ~validates)
  /\ IF scenario = "raw" THEN Raw!Init ELSE IF scenario = "reach" THEN Tailed!Init ELSE Mesh!Init

\* A component of another scenario keeps its state
Still(names, vs) == IF scenario \in names THEN TRUE ELSE UNCHANGED vs

Rest ==
  /\ UNCHANGED scenario
  /\ Still({"commands"}, vars) /\ Still({"dedup"}, dedupVars) /\ Still({"gate"}, gateVars) /\ Still({"feed"}, feedVars)
  /\ Still({"broker"}, brokerVars) /\ Still({"files"}, fileVars)
  /\ Still({"spots", "raw", "reach"}, meshVars)

DedupStep(A) == scenario = "dedup" /\ Rest /\ A
GateStep(A) == scenario = "gate" /\ Rest /\ A
FeedStep(A) == scenario = "feed" /\ Rest /\ A
BrokerStep(A) == scenario = "broker" /\ Rest /\ A
FileStep(A) == scenario = "files" /\ Rest /\ A
RawStep(A) == scenario = "raw" /\ Rest /\ A /\ Cardinality(sent') <= 1
TailStep(A) == scenario = "reach" /\ Rest /\ A

MCNext ==
  \/ scenario = "commands" /\ Rest /\ Next
  \/ DedupStep(Dedup!Next) \/ GateStep(Gate!Next) \/ FeedStep(Feed!Next) \/ BrokerStep(Broker!Next)
  \/ FileStep(Files!Next)
  \/ scenario = "spots" /\ Rest /\ Mesh!Next
  \/ RawStep(Raw!Next) \/ TailStep(Tailed!Next)

\* The fairness of the components, in their scenarios
MCFairness ==
  /\ WF_dedupVars(DedupStep(Dedup!processSpot)) /\ WF_dedupVars(DedupStep(Dedup!Consume))
  /\ WF_dedupVars(DedupStep(Dedup!Cleanup)) /\ WF_dedupVars(DedupStep(Dedup!CleanupReturns))
  /\ WF_gateVars(GateStep(Gate!LoadCTY))
  /\ WF_gateVars(GateStep(Gate!Validate \/ Gate!Correct \/ Gate!applyLicenseGate))
  /\ WF_feedVars(FeedStep(Feed!Supervisor))
  /\ \A i \in Conns :
       /\ WF_feedVars(FeedStep(Feed!Reader(i)))
       /\ WF_feedVars(FeedStep(stopping /\ Feed!Deadline(i)))
       /\ WF_feedVars(FeedStep(Feed!KeepaliveWrite(i)))
       /\ WF_feedVars(FeedStep(Feed!handleLogin(i)))
  /\ SF_feedVars(FeedStep(\E i \in Conns : Feed!KeepaliveEnd(i)))
  /\ WF_brokerVars(BrokerStep(Broker!stopWorkerPool)) /\ WF_brokerVars(BrokerStep(Broker!Enqueue(h1)))
  /\ WF_brokerVars(BrokerStep(Broker!handlePayload(w1))) /\ WF_brokerVars(BrokerStep(Broker!Exit(w1)))
  /\ WF_fileVars(FileStep(Files!Refresh))
  /\ <>[][~Files!Failing]_fileVars
  /\ WF_meshVars(RawStep(\E l \in Triangle : Raw!HandleFrame(l)))
  /\ WF_meshVars(TailStep(\E l \in TailLinks : Tailed!HandleFrame(l)))

MCSpec ==
  MCInit /\ [][MCNext]_<<scenario, vars, dedupVars, gateVars, feedVars, brokerVars, fileVars, meshVars>>
  /\ MCFairness
-----------------------------------------------------------------------------
\* A suppressed spot had a better one within the window, and expired entries leave (isDuplicate,
\* cleanup).
SuppressionIsExact == []Dedup!TypeOK /\ Dedup!SuppressionJustified /\ Dedup!ExpiredIsEvicted

\* What is broadcast was vetted with the call it finally names, and no feed is held up for
\* ever (validateSpot, applyLicenseGate).
BroadcastIsVetted == Gate!BroadcastIsVetted

\* A feed client reads one connection at a time, stays connected once the network is quiet and
\* ends its goroutines when it is stopped (readLoop, connectionSupervisor, Stop).
FeedClientLives == [](Feed!TypeOK /\ Feed!OneReader) /\ Feed!StaysConnected /\ Feed!StopEnds

\* PSKReporter messages pass once, in buffers that are not mixed, and Stop ends (handlePayload).
FeedIsFaithful == Broker!FeedIsFaithful

\* The data in use is good and follows what is published (startup and refresh schedulers).
GoodAndCurrent == Files!LastGoodStays /\ Files!TakenIntoUse

\* A peer forwards a spot once, no frame travels for ever, and a spot reaches every node
\* (HandleFrame, markSeen).
FloodIsSound ==
  /\ [](scenario = "spots" => Mesh!TypeOK /\ Mesh!ForwardedOnce)
  /\ []<>((scenario = "raw" => Raw!NoFrames) /\ (scenario = "reach" => Tailed!AllReached))
=============================================================================
