---------------------------- MODULE MCDelivery ----------------------------
(***************************************************************************)
(* What goes out, to telnet clients and to peers.  A scenario runs one     *)
(* component and leaves the others in an initial state:                    *)
(*                                                                         *)
(*   writer     one client's writer loop: queues of two, the third control *)
(*              message a farewell (ClientWriter, extended)                *)
(*   fanout     two clients and two workers: a login or logout may move    *)
(*              the other client to the other worker                       *)
(*   drops      one client's drop window                                   *)
(*   session    dialing, sessions and shutdown of a peer, with faults      *)
(*   handshake  a pc9x dialer without faults                               *)
(***************************************************************************)
EXTENDS ClientWriter

CONSTANTS c1, c2, NoCall, Unset

VARIABLES
  scenario,
  settings, clients, shardsDirty, clientShards, broadcast, workerQueues, batch, flushing,
  shutdown, running, kind, churn, received, lost,
  clock, start, startIdx, buckets, attempts, drops, total, log,
  loop, cur, delay, conns, out, in, toIn, toOut, openOut, openIn, peerSpots, stopped, panicked

MCFarewells == {3}

ASSUME WriterConstants

\* Spots pass all policies, one or none; settings differ in policy, SELF and filter.
Fan == INSTANCE TelnetFanout WITH
  Clients <- {c1, c2}, NumWorkers <- 2, BroadcastCap <- 1, QueueCap <- 1, BatchMax <- 2,
  MaxSpots <- 2, MaxChurn <- 1,
  Kinds <- {[allow |-> {"fast", "med", "slow"}, dx |-> NoCall],
            [allow |-> {"fast"}, dx |-> c1], [allow |-> {}, dx |-> c1]},
  AllSettings <- {[policy |-> "slow", self |-> TRUE, match |-> TRUE],
                  [policy |-> "fast", self |-> TRUE, match |-> FALSE],
                  [policy |-> "fast", self |-> FALSE, match |-> TRUE]}

Window == INSTANCE DropWindow WITH NumBuckets <- 3, MaxTime <- 8, MaxAttempts <- 4
-----------------------------------------------------------------------------
Faulty == INSTANCE PeerSession WITH
  spots <- peerSpots, PreferPC9x <- FALSE, Password <- TRUE, Base <- 1, Limit <- 4, Faults <- TRUE, MaxConns <- 2,
  MaxSpots <- 1
Quiet == INSTANCE PeerSession WITH
  spots <- peerSpots, PreferPC9x <- TRUE, Password <- TRUE, Base <- 1, Limit <- 4, Faults <- FALSE, MaxConns <- 2,
  MaxSpots <- 1
-----------------------------------------------------------------------------
fanVars == <<settings, clients, shardsDirty, clientShards, broadcast, workerQueues, batch,
             flushing, shutdown, running, kind, churn, received, lost>>
windowVars == <<clock, start, startIdx, buckets, attempts, drops, total, log>>
sessionVars == <<loop, cur, delay, conns, out, in, toIn, toOut, openOut, openIn, peerSpots, stopped, panicked>>

MCInit ==
  /\ scenario \in {"writer", "fanout", "drops", "session", "handshake"}
  /\ Init /\ Fan!Init /\ Window!Init /\ Faulty!Init
  /\ scenario # "fanout" => clients = {} /\ \A c \in {c1, c2} : settings[c].policy = "slow"

\* A component of another scenario keeps its state
Still(names, vs) == IF scenario \in names THEN TRUE ELSE UNCHANGED vs

Rest ==
  /\ UNCHANGED scenario
  /\ Still({"writer"}, vars) /\ Still({"fanout"}, fanVars) /\ Still({"drops"}, windowVars)
  /\ Still({"session", "handshake"}, sessionVars)

WriterStep(A) == scenario = "writer" /\ Rest /\ A
FanStep(A) == scenario = "fanout" /\ Rest /\ A
FaultyStep(A) == scenario = "session" /\ Rest /\ A
QuietStep(A) == scenario = "handshake" /\ Rest /\ A

MCNext ==
  \/ WriterStep(Next) \/ FanStep(Fan!Next)
  \/ scenario = "drops" /\ Rest /\ Window!Next
  \/ FaultyStep(Faulty!Next) \/ QuietStep(Quiet!Next)

\* The fairness of the components, in their scenarios
MCFairness ==
  /\ WF_vars(WriterStep(writerLoop))
  /\ WF_fanVars(FanStep(Fan!Dispatch))
  /\ \A w \in 0 .. 1 : WF_fanVars(FanStep(Fan!broadcastWorker(w)))
  /\ WF_sessionVars(FaultyStep(Faulty!Connect)) /\ WF_sessionVars(QuietStep(Quiet!Connect))
  /\ WF_sessionVars(FaultyStep(Faulty!SessionEnded \/ Faulty!Wake))
  /\ \A c \in {1, 2} :
       /\ WF_sessionVars(FaultyStep(Faulty!ReadOut(c))) /\ WF_sessionVars(FaultyStep(Faulty!ReadIn(c)))
       /\ WF_sessionVars(FaultyStep(Faulty!EndOut(c))) /\ WF_sessionVars(FaultyStep(Faulty!EndIn(c)))
       /\ WF_sessionVars(QuietStep(Quiet!ReadOut(c))) /\ WF_sessionVars(QuietStep(Quiet!ReadIn(c)))

MCSpec == MCInit /\ [][MCNext]_<<scenario, vars, fanVars, windowVars, sessionVars>> /\ MCFairness
-----------------------------------------------------------------------------
\* A client gets each spot at most once and in the order of its shard, a spot of its own
\* callsign always, and at shutdown every worker delivers its batch and returns
\* (broadcastWorker, deliverJob, DeliverSelfSpot).
FanoutDelivers == [](Fan!TypeOK /\ Fan!DeliveredInOrder) /\ Fan!SelfSpotArrives /\ Fan!WorkersReturn

\* Recent attempts are counted and old ones are not (dropWindow.advance).
WindowCounts == []Window!TypeOK /\ Window!WindowCounts

\* Peers that are connected speak one protocol, a session comes up when nothing fails, and one
\* whose partner is gone ends (the two handshakes, the idle deadline of Run).
PeersLive ==
  /\ [](Faulty!TypeOK /\ Faulty!SameProtocol)
  /\ []<>((scenario = "session" => Faulty!NoOrphan) /\ (scenario = "handshake" => stopped \/ Quiet!BothUp))
=============================================================================
