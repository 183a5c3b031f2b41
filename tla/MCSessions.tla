----------------------------- MODULE MCSessions -----------------------------
(***************************************************************************)
(* The telnet sessions, and the pipeline that decides what they are shown. *)
(* A scenario runs one component and leaves the others in an initial       *)
(* state:                                                                  *)
(*                                                                         *)
(*   chain      three sessions evict each other; nobody changes settings   *)
(*              and records can be read (SessionRegistry, extended)        *)
(*   settings   two sessions, with commands and unreadable records         *)
(*   human      spots of human origin, one of them from a peer, test spots *)
(*              and beacons, with all, some or none of the policies        *)
(*              enabled                                                    *)
(*   mixed      human and skimmer spots with all policies enabled          *)
(*   aggregate  the buckets of the aggregator: two skimmers, three         *)
(*              neighbouring frequencies, room for two buckets             *)
(***************************************************************************)
EXTENDS SessionRegistry, Sequences

CONSTANTS
  Scenarios,   \* which of them to explore
  MaxSpots,    \* spots the pipeline takes
  s1, s2, s3, k1, k2

VARIABLES
  scenario,
  clock, enabled, spots, stage, seen, pending, lastEmit, ring, telnet, archive, peers, self, reached,
  now, st, lastOut
-----------------------------------------------------------------------------
Readable == \A s \in Sessions : ~(pc[s] = "touch" /\ pc'[s] = "save")

\* The sessions are interchangeable: they are numbered in the order in which they register.
HasRegistered(s) == Serving(s) \/ ret[s] = "gone" \/ (pc[s] = "gone" /\ call[s] # NoCall)
InTurn ==
  \A c \in Calls : newest'[c] # newest[c] => /\ newest'[c] = s2 => HasRegistered(s1)
                                             /\ newest'[c] = s3 => HasRegistered(s2)
-----------------------------------------------------------------------------
K(g, skimmer, test, beacon, peer) ==
  [grid |-> g, skimmer |-> skimmer, test |-> test, beacon |-> beacon, peer |-> peer]

Human == {K("g1", FALSE, FALSE, FALSE, FALSE), K("g2", FALSE, FALSE, FALSE, TRUE),
          K("g1", FALSE, TRUE, FALSE, FALSE), K("g1", FALSE, FALSE, TRUE, FALSE)}
Mixed == {K("g1", TRUE, FALSE, FALSE, FALSE), K("g1", FALSE, FALSE, FALSE, FALSE)}
Names == {"fast", "med", "slow"}

Pipe == INSTANCE OutputPipeline WITH
  Kinds <- Human \cup Mixed, Window <- [fast |-> 2, med |-> 3, slow |-> 4], MaxAge <- 1,
  RespotSeconds <- 2, AggregateEnabled <- TRUE, Configs <- {{}, {"fast"}, {"slow"}, {"med", "slow"}, Names},
  MaxTime <- 4

ASSUME Pipe!PipelineConstants

\* The spots of the scenario, and the time it takes
Input ==
  /\ \A i \in 1 .. Len(spots') : spots'[i].kind \in (IF scenario = "human" THEN Human ELSE Mixed)
  /\ scenario = "human" => clock' <= 3

Aggregator == INSTANCE SkimmerAggregator WITH
  Freqs <- {1, 2, 3}, Skimmers <- {k1, k2}, DwellSeconds <- 1, LimboSeconds <- 2, RespotSeconds <- 1,
  CacheSeconds <- 1, MinQuality <- 2, MaxQuality <- 2, SearchUnits <- 1, MaxDeviants <- 2,
  MaxEntries <- 2, MaxRecordsPerKey <- 2, InrushDelaySeconds <- 0, MaxTime <- 2
-----------------------------------------------------------------------------
pipeVars ==
  <<clock, enabled, spots, stage, seen, pending, lastEmit, ring, telnet, archive, peers, self, reached>>
aggregatorVars == <<now, st, lastOut>>

MCInit ==
  /\ scenario \in Scenarios /\ Init /\ Pipe!Init /\ Aggregator!Init
  /\ scenario # "human" => enabled = Names
  /\ scenario \notin {"chain", "settings"} => disk = [c \in Calls |-> NoRecord]

\* The components of the other scenarios keep their state
ChainStep ==
  scenario = "chain" /\ Next /\ commands' = 0 /\ Readable /\ InTurn
  /\ UNCHANGED <<scenario, pipeVars, aggregatorVars>>
SettingsStep ==
  scenario = "settings" /\ Next /\ pc'[s3] = "none" /\ InTurn
  /\ UNCHANGED <<scenario, pipeVars, aggregatorVars>>
HumanStep == scenario = "human" /\ Pipe!Next /\ Input /\ UNCHANGED <<scenario, vars, aggregatorVars>>
MixedStep == scenario = "mixed" /\ Pipe!Next /\ Input /\ UNCHANGED <<scenario, vars, aggregatorVars>>
AggregatorStep == scenario = "aggregate" /\ Aggregator!Next /\ UNCHANGED <<scenario, vars, pipeVars>>

MCNext == ChainStep \/ SettingsStep \/ HumanStep \/ MixedStep \/ AggregatorStep
MCSpec == MCInit /\ [][MCNext]_<<scenario, vars, pipeVars, aggregatorVars>> /\ Fairness
-----------------------------------------------------------------------------
\* The sinks get what the policies let through (processOutputSpots, DeliverSelfSpot).
SinksFollowPolicies == Pipe!SinksFollowPolicies

\* "One spot per window per key reaches clients" of each policy (config/config.go).
ClientSpacing == Pipe!ClientSpacing

\* No record waits in a bucket the sweep does not look at, and no sweep leaves records that
\* have waited for the limbo time (ingest, processQueue).
BucketsAreServed == [](Aggregator!TypeOK /\ Aggregator!PendingIsQueued) /\ Aggregator!LimboEnds
=============================================================================
