---------------------------- MODULE OutputPipeline --------------------------
(***************************************************************************)
(* processOutputSpots (main.go): what the deduplicator lets through is     *)
(* checked, kept in the ring buffer, measured against the three secondary  *)
(* dedupe policies and handed to the telnet server, the skimmer            *)
(* aggregator, the archive and the peers.                                  *)
(*                                                                         *)
(* All spots are of one callsign on one band and frequency, whose own      *)
(* operator is logged in with SELF on.  They carry no signal report, so    *)
(* the preference of the secondary dedupers for reports does not show; it  *)
(* is in SecondaryDeduper, as the telnet queues are in TelnetFanout and    *)
(* the buckets of the aggregator in SkimmerAggregator.                     *)
(***************************************************************************)
EXTENDS Integers, Sequences, FiniteSets

CONSTANTS
  Kinds,         \* [grid, skimmer, test, beacon, peer : the source is a peer or upstream]
  Window,        \* per policy
  MaxAge, RespotSeconds, AggregateEnabled,
  Configs,       \* the sets of policies that may be enabled
  MaxSpots, MaxTime   \* bounds

Policies == {"fast", "med", "slow"}
Ids == 1 .. MaxSpots
Never == -1

\* What the constants are
PipelineConstants ==
  /\ Window \in [Policies -> Nat] /\ MaxAge \in Nat \ {0} /\ RespotSeconds \in Nat
  /\ AggregateEnabled \in BOOLEAN /\ Configs \subseteq SUBSET Policies
  /\ MaxSpots \in Nat /\ MaxTime \in Nat

VARIABLES
  clock, enabled,
  spots,              \* the spots taken so far: a kind and the time of the spot
  stage,              \* where the last of them is
  seen,               \* per policy and key, the time of the last spot let through
  pending, lastEmit,  \* the aggregator's bucket
  ring,
  telnet,             \* per policy: [id, at] broadcast to its clients
  archive, peers,     \* [id, at]
  self,               \* spots the callsign's own client was given
  reached             \* history: the spots that came to the fan-out in time

sinks == <<ring, telnet, archive, peers, self, reached>>
agg == <<pending, lastEmit>>
vars == <<clock, enabled, spots, stage, seen, agg, sinks>>

Key(p, k) == IF p = "slow" THEN <<"zone", k.skimmer>> ELSE <<k.grid, k.skimmer>>
Keys == {Key(p, k) : p \in Policies, k \in Kinds}

Init ==
  /\ clock = 0 /\ enabled \in Configs
  /\ spots = <<>> /\ stage = "idle"
  /\ seen = [p \in Policies |-> [x \in Keys |-> Never]]
  /\ pending = {} /\ lastEmit = Never
  /\ ring = {} /\ telnet = [p \in Policies |-> {}] /\ archive = {} /\ peers = {}
  /\ self = {} /\ reached = {}

Tick == clock < MaxTime /\ clock' = clock + 1 /\ UNCHANGED <<enabled, spots, stage, seen, agg, sinks>>

Cur == Len(spots)
S == spots[Cur]
isStale == clock - S.when > MaxAge

\* The next spot of the deduplicator's output, however long it waited there
Take(k, when) ==
  /\ stage = "idle" /\ Cur < MaxSpots
  /\ spots' = Append(spots, [kind |-> k, when |-> when])
  /\ stage' = "check"
  /\ UNCHANGED <<clock, enabled, seen, agg, sinks>>

\* The drops before the ring buffer, from which beacons are exempt: too old, or on
\* the verdict of call correction, harmonic detection or the license gate
Drop ==
  /\ stage = "check" /\ ~S.kind.beacon
  /\ stage' = "idle"
  /\ UNCHANGED <<clock, enabled, spots, seen, agg, sinks>>

\* The spot passes the checks and is kept.
Store ==
  /\ stage = "check" /\ (S.kind.beacon \/ ~isStale)
  /\ ring' = IF S.kind.test THEN ring ELSE ring \cup {Cur}
  /\ stage' = "fanout"
  /\ UNCHANGED <<clock, enabled, spots, seen, agg, telnet, archive, peers, self, reached>>

Close(p, t, u) == t - u < Window[p] /\ u - t < Window[p]

\* SecondaryDeduper.ShouldForward of a spot whose DXCC is known; the deduper's
\* cleanup may have forgotten an old entry
Forwards(p, forgot) ==
  LET last == seen[p][Key(p, S.kind)]
  IN  last = Never \/ forgot \/ ~Close(p, S.when, last)

MayForget(p) == LET last == seen[p][Key(p, S.kind)] IN last # Never /\ clock - last > Window[p]

Recorded(p) == [seen[p] EXCEPT ![Key(p, S.kind)] = S.when]

\* The policy that decides for the clients of p
Governs(p) ==
  IF p \in enabled \/ enabled = {} THEN p
  ELSE IF "fast" \in enabled THEN "fast" ELSE IF "med" \in enabled THEN "med" ELSE "slow"

\* Mutant: a policy that is off lets everything through.
MutAllowed(forward) == {p \in Policies : p \in enabled => p \in forward}

\* The policies whose clients may see the spot
Allowed(forward) == {p \in Policies : Governs(p) \in enabled => Governs(p) \in forward}

ShouldAggregate == AggregateEnabled /\ S.kind.skimmer

\* Enqueue and ingest: a full input and a recent emission drop the spot
Enqueue(accepted) ==
  /\ pending' = IF accepted /\ (pending # {} \/ lastEmit = Never \/ clock - lastEmit >= RespotSeconds)
                THEN pending \cup {Cur} ELSE pending
  /\ UNCHANGED <<lastEmit, telnet, self>>

\* Clients of an allowed policy, and the spot's own client under any policy
BroadcastSpot(allow) ==
  /\ telnet' = [p \in Policies |-> IF p \in allow THEN telnet[p] \cup {[id |-> Cur, at |-> clock]} ELSE telnet[p]]
  /\ self' = self \cup {Cur}
  /\ UNCHANGED agg

DeliverSelfSpot == self' = self \cup {Cur} /\ UNCHANGED <<telnet, archive, peers, agg>>

\* archiveWriter.Enqueue and peerManager.PublishDX follow the policy med
Saved(allow, log) ==
  IF "med" \in allow /\ ~S.kind.test THEN log \cup {[id |-> Cur, at |-> clock]} ELSE log

\* The last guard: too old by now
ReturnStale ==
  /\ stage = "fanout" /\ isStale
  /\ stage' = "idle"
  /\ UNCHANGED <<clock, enabled, spots, seen, agg, sinks>>

FanOut(forgot, accepted) ==
  LET forward == {p \in enabled : Forwards(p, p \in forgot)}
      allow == Allowed(forward)
  IN  /\ stage = "fanout" /\ ~isStale
      /\ \A p \in forgot : MayForget(p)
      /\ seen' = [p \in Policies |-> IF p \in forward THEN Recorded(p) ELSE seen[p]]
      /\ IF allow = {} THEN DeliverSelfSpot
         ELSE /\ archive' = Saved(allow, archive)
              /\ peers' = IF S.kind.peer THEN peers ELSE Saved(allow, peers)
              /\ IF ShouldAggregate THEN Enqueue(accepted) ELSE BroadcastSpot(allow)
      /\ reached' = reached \cup {Cur}
      /\ stage' = "idle"
      /\ UNCHANGED <<clock, enabled, spots, ring>>

\* The aggregator emits its bucket, and broadcastAggregatedSpots gives it to all ...
Emit ==
  /\ pending # {}
  /\ \E id \in pending :
       telnet' = [p \in Policies |-> telnet[p] \cup {[id |-> id, at |-> clock]}]
  /\ self' = self \cup pending
  /\ pending' = {} /\ lastEmit' = clock
  /\ UNCHANGED <<clock, enabled, spots, stage, seen, ring, archive, peers, reached>>

\* ... or drops it from limbo.
Limbo ==
  /\ pending # {}
  /\ pending' = {}
  /\ UNCHANGED <<clock, enabled, spots, stage, seen, lastEmit, sinks>>

Next ==
  \/ Tick
  \/ \E k \in Kinds, when \in 0 .. clock : Take(k, when)
  \/ Drop \/ Store \/ ReturnStale
  \/ \E forgot \in SUBSET enabled, accepted \in BOOLEAN : FanOut(forgot, accepted)
  \/ Emit \/ Limbo

Spec == Init /\ [][Next]_vars
-----------------------------------------------------------------------------
Log == [id : Ids, at : 0 .. MaxTime]

TypeOK ==
  /\ clock \in 0 .. MaxTime /\ enabled \in Configs /\ stage \in {"idle", "check", "fanout"}
  /\ spots \in Seq([kind : Kinds, when : 0 .. MaxTime]) /\ Len(spots) <= MaxSpots
  /\ seen \in [Policies -> [Keys -> Never .. MaxTime]]
  /\ pending \subseteq Ids /\ lastEmit \in Never .. MaxTime
  /\ ring \subseteq Ids /\ self \subseteq Ids /\ reached \subseteq Ids
  /\ telnet \in [Policies -> SUBSET Log] /\ archive \subseteq Log /\ peers \subseteq Log

\* Spots of one key in what policy p decides are as far apart as the window of the
\* policy in force, less the age a spot may have.
Spaced(p, log) ==
  LET g == Governs(p)
  IN  \A a, b \in log :
        (/\ g \in enabled /\ MaxAge < Window[g] /\ a.id < b.id
         /\ Key(g, spots[a.id].kind) = Key(g, spots[b.id].kind))
          => b.at - a.at >= Window[g] - MaxAge

\* "Archive and peer publishing use the MED policy", or the one that stands in for
\* it, whatever is enabled and in whatever order spots come.
ArchiveAndPeersFollowMed == Spaced("med", archive) /\ Spaced("med", peers)

\* "one spot per window per key reaches clients" of each policy.
ClientSpacing == \A p \in Policies : Spaced(p, telnet[p])

\* PASS SELF: "always deliver spots where the DX callsign matches".  A spot that has
\* come to the fan-out in time is delivered to its callsign or on its way there.
SelfDelivered == reached \subseteq self \cup pending

\* Only spots of human origin were taken.
NoSkimmers == \A i \in DOMAIN spots : ~spots[i].kind.skimmer

\* Human spots of one key reach the clients of a policy at the policy's distance
\* ("one spot per window per key reaches clients"), yet every spot that passes the
\* checks reaches its own callsign, and archive and peers get what the medium policy
\* lets through (processOutputSpots, DeliverSelfSpot).
SinksFollowPolicies ==
  /\ TypeOK /\ ArchiveAndPeersFollowMed
  /\ NoSkimmers => ClientSpacing /\ SelfDelivered
=============================================================================
