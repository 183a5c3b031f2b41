----------------------------- MODULE MCQueries -----------------------------
(***************************************************************************)
(* What is looked up, in five scenarios.  Each runs one component and      *)
(* leaves the others in their initial state:                               *)
(*                                                                         *)
(*   ring      a ring of three slots that wraps while two sessions query   *)
(*             it (RingBuffer, extended)                                   *)
(*   ramp      one callsign's right to post spots, over a crash            *)
(*   address   lookups of an address while its database is rebuilt, over   *)
(*             a crash                                                     *)
(*   path      two reports at most, one prediction asked while they come   *)
(*   solar     an X-ray and a Kp feed, one sender                          *)
(***************************************************************************)
EXTENDS RingBuffer, TLC

CONSTANTS s1, t1, p

VARIABLES
  scenario,
  now, record, state, bucket, accepted, granted, logins, crashes,
  iNow, gz, builds, dirs, current, store, opened, closed, builtAt, replacedAt, job, thread, iCache, lock,
  cymru, pending, asked, served, lookups, iCrashes,
  pNow, buckets, peak, lastCompact, reader, shown, taken, reads,
  sNow, feed, kpFeed, goesTag, kpTag, goes, rUntil, kp, gate, sender, given, lit, polar, asks
-----------------------------------------------------------------------------
MCMatching == {id \in Ids : id % 2 = 1}
Symmetry == Permutations(Readers)
-----------------------------------------------------------------------------
Ramp == INSTANCE ReputationGate WITH
  Calls <- {"K1"}, Bands <- {"20m", "40m"}, Networks <- {"p"},
  Results <- {[known |-> TRUE, asn |-> "A1", country |-> "US"], [known |-> FALSE, asn |-> "", country |-> ""]},
  CtyCountry <- "K1" :> "US", InitialWait <- 1, RampWindow <- 2, PerBandStart <- 1, PerBandCap <- 3,
  TotalCapStart <- 3, TotalCapPostRamp <- 4, TotalCapRampDelay <- 1, MismatchWait <- 1,
  UnknownPenalty <- 1, MaxHistory <- 2, StateTTL <- 2, MaxEntries <- 1, BucketSize <- 2,
  RefillPerSec <- 2, PrefixTTL <- 2, MaxNetworks <- 1, MaxTime <- 5, MaxLogins <- 1, MaxCrashes <- 1

Address == INSTANCE IPInfo WITH
  now <- iNow, cache <- iCache, queue <- asked, crashes <- iCrashes,
  Threads <- {t1}, Holds <- {1}, LookupTTL <- 1, MaxAge <- 2, CymruTTL <- 1, NegativeTTL <- 1,
  PendingTTL <- 1, CymruQueue <- 1, KeepGzip <- FALSE, CleanOld <- TRUE, MaxBuilds <- 2, MaxTime <- 2,
  MaxLookups <- 2, MaxCrashes <- 1

Report(dx, de, band, mode, snr, beacon) ==
  [dx |-> dx, de |-> de, band |-> band, mode |-> mode, snr |-> snr, beacon |-> beacon]

Path == INSTANCE PathReliability WITH
  now <- pNow,
  Grids <- {"u", "a", "b", "x"},
  Spots <- {Report("a", "u", 1, "FT8", 4, FALSE), Report("u", "b", 1, "FT8", 0, TRUE),
            Report("a", "u", 0, "USB", 1, FALSE)},
  Asked <- {<<"u", "a", 1>>, <<"u", "x", 1>>},
  FineOf <- [u |-> 1, a |-> 2, b |-> 3, x |-> 0], CoarseOf <- [u |-> 1, a |-> 2, b |-> 2, x |-> 0],
  Bands <- <<"20m", "40m">>, Offset <- [FT8 |-> 0], ClampMin <- 0, ClampMax <- 3,
  PowerOf <- [d \in 0 .. 3 |-> 2 ^ d], BeaconWeightCap <- 32, One <- 64, WordBits <- 2,
  StaleAfter <- 1, MaxAge <- 1, MinFine <- 64, FineOnly <- 128, MinEffective <- 32,
  MergeReceive <- 1, MergeTransmit <- 1, Discount <- 2, NoiseDivisors <- {2},
  Thresholds <- [high |-> 8, medium |-> 4, low |-> 2], MinPeak <- 2, CompactInterval <- 2,
  MaxTime <- 2, MaxReports <- 2, MaxReads <- 1

Weather == INSTANCE SolarWeather WITH
  now <- sNow, cache <- gate,
  Senders <- {s1}, Paths <- {p}, Bands <- {"20m"}, DayClasses <- {"mid", "high"}, LatClasses <- {"high"},
  Fluxes <- {1, 2}, Kps <- {1}, RMin <- <<1, 2>>, RHold <- <<1, 1>>, RBands <- <<{"40m"}, {"20m"}>>,
  GMin <- <<1>>, GBands <- <<{"20m"}>>, GoesMaxAge <- 2, KpMaxAge <- 1, GateMax <- 1, GateTTL <- 1,
  FeedWindow <- 2, MaxTime <- 3, MaxAsks <- 2

ASSUME Address!AddressConstants
-----------------------------------------------------------------------------
rampVars == <<now, record, state, bucket, accepted, granted, logins, crashes>>
addressVars ==
  <<iNow, gz, builds, dirs, current, store, opened, closed, builtAt, replacedAt, job, thread, iCache, lock,
    cymru, pending, asked, served, lookups, iCrashes>>
pathVars == <<pNow, buckets, peak, lastCompact, reader, shown, taken, reads>>
solarVars ==
  <<sNow, feed, kpFeed, goesTag, kpTag, goes, rUntil, kp, gate, sender, given, lit, polar, asks>>

MCInit ==
  /\ scenario \in {"ring", "ramp", "address", "path", "solar"}
  /\ Init /\ Ramp!Init /\ Address!Init /\ Path!Init /\ Weather!Init

\* A component of another scenario keeps its state
Still(name, vs) == IF scenario = name THEN TRUE ELSE UNCHANGED vs

Rest ==
  /\ UNCHANGED scenario
  /\ Still("ring", vars) /\ Still("ramp", rampVars)
  /\ Still("address", addressVars) /\ Still("path", pathVars) /\ Still("solar", solarVars)

MCNext ==
  \/ scenario = "ring" /\ Rest /\ Next
  \/ scenario = "ramp" /\ Rest /\ Ramp!Next
  \/ scenario = "address" /\ Rest /\ Address!Next
  \/ scenario = "path" /\ Rest /\ Path!Next
  \/ scenario = "solar" /\ Rest /\ Weather!Next

MCSpec == MCInit /\ [][MCNext]_<<scenario, vars, rampVars, addressVars, pathVars, solarVars>>
-----------------------------------------------------------------------------
\* A callsign gets no more spots through than its wait, its ramp and its network's bucket
\* allow (Gate.Check, prefixLimiter.allow).
RampHonoured == scenario = "ramp" => Ramp!RampHonoured

\* A lookup reads no database that is closed or half built and serves no answer of a build
\* replaced longer ago than the cache keeps an entry (lookupIP, LoadStore).
LookupsAreSound == scenario = "address" => Address!LookupsAreSound

\* A prediction rests on reports about the path, recent enough (Predict).
PredictionsRestOnReports == scenario = "path" => Path!PredictionsRestOnReports

\* An override is shown for an active event on a path it matters to (the gate cache).
OverridesAreRelevant == Weather!OverridesAreRelevant
=============================================================================
