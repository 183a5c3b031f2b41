---------------------------- MODULE MCSpotRules ----------------------------
(***************************************************************************)
(* What is decided about one spot, in eight scenarios.  Each runs one       *)
(* component and leaves the others in an initial state:                    *)
(*                                                                         *)
(*   window     the secondary deduplicator: a skimmer spot of a known      *)
(*              zone, human spots from an out-of-range zone and without a  *)
(*              zone (one bucket), a spot of unknown DXCC                  *)
(*              (SecondaryDeduper, extended)                               *)
(*   filters    a user's filter commands, one list at a time               *)
(*   distance   two callsigns that grow, under four cost settings          *)
(*   vote       four reporters, two calls an edit apart and one far off    *)
(*   threshold  one band group with two bands and two reporters            *)
(*   mode       one station on a seeded and on another frequency           *)
(*   guards     harmonics and averaging of one station, one beacon         *)
(*   licence    two lookups of one call while the licence database is      *)
(*              replaced                                                   *)
(***************************************************************************)
EXTENDS SecondaryDeduper, TLC

CONSTANTS NoSnapshot, InvalidCell, NoRecord, Corrupt, t1, t2

VARIABLES
  scenario,
  online, filter, grid, dialect, policy, noise, solar, diag, disk, focus, before, word,
  subject, candidate, cfg, costTable,
  cClock, taken, index, lastSeen, quality, cooldown, cVerdict, heard,
  tClock, seen, groups, lastEval, pipeline, lastRun, spotCount, votes,
  mClock, spots, dxCache, digital, mVerdict, mHeard, given,
  gClock, count, entries, gLastSeen, samples, sampleSeen, ops, out, passed,
  lClock, lookups, dbFile, path, dead, refreshActive, once, handle, lEntries, slots, hand, refresh, thread,
  inPlace
-----------------------------------------------------------------------------
Origin(adif, zone, skimmer) ==
  [dx |-> "dx", adif |-> adif, grid2 |-> "", zone |-> zone, skimmer |-> skimmer]

MCOrigins ==
  {Origin(1, 5, TRUE), Origin(1, 41, FALSE), Origin(1, 0, FALSE), Origin(0, 5, TRUE)}

MCReports == {-1, 0}
MCShardFor == [k \in Keys |-> IF k[4] THEN 0 ELSE 1]
-----------------------------------------------------------------------------
\* Two tokens or three for each list of the filter
Tokens ==
  "BAND" :> {"160m", "20m"} @@ "MODE" :> {"CW", "PSK", "FT8"} @@ "SOURCE" :> {"HUMAN", "SKIMMER"}
  @@ "CONFIDENCE" :> {"?", "P", "V"} @@ "PATH" :> {"HIGH", "INSUFFICIENT"}
  @@ [d \in {"DXCONT", "DECONT"} |-> {"EU", "NA"}] @@ [d \in {"DXZONE", "DEZONE"} |-> {"5", "14"}]
  @@ [d \in {"DXDXCC", "DEDXCC"} |-> {"291", "230"}] @@ [d \in {"DXGRID2", "DEGRID2"} |-> {"FN", "JO"}]

Patterns ==
  "W1A" :> <<"W", "1", "A">> @@ "K2B" :> <<"K", "2", "B">>
  @@ "W*" :> <<"W", "*">> @@ "*B" :> <<"*", "B">> @@ "*" :> <<"*">>

Fields == [FN31 |-> "f1", FN42 |-> "f2", JO22 |-> "f3"]
Squares == [FN31 |-> "c1", FN42 |-> "c1", JO22 |-> "c2"]

Bands == "160" :> "160m" @@ "20" :> "20m" @@ "20M" :> "20m"

\* For the names of the lists and a new filter
User == INSTANCE FilterCommands WITH
  Supported <- Tokens, Text <- Patterns, Fine <- Fields, Coarse <- Squares,
  ConfigModes <- {}, ConfigSources <- {"SKIMMER"}, UserCall <- "K2B", LookupGrid <- "JO22",
  DedupeEnabled <- {}, PathAvailable <- FALSE, BandSpelling <- Bands, Focuses <- {}, SavedRecords <- {}

\* One list with its group, or a few settings, per behaviour
Subjects ==
  {{d} : d \in User!Lists \ User!LocationLists} \cup {{d, "NEARBY"} : d \in User!LocationLists}
  \cup {{"DXBM", "BAND"}, {"DXCALL"}, {"DECALL"}, {"BEACON", "WWV", "SELF"}, {"WCY", "ANNOUNCE"}, {"settings"}}

\* A record of an earlier version: no list has its flags, a retired dialect and mode
Legacy ==
  [filter |-> [User!NewFilter EXCEPT
                 !.list = [d \in User!Lists |->
                             [User!OpenList EXCEPT !.all = FALSE, !.allow = IF d = "MODE" THEN {"PSK63", "CW"} ELSE {}]],
                 !.toggle = [t \in User!Toggles |-> "nil"], !.minConfidence = 50],
   dialect |-> "classic", policy |-> "", grid |-> "", noise |-> "", solar |-> 7]

Filters == INSTANCE FilterCommands WITH
  Supported <- Tokens, Text <- Patterns, Fine <- Fields, Coarse <- Squares,
  ConfigModes <- {}, ConfigSources <- {"SKIMMER"}, UserCall <- "K2B", LookupGrid <- "JO22",
  DedupeEnabled <- {"MED", "SLOW"}, PathAvailable <- TRUE,
  BandSpelling <- Bands,
  Focuses <- Subjects, SavedRecords <- {Legacy}
-----------------------------------------------------------------------------
Morse == "E" :> <<"dot">> @@ "A" :> <<"dot", "dash">> @@ "6" :> <<"dash", "dot", "dot", "dot", "dot">>
Baudot ==
  "E" :> <<"L", "0", "0", "0", "0", "1">> @@ "A" :> <<"L", "0", "0", "0", "1", "1">>
  @@ "6" :> <<"F", "1", "0", "1", "0", "1">>

Setting(mode, model, ins, del, sub, scale) ==
  [mode |-> mode, model |-> model, weights |-> [ins |-> ins, del |-> del, sub |-> sub, scale |-> scale]]

Edits == INSTANCE CallDistance WITH
  Chars <- {"E", "A", "6", "-"}, MorseCodes <- Morse, BaudotCodes <- Baudot,
  Settings <- {Setting("CW", "morse", 0, 0, 0, 0), Setting("CW", "morse", 1, 2, 3, 3),
               Setting("RTTY", "baudot", 1, 1, 2, 2), Setting("USB", "morse", 1, 1, 2, 2)},
  MaxSubject <- 3, MaxCandidate <- 2

Heard(call, by, freq, late, shift) ==
  [call |-> call, by |-> by, mode |-> "CW", freq |-> freq, snr |-> 5, late |-> late, shift |-> shift]

Vote == INSTANCE CallCorrection WITH
  clock <- cClock, verdict <- cVerdict,
  Inputs <- {Heard("A", "r1", 18, 0, 0), Heard("A", "r2", 22, 1, -2), Heard("B", "r1", 18, 0, 0),
             Heard("B", "r3", 18, 0, 1), Heard("Z", "r4", 18, 0, 0)},
  Distance <- [c \in {"A", "B", "Z"} \X {"A", "B", "Z"} |->
                 IF c[1] = c[2] THEN 0 ELSE IF "Z" \in {c[1], c[2]} THEN 3 ELSE 1],
  Reliable <- {"r1", "r2", "r3", "r4"}, Valid <- {"A", "B"}, InvalidAction <- "broadcast",
  RecencyWindow <- 1, FrequencyTolerance <- 10, SearchBuckets <- 5, MinSNR <- 3,
  MinReports <- {2}, MinAdvantage <- 1, MinConfidence <- 60, MaxEditDistance <- 3,
  Distance3Extra <- [reports |-> 1, advantage |-> 1, confidence |-> 10],
  QualityBin <- 20, QualityGood <- 1, QualityTTL <- 2, QualityMax <- 2, Priors <- <<"Z", -1>> :> 1,
  CooldownBin <- 20, CooldownDuration <- 1, CooldownTTL <- 2, CooldownMaxReporters <- 2,
  BypassAdvantage <- 2, BypassConfidence <- 0, MaxSpots <- 4, MaxTime <- 2

Threshold == INSTANCE AdaptiveThreshold WITH
  clock <- tClock,
  Groups <- "low" :> [bands |-> {"b1", "b2"}, quietBelow |-> 1, busyAbove |-> 1,
                      min |-> [quiet |-> 2, normal |-> 3, busy |-> 4]],
  Bands <- {"b1", "b2"}, Reporters <- {"r1", "r2"}, Window <- 1, EvalPeriod <- 1,
  HysteresisWindows <- 2, Fallback <- 3, Refresh <- [quiet |-> 2, normal |-> 2, busy |-> 1],
  MinSpots <- 2, MaxTime <- 3, MaxSpots <- 3

Modes == INSTANCE ModeAssigner WITH
  clock <- mClock, verdict <- mVerdict, heard <- mHeard,
  Freqs <- {14074, 7047}, Calls <- {"A"}, Spotters <- {"s1", "s2"}, Reported <- {"FT8", "SSB"},
  Seeds <- <<[freq |-> 14074, mode |-> "FT8"], [freq |-> 14080, mode |-> "FT4"]>>,
  Bands <- <<[lower |-> 14000, cwEnd |-> 14070, upper |-> 14350, voice |-> "USB"]>>,
  DXFreqCacheTTL <- 1, DXFreqCacheSize <- 1, DigitalWindow <- 1, DigitalMinCorroborate <- 2,
  DigitalSeedTTL <- 3, DigitalCacheSize <- 2, MaxSpottersPerMode <- 2, MaxTime <- 4, MaxSpots <- 3

Spot(call, freq, report, late) ==
  [call |-> call, freq |-> freq, report |-> report, late |-> late, mode |-> "CW", confidence |-> "",
   beacon |-> FALSE]

Guards == INSTANCE SpotGuards WITH
  clock <- gClock, lastSeen <- gLastSeen,
  Inputs <- {Spot("A", 70100, 30, 0), Spot("A", 70103, 30, 1), Spot("A", 70106, 25, 0),
             Spot("A", 140204, 10, 0), Spot("A", 210300, 10, 0),
             [Spot("B", 140200, 10, 0) EXCEPT !.beacon = TRUE],
             [Spot("B", 140200, 10, 0) EXCEPT !.mode = "USB", !.confidence = "V"]},
  KnownCalls <- {"A"}, RecencyWindow <- 2, MaxHarmonicMultiple <- 3, FrequencyTolerance <- 4,
  MinReportDelta <- 15, MinReportDeltaStep <- 5, AverageWindow <- 1, AverageTolerance <- 3,
  MinReports <- 2, CleanupEvery <- 2, MaxTime <- 3, MaxSpots <- 3

Licence == INSTANCE LicenseDB WITH
  clock <- lClock, entries <- lEntries,
  Threads <- {t1, t2}, Calls <- {"B"},
  Archives <- <<[hd |-> <<"A", "E">>, am |-> <<"A", "B">>], [hd |-> <<"A", "A">>, am |-> <<"A", "B">>]>>,
  TTL <- 1, Slots <- 1, Present <- TRUE, MaxTime <- 2, MaxLookups <- 2

ASSUME Licence!LicenceConstants /\ Threshold!ThresholdConstants
-----------------------------------------------------------------------------
filterVars == <<online, filter, grid, dialect, policy, noise, solar, diag, disk, focus, before, word>>
editVars == <<subject, candidate, cfg, costTable>>
voteVars == <<cClock, taken, index, lastSeen, quality, cooldown, cVerdict, heard>>
thresholdVars == <<tClock, seen, groups, lastEval, pipeline, lastRun, spotCount, votes>>
modeVars == <<mClock, spots, dxCache, digital, mVerdict, mHeard, given>>
guardVars == <<gClock, count, entries, gLastSeen, samples, sampleSeen, ops, out, passed>>
licenceVars ==
  <<lClock, lookups, dbFile, path, dead, refreshActive, once, handle, lEntries, slots, hand, refresh, thread,
    inPlace>>

\* A filter is a large value: the other scenarios do without it
NoFilter ==
  /\ online = FALSE /\ filter = 0 /\ grid = 0 /\ dialect = 0 /\ policy = 0 /\ noise = 0 /\ solar = 0 /\ diag = 0
  /\ disk = 0 /\ focus = 0 /\ before = 0 /\ word = 0

MCInit ==
  /\ scenario \in {"window", "filters", "distance", "vote", "threshold", "mode", "guards", "licence"}
  /\ IF scenario = "filters" THEN Filters!Init ELSE NoFilter
  /\ Edits!Init /\ (scenario # "distance" => cfg = Setting("USB", "morse", 1, 1, 2, 2))
  /\ Init /\ Vote!Init /\ Threshold!Init /\ Modes!Init /\ Guards!Init /\ Licence!Init

\* A component of another scenario keeps its state
Still(name, state) == IF scenario = name THEN TRUE ELSE UNCHANGED state

Rest ==
  /\ UNCHANGED scenario
  /\ Still("window", vars) /\ Still("filters", filterVars) /\ Still("distance", editVars)
  /\ Still("vote", voteVars) /\ Still("threshold", thresholdVars) /\ Still("mode", modeVars)
  /\ Still("guards", guardVars) /\ Still("licence", licenceVars)

MCNext ==
  \/ scenario = "window" /\ Rest /\ Next
  \/ scenario = "filters" /\ Rest /\ Filters!Next
  \/ scenario = "distance" /\ Rest /\ Edits!Next
  \/ scenario = "vote" /\ Rest /\ Vote!Next
  \/ scenario = "threshold" /\ Rest /\ Threshold!Next
  \/ scenario = "mode" /\ Rest /\ Modes!Next
  \/ scenario = "guards" /\ Rest /\ Guards!Next
  \/ scenario = "licence" /\ Rest /\ Licence!Next

MCSpec ==
  MCInit /\ [][MCNext]_<<scenario, vars, filterVars, editVars, voteVars, thresholdVars, modeVars, guardVars,
                         licenceVars>>
-----------------------------------------------------------------------------
\* SHOW FILTER says what the filter does (effectiveAllowBlockLabel).
ShownIsTrue == scenario = "filters" => Filters!TypeOK /\ Filters!ShownIsTrue

\* A user's settings mean what they said, after other commands, a reconnect and PASS NEARBY
\* OFF too (the PASS and REJECT handlers, the record saved after each, the location
\* snapshot).
SettingsKept ==
  scenario = "filters" =>
    Filters!LastWordWins /\ Filters!ReconnectChangesNothing /\ Filters!NearbyGivesBack

\* The distance of two calls is the cost of the cheapest edits (callDistance).
DistanceIsCheapest == scenario = "distance" => Edits!DistanceIsCheapest

\* A call is corrected on the reports of enough others (SuggestCallCorrection).
OthersOutvote == Vote!OthersOutvote

\* A band group changes its state on confirmed evidence alone (evaluate).
StateIsConfirmed == Threshold!StateIsConfirmed

\* An inferred mode rests on reports or on a seed that is in force (Assign).
GroundedInference == Modes!GroundedInference

\* A spot is dropped or moved on evidence of its own station (ShouldDrop, Average).
ChangedOnEvidence == Guards!ChangedOnEvidence

\* A call is refused for lack of a licence only by a database in place within the time the
\* cache keeps an answer (IsLicensedUS).
RefusalIsFresh == Licence!RefusalIsFresh
=============================================================================
