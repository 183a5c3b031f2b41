-------------------------- MODULE AdaptiveThreshold -------------------------
(***************************************************************************)
(* AdaptiveMinReports (spot/adaptive_min_reports.go) and adaptiveRefresher *)
(* (adaptive_refresher.go): how many reports a call correction needs       *)
(* follows how busy a group of bands is, with hysteresis.  The output      *)
(* pipeline observes every spot and asks in three calls; the refresher     *)
(* asks once a minute, from a goroutine of its own.                        *)
(***************************************************************************)
EXTENDS Integers, Sequences, FiniteSets

CONSTANTS
  Groups,      \* name -> [bands, quietBelow, busyAbove, min : state -> reports]
  Bands, Reporters,
  Window, EvalPeriod, HysteresisWindows, Fallback,
  Refresh,     \* state -> interval of the refresher
  MinSpots,
  MaxTime, MaxSpots    \* bounds

\* What the constants are: the configuration replaces a hysteresis that is not positive.
ThresholdConstants == HysteresisWindows \in Nat \ {0}

VARIABLES
  clock,
  seen,        \* band -> reporter -> when it was last active, or Never
  groups,      \* name -> [state, pending, streak, minReports]
  lastEval,
  pipeline,    \* "idle", or the band and the step of the spot at hand
  lastRun, spotCount,
  votes        \* history: name -> the states the last evaluations called for

vars == <<clock, seen, groups, lastEval, pipeline, lastRun, spotCount, votes>>

Never == -1
Idle == [step |-> "idle", band |-> "", min |-> 0]

Init ==
  /\ clock = 0 /\ seen = [b \in Bands |-> [r \in Reporters |-> Never]]
  /\ groups = [g \in DOMAIN Groups |-> [state |-> "normal", pending |-> "", streak |-> 0,
                                        minReports |-> Groups[g].min["normal"]]]
  /\ lastEval = Never /\ pipeline = Idle
  /\ lastRun = Never /\ spotCount = 0
  /\ votes = [g \in DOMAIN Groups |-> <<>>]

Active(s) == [b \in Bands |-> [r \in Reporters |-> IF clock - s[b][r] > Window THEN Never ELSE s[b][r]]]

\* The mean over the bands times their number
averageReporters(g, s) == Cardinality({p \in Groups[g].bands \X Reporters : s[p[1]][p[2]] # Never})

stateForCount(g, total) ==
  LET n == Cardinality(Groups[g].bands)
  IN  IF total < Groups[g].quietBelow * n THEN "quiet"
      ELSE IF total > Groups[g].busyAbove * n THEN "busy" ELSE "normal"

\* Mutant: the first evaluation of a streak counts twice.
MutNextGroup(gs, candidate) ==
  LET streak == IF gs.pending = candidate THEN gs.streak + 1 ELSE 2
  IN  IF candidate = gs.state THEN [gs EXCEPT !.pending = "", !.streak = 0]
      ELSE IF streak >= HysteresisWindows THEN [gs EXCEPT !.state = candidate, !.pending = "", !.streak = 0]
      ELSE [gs EXCEPT !.pending = candidate, !.streak = streak]

\* A new state is taken when so many evaluations in a row call for it.
NextGroup(gs, candidate) ==
  LET streak == IF gs.pending = candidate THEN gs.streak + 1 ELSE 1
  IN  IF candidate = gs.state THEN [gs EXCEPT !.pending = "", !.streak = 0]
      ELSE IF streak >= HysteresisWindows THEN [gs EXCEPT !.state = candidate, !.pending = "", !.streak = 0]
      ELSE [gs EXCEPT !.pending = candidate, !.streak = streak]

LastVotes(seq) == SubSeq(seq, IF Len(seq) > HysteresisWindows THEN Len(seq) - HysteresisWindows + 1 ELSE 1, Len(seq))

\* ensureEvaluatedLocked and evaluate
ensureEvaluated ==
  IF lastEval = Never \/ clock - lastEval >= EvalPeriod
  THEN LET s == Active(seen)
           candidate(g) == stateForCount(g, averageReporters(g, s))
           moved(g) == NextGroup(groups[g], candidate(g))
       IN  /\ seen' = s
           /\ groups' = [g \in DOMAIN groups |->
                           [moved(g) EXCEPT !.minReports = Groups[g].min[moved(g).state]]]
           /\ votes' = [g \in DOMAIN groups |-> LastVotes(Append(votes[g], candidate(g)))]
           /\ lastEval' = clock
  ELSE UNCHANGED <<seen, groups, votes, lastEval>>

Tick == clock < MaxTime /\ clock' = clock + 1
        /\ UNCHANGED <<seen, groups, lastEval, pipeline, lastRun, spotCount, votes>>

\* A spot: IncrementSpots and Observe, ...
Observe(b, r) ==
  /\ pipeline = Idle /\ spotCount < MaxSpots
  /\ seen' = [seen EXCEPT ![b][r] = clock]
  /\ spotCount' = spotCount + 1
  /\ pipeline' = [step |-> "min", band |-> b, min |-> 0]
  /\ UNCHANGED <<clock, groups, lastEval, lastRun, votes>>

\* ... MinReportsForBand ...
GroupOf(b) == {g \in DOMAIN Groups : b \in Groups[g].bands}

MinReportsForBand ==
  /\ pipeline.step = "min"
  /\ ensureEvaluated
  /\ pipeline' = [pipeline EXCEPT !.step = "state",
                  !.min = IF GroupOf(pipeline.band) = {} THEN Fallback
                          ELSE groups'[CHOOSE g \in GroupOf(pipeline.band) : TRUE].minReports]
  /\ UNCHANGED <<clock, lastRun, spotCount>>

\* ... and StateForBand, which selects the tolerances of the correction
StateForBand ==
  /\ pipeline.step = "state"
  /\ ensureEvaluated
  /\ pipeline' = Idle
  /\ UNCHANGED <<clock, lastRun, spotCount>>

\* HighestState, after the evaluation
Highest ==
  LET now == {groups'[g].state : g \in DOMAIN groups'}
  IN  IF "busy" \in now THEN "busy" ELSE IF "normal" \in now THEN "normal" ELSE "quiet"

\* maybeRefresh, on the refresher's ticker
maybeRefresh ==
  /\ ensureEvaluated
  /\ IF lastRun = Never THEN lastRun' = clock /\ UNCHANGED spotCount
     ELSE IF clock - lastRun < Refresh[Highest] \/ spotCount < MinSpots
     THEN UNCHANGED <<lastRun, spotCount>>
     ELSE lastRun' = clock /\ spotCount' = 0
  /\ UNCHANGED <<clock, pipeline>>

Next ==
  \/ Tick \/ MinReportsForBand \/ StateForBand \/ maybeRefresh
  \/ \E b \in Bands, r \in Reporters : Observe(b, r)

Spec == Init /\ [][Next]_vars
-----------------------------------------------------------------------------
\* Hysteresis: whoever asks, and however their evaluations interleave, a group
\* changes its state only when the last hysteresis_windows evaluations all called
\* for the new one, and the reports a correction needs change with the state alone.
StateIsConfirmed ==
  [][\A g \in DOMAIN groups :
       /\ groups'[g].state # groups[g].state =>
            /\ Len(votes'[g]) = HysteresisWindows
            /\ \A i \in DOMAIN votes'[g] : votes'[g][i] = groups'[g].state
       /\ groups'[g].minReports # groups[g].minReports => groups'[g].state # groups[g].state]_vars
=============================================================================
