----------------------------- MODULE SpotGuards -----------------------------
(***************************************************************************)
(* What the output pipeline does to a spot between call correction and the *)
(* licence gate: it drops the harmonic of a stronger signal                *)
(* (spot/harmonics.go), moves the frequency to the mean of the reports     *)
(* around it (spot/frequency_averager.go) and gives it a confidence glyph  *)
(* (main.go).  Two sweepers prune the histories from goroutines of their   *)
(* own.  Frequencies are in units of 100 Hz, the resolution of the feeds.  *)
(***************************************************************************)
EXTENDS Integers, Sequences, SequencesExt

CONSTANTS
  Inputs,              \* the spots that may come: [call, freq, report, late, mode, confidence, beacon]
  KnownCalls,          \* the calls of the known-call list
  RecencyWindow, MaxHarmonicMultiple, FrequencyTolerance, MinReportDelta, MinReportDeltaStep,
  AverageWindow, AverageTolerance, MinReports,
  CleanupEvery,        \* the averager cleans up on every so many operations
  MaxTime, MaxSpots    \* bounds

VARIABLES
  clock, count,
  entries,     \* call -> sequence of [frequency, report, at], the fundamentals
  lastSeen,    \* call -> when its fundamentals were last used
  samples,     \* call -> sequence of [freq, at]
  sampleSeen,  \* call -> when its samples were last used
  ops,         \* the averager's operation counter, modulo CleanupEvery
  out,         \* the last spot and what became of it: [spot, time, dropped, freq, confidence]
  passed       \* history: the spots so far that were not dropped, as [spot, time, now]

vars == <<clock, count, entries, lastSeen, samples, sampleSeen, ops, out, passed>>

Never == -1
Calls == {s.call : s \in Inputs}
Nothing == [spot |-> {}, time |-> Never, dropped |-> FALSE, freq |-> 0, confidence |-> ""]
Dist(a, b) == IF a < b THEN b - a ELSE a - b
IsCallCorrectionCandidate(mode) == mode \in {"CW", "RTTY", "USB", "LSB"}
modeSupportsConfidenceGlyph(mode) == mode \in {"CW", "RTTY", "USB", "LSB"}
shouldAverageFrequency(s) == s.mode \in {"CW", "RTTY"}
-----------------------------------------------------------------------------
\* cleanup: a call is forgotten when it was last used before the window
Forgotten(seen, window) == {c \in Calls : seen[c] # Never /\ seen[c] < clock - window}
Without(f, calls, none) == [c \in Calls |-> IF c \in calls THEN none ELSE f[c]]

\* ShouldDrop's cleanup and prune of the call at hand
Fundamentals(call) ==
  IF call \in Forgotten(lastSeen, RecencyWindow) THEN <<>>
  ELSE SelectSeq(entries[call], LAMBDA e : e.at > clock - RecencyWindow)

\* How strong the fundamental must be: more for every further multiple
RequiredDelta(mult) == MinReportDelta + MinReportDeltaStep * (mult - 2)

\* The first multiple that meets the frequency and the strength decides.
IsHarmonicOf(s, time, e) ==
  /\ s.freq > e.frequency
  /\ e.report - s.report >= MinReportDelta
  /\ \E mult \in 2..MaxHarmonicMultiple :
       Dist(e.frequency * mult, s.freq) <= FrequencyTolerance /\ e.report - s.report >= RequiredDelta(mult)
  /\ time - e.at <= RecencyWindow

detectHarmonic(s, time) ==
  \E i \in DOMAIN Fundamentals(s.call) : IsHarmonicOf(s, time, Fundamentals(s.call)[i])

\* ShouldDrop on a spot it looks at: the harmonic is dropped without being recorded.
Detect(s, time, dropped) ==
  LET gone == Forgotten(lastSeen, RecencyWindow)
      kept == Fundamentals(s.call)
      new == IF dropped THEN kept
             ELSE Append(kept, [frequency |-> s.freq, report |-> s.report, at |-> time])
  IN  /\ entries' = [Without(entries, gone, <<>>) EXCEPT ![s.call] = new]
      /\ lastSeen' = [Without(lastSeen, gone, Never) EXCEPT ![s.call] = IF new = <<>> THEN Never ELSE clock]
-----------------------------------------------------------------------------
RecentReports(samp, s) == SelectSeq(samp[s.call], LAMBDA r : r.at >= clock - AverageWindow)
Around(samp, s) == SelectSeq(RecentReports(samp, s), LAMBDA r : Dist(r.freq, s.freq) <= AverageTolerance)

\* The cleanup that every CleanupEvery-th operation runs first
Swept(seen) == IF (ops + 1) % CleanupEvery = 0 THEN Forgotten(seen, AverageWindow) ELSE {}

\* The mean of the report and those around it, rounded half up to 100 Hz; it is applied
\* with enough reports, and the other reports within the window stay.
Averaged(samp, s) ==
  LET near == Around(samp, s)
      n == Len(near) + 1
      sum == s.freq + FoldLeft(LAMBDA acc, r : acc + r.freq, 0, near)
  IN  IF n >= MinReports THEN (2 * sum + n) \div (2 * n) ELSE s.freq

\* Mutant: the averaged frequency is recorded instead of the reported one.
MutAverage(s) ==
  LET samp == Without(samples, Swept(sampleSeen), <<>>)
  IN  /\ samples' = [samp EXCEPT ![s.call] = Append(RecentReports(samp, s), [freq |-> Averaged(samp, s), at |-> clock])]
      /\ sampleSeen' = [Without(sampleSeen, Swept(sampleSeen), Never) EXCEPT ![s.call] = clock]
      /\ ops' = (ops + 1) % CleanupEvery

Average(s) ==
  LET samp == Without(samples, Swept(sampleSeen), <<>>)
  IN  /\ samples' = [samp EXCEPT ![s.call] = Append(RecentReports(samp, s), [freq |-> s.freq, at |-> clock])]
      /\ sampleSeen' = [Without(sampleSeen, Swept(sampleSeen), Never) EXCEPT ![s.call] = clock]
      /\ ops' = (ops + 1) % CleanupEvery

\* The placeholder, and applyKnownCallFloor
Glyph(s) ==
  LET placeholder == IF s.confidence = "" THEN "?" ELSE s.confidence
  IN  IF s.beacon \/ ~modeSupportsConfidenceGlyph(s.mode) THEN s.confidence
      ELSE IF placeholder = "?" /\ s.call \in KnownCalls THEN "S" ELSE placeholder
-----------------------------------------------------------------------------
Init ==
  /\ clock = 0 /\ count = 0 /\ ops = 0
  /\ entries = [c \in Calls |-> <<>>] /\ lastSeen = [c \in Calls |-> Never]
  /\ samples = [c \in Calls |-> <<>>] /\ sampleSeen = [c \in Calls |-> Never]
  /\ out = Nothing /\ passed = {}

Tick == clock < MaxTime /\ clock' = clock + 1
        /\ UNCHANGED <<count, entries, lastSeen, samples, sampleSeen, ops, out, passed>>

\* The stages of processOutputSpots: a spot heard s.late before it is processed
Process(s) ==
  LET time == clock - s.late
      checked == ~s.beacon /\ IsCallCorrectionCandidate(s.mode)
      dropped == checked /\ detectHarmonic(s, time)
      averaged == ~dropped /\ ~s.beacon /\ shouldAverageFrequency(s)
  IN  /\ count < MaxSpots /\ time >= 0
      /\ IF checked THEN Detect(s, time, dropped) ELSE UNCHANGED <<entries, lastSeen>>
      /\ IF averaged THEN Average(s) ELSE UNCHANGED <<samples, sampleSeen, ops>>
      /\ out' = [spot |-> s, time |-> time, dropped |-> dropped, confidence |-> Glyph(s),
                 freq |-> IF averaged THEN Averaged(Without(samples, Swept(sampleSeen), <<>>), s) ELSE s.freq]
      /\ passed' = IF dropped THEN passed ELSE passed \cup {[spot |-> s, time |-> time, now |-> clock]}
      /\ count' = count + 1
      /\ UNCHANGED clock

\* The periodic sweeps of StartCleanup
SweepHarmonics ==
  LET gone == Forgotten(lastSeen, RecencyWindow)
  IN  /\ gone # {}
      /\ entries' = Without(entries, gone, <<>>) /\ lastSeen' = Without(lastSeen, gone, Never)
      /\ UNCHANGED <<clock, count, samples, sampleSeen, ops, out, passed>>

SweepAverager ==
  LET gone == Swept(sampleSeen)
  IN  /\ samples' = Without(samples, gone, <<>>) /\ sampleSeen' = Without(sampleSeen, gone, Never)
      /\ ops' = (ops + 1) % CleanupEvery
      /\ UNCHANGED <<clock, count, entries, lastSeen, out, passed>>

Next == Tick \/ SweepHarmonics \/ SweepAverager \/ \E s \in Inputs : Process(s)

Spec == Init /\ [][Next]_vars
-----------------------------------------------------------------------------
\* A spot is dropped or moved on evidence alone: a dropped one has a lower, strong
\* enough signal of the same station before it, within the window, that was passed on
\* itself; a moved one stays within the tolerance, between reports of its own station
\* that were passed on unmoved within the window; a known call never goes out as "?".
\* Whenever the sweepers run (ShouldDrop, Average, applyKnownCallFloor).
ChangedOnEvidence ==
  [][count' # count =>
       LET s == out'.spot
           own == {p \in passed' : p.spot.call = s.call /\ ~p.spot.beacon}
           near == {p.spot.freq : p \in {q \in own : /\ shouldAverageFrequency(q.spot)
                                                     /\ clock - q.now <= AverageWindow
                                                     /\ Dist(q.spot.freq, s.freq) <= AverageTolerance}}
       IN  /\ out'.dropped =>
                \E p \in own : /\ IsHarmonicOf(s, out'.time, [frequency |-> p.spot.freq, report |-> p.spot.report,
                                                              at |-> p.time])
                               /\ p.time > clock - RecencyWindow
           /\ out'.freq # s.freq => \E a, b \in near : a <= out'.freq /\ out'.freq <= b
           /\ s.call \in KnownCalls => out'.confidence # "?"]_vars
=============================================================================
