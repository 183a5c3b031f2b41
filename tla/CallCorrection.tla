---------------------------- MODULE CallCorrection --------------------------
(***************************************************************************)
(* Call correction (spot/correction.go, quality.go, cooldown.go and        *)
(* maybeApplyCallCorrectionWithLogger in main.go): a spot whose callsign   *)
(* others on the frequency report differently is given the call of the     *)
(* majority, or that of a call known to be good there, before it is kept   *)
(* as evidence for the next one.                                           *)
(*                                                                         *)
(* Frequencies are in units of 50 Hz.  The distances are those of          *)
(* CallDistance and the number of reports required is what                 *)
(* AdaptiveThreshold may give.  Spots are processed one at a time by the   *)
(* output pipeline; the sweeps run on tickers of their own.                *)
(***************************************************************************)
EXTENDS Integers, Sequences, FiniteSets, FiniteSetsExt, SequencesExt

CONSTANTS
  Inputs,          \* [call, by, mode, freq, snr, late, shift], the spots that may come: how
                   \* late, and what averaging will add to the frequency once they are stored
  Distance,        \* of each two calls
  Reliable,        \* the spotters at or above MinSpotterReliability
  Valid,           \* the calls CTY knows
  InvalidAction,   \* "suppress" or "broadcast"
  RecencyWindow, FrequencyTolerance, SearchBuckets, MinSNR,
  MinReports,      \* the values min_reports may have at the moment
  MinAdvantage, MinConfidence, MaxEditDistance, Distance3Extra,
  QualityBin, QualityGood, QualityTTL, QualityMax, Priors,
  CooldownBin, CooldownDuration, CooldownTTL, CooldownMaxReporters, BypassAdvantage, BypassConfidence,
  MaxSpots, MaxTime    \* bounds

VARIABLES
  clock, taken,
  index,       \* bucket -> the spots in it, oldest first
  lastSeen,    \* bucket -> when it was last used
  quality,     \* <<call, bin>> -> [score, updated]
  cooldown,    \* <<call, bin>> -> [reporters : spotter -> time, until, lastSeen]
  verdict,     \* what became of the last spot
  heard        \* history: the spots of the recency window as they came in

stores == <<index, lastSeen, quality, cooldown>>
vars == <<clock, taken, stores, verdict, heard>>

Empty == <<>>
GuardSeparation == 2    \* the default of normalizeCorrectionSettings: nothing configures it
Global == -1
Never == -1

Restricted(f, keep) == [x \in (DOMAIN f \cap keep) |-> f[x]]
With(f, x, v) == [y \in DOMAIN f \cup {x} |-> IF y = x THEN v ELSE f[y]]

IsCallCorrectionCandidate(mode) == mode \in {"CW", "RTTY", "USB", "LSB"}
bucketKey(freq) == (freq + 1) \div 2
Fresh(spots) == SelectSeq(spots, LAMBDA s : s.time >= clock - RecencyWindow)

\* Buckets not used for a window are dropped: by the sweep and by Add ...
cleanup(idx, seen) == Restricted(idx, {k \in DOMAIN seen : seen[k] >= clock - RecencyWindow})

\* ... and the buckets around a spot lose what is old when they are read.
Nearby(freq) == (bucketKey(freq) - SearchBuckets) .. (bucketKey(freq) + SearchBuckets)

Pruned(freq) ==
  LET left == [k \in DOMAIN index |-> IF k \in Nearby(freq) THEN Fresh(index[k]) ELSE index[k]]
  IN  Restricted(left, {k \in DOMAIN left : left[k] # <<>>})

Candidates(freq) ==
  FlattenSeq([i \in 1 .. 2 * SearchBuckets + 1 |->
                LET k == bucketKey(freq) - SearchBuckets + i - 1
                IN  IF k \in DOMAIN index THEN Fresh(index[k]) ELSE <<>>])

passesSNR(s) == MinSNR <= 0 \/ s.snr >= MinSNR

\* Mutant: what the spotter itself reported before counts like any other report.
MutCounts(e, s) ==
  /\ passesSNR(e) /\ e.freq - s.freq \in -FrequencyTolerance .. FrequencyTolerance
  /\ clock - e.time <= RecencyWindow /\ e.mode = s.mode

\* The other reports that are evidence about spot s: a spotter's own only when it
\* was of the same call
Counts(e, s) ==
  /\ passesSNR(e) /\ e.freq - s.freq \in -FrequencyTolerance .. FrequencyTolerance
  /\ clock - e.time <= RecencyWindow
  /\ IF e.by = s.by THEN e.call = s.call ELSE e.mode = s.mode

Evidence(s) ==
  (IF passesSNR(s) THEN <<s>> ELSE <<>>) \o SelectSeq(Candidates(s.freq), LAMBDA e : Counts(e, s))

\* callStats: who reports each call, when and where it was last heard
Reporters(c, ev) == {ev[i].by : i \in {j \in DOMAIN ev : ev[j].call = c /\ ev[j].by \in Reliable}}

LastHeard(c, s, ev) ==
  LET of == SelectSeq(ev, LAMBDA e : e.call = c /\ e.by \in Reliable)
  IN  IF of = <<>> THEN [time |-> s.time, freq |-> s.freq]
      ELSE [time |-> Max({of[i].time : i \in DOMAIN of}), freq |-> of[Len(of)].freq]

Calls(s, ev) == {s.call} \cup {c \in {ev[i].call : i \in DOMAIN ev} : Reporters(c, ev) # {}}
Total(ev) == Cardinality({ev[i].by : i \in DOMAIN ev})
Percent(n, ev) == (n * 100) \div Total(ev)
Support(c, ev) == Cardinality(Reporters(c, ev))
ClusterCalls(s, ev) == {s.call} \cup {ev[i].call : i \in {j \in DOMAIN ev : ev[j].by # s.by}}
-----------------------------------------------------------------------------
freqBin(freq) == freq \div QualityBin
binFor(freq) == freq \div CooldownBin

\* CallQualityStore.Get: an entry that outlived its time to live counts as absent
Score(c, freq) ==
  LET bin == freqBin(freq)
      pinned(b) == IF <<c, b>> \in DOMAIN Priors THEN Priors[<<c, b>>] ELSE 0
      live == <<c, bin>> \in DOMAIN quality /\ clock - quality[<<c, bin>>].updated <= QualityTTL
  IN  IF live THEN pinned(bin) + quality[<<c, bin>>].score
      ELSE IF <<c, bin>> \in DOMAIN Priors THEN pinned(bin) ELSE pinned(Global)

IsGood(c, freq) == Score(c, freq) >= QualityGood

Unexpired(q) == Restricted(q, {k \in DOMAIN q : clock - q[k].updated <= QualityTTL})

\* Over its size the store forgets what expired, and then the oldest entries, the
\* order among equals being arbitrary.
Evicted(q) ==
  LET live == Unexpired(q)
  IN  IF Cardinality(DOMAIN q) <= QualityMax THEN {q}
      ELSE IF Cardinality(DOMAIN live) <= QualityMax THEN {live}
      ELSE {Restricted(live, keep) : keep \in
              {K \in kSubset(QualityMax, DOMAIN live) :
                 \A k \in K, o \in DOMAIN live \ K : live[k].updated >= live[o].updated}}

\* CallQualityStore.Add
AddScore(q, key, delta) ==
  LET old == IF key \in DOMAIN q /\ clock - q[key].updated <= QualityTTL THEN q[key].score ELSE 0
  IN  Evicted(With(q, key, [score |-> old + delta, updated |-> clock]))

\* The winner gains a point and every other call of the cluster loses one.
updateCallQualityForCluster(winner, freq, calls) ==
  FoldSet(LAMBDA c, qs : UNION {AddScore(q, <<c, freqBin(freq)>>, -1) : q \in qs},
          AddScore(quality, <<winner, freqBin(freq)>>, 1), calls \ {winner})

\* The good calls closest to the subject, one of which is the anchor
findAnchorForCall(s, calls) ==
  LET good == {c \in calls \ {s.call} : IsGood(c, s.freq) /\ Distance[s.call, c] <= MaxEditDistance}
  IN  {c \in good : \A d \in good : Distance[s.call, c] <= Distance[s.call, d]}
-----------------------------------------------------------------------------
\* CallCooldown.Record: the call's reporters are noted, no more than so many, and
\* enough of them start the cooldown.
Record(s, reporters, min) ==
  LET key == <<s.call, binFor(s.freq)>>
      live == key \in DOMAIN cooldown /\ cooldown[key].lastSeen + CooldownTTL >= clock
      kept == IF live THEN Restricted(cooldown[key].reporters,
                                      {r \in DOMAIN cooldown[key].reporters :
                                         cooldown[key].reporters[r] >= clock - RecencyWindow})
              ELSE Empty
      all == [r \in DOMAIN kept \cup reporters |-> IF r \in reporters THEN clock ELSE kept[r]]
      sizes == Min({CooldownMaxReporters, Cardinality(DOMAIN all)})
      newest == {K \in kSubset(sizes, DOMAIN all) : \A r \in K, o \in DOMAIN all \ K : all[r] >= all[o]}
      until == IF live THEN cooldown[key].until ELSE Never
  IN  {With(cooldown, key,
            [reporters |-> Restricted(all, K), lastSeen |-> clock,
             until |-> IF sizes >= min THEN clock + CooldownDuration ELSE until]) : K \in newest}

\* CallCooldown.ShouldBlock, right after Record
ShouldBlock(cd, s, ev, best, min) ==
  LET e == cd[<<s.call, binFor(s.freq)>>]
      adv == BypassAdvantage > 0 /\ Support(best, ev) >= Support(s.call, ev) + BypassAdvantage
      conf == BypassConfidence > 0
                /\ Percent(Support(best, ev), ev) >= Percent(Support(s.call, ev), ev) + BypassConfidence
      bypass == IF BypassAdvantage > 0 /\ BypassConfidence > 0 THEN adv /\ conf ELSE adv \/ conf
  IN  /\ Cardinality(DOMAIN e.reporters) >= min
      /\ e.until # Never /\ clock <= e.until
      /\ ~bypass
-----------------------------------------------------------------------------
\* The loop over the calls, in the order of a Go map: the runner-up is the call
\* the last leader overtook.
Lead(order, s, ev) ==
  FoldLeft(LAMBDA acc, c :
             LET n == Support(c, ev)
                 last == LastHeard(c, s, ev)
             IN  IF n > acc.count \/ (n = acc.count /\ last.time > acc.time)
                 THEN [call |-> c, count |-> n, time |-> last.time, freq |-> last.freq,
                       runner |-> acc.count, runnerFreq |-> acc.freq]
                 ELSE acc,
           [call |-> "", count |-> 0, time |-> Never, freq |-> 0, runner |-> 0, runnerFreq |-> 0], order)

\* The frequency guard: a runner-up elsewhere with half the support or more
Guarded(lead) ==
  /\ lead.runner > 0
  /\ lead.freq - lead.runnerFreq \notin -(GuardSeparation - 1) .. (GuardSeparation - 1)
  /\ 2 * lead.runner >= lead.count

\* The thresholds a majority must pass
Accepted(lead, s, ev, min) ==
  LET d == Distance[s.call, lead.call]
      extra == IF d >= 3 THEN Distance3Extra ELSE [reports |-> 0, advantage |-> 0, confidence |-> 0]
  IN  /\ lead.call # s.call /\ d <= MaxEditDistance
      /\ lead.count >= min + extra.reports
      /\ lead.count >= Support(s.call, ev) + MinAdvantage + extra.advantage
      /\ Percent(lead.count, ev) >= MinConfidence + extra.confidence
      /\ ~Guarded(lead)

None == [call |-> "", kind |-> "none"]

\* SuggestCallCorrection: an anchor at once, else the majority if nothing is
\* against it.  The outcomes are those of the orders the calls may come in.
Suggest(s, ev, cd, min) ==
  LET anchors == findAnchorForCall(s, Calls(s, ev))
      leads == {Lead(order, s, ev) : order \in SetToSeqs(Calls(s, ev))}
  IN  IF Total(ev) = 0 THEN {None}
      ELSE IF anchors # {} THEN {[call |-> c, kind |-> "anchor"] : c \in anchors}
      ELSE {IF Accepted(l, s, ev, min) /\ ~ShouldBlock(cd, s, ev, l.call, min)
            THEN [call |-> l.call, kind |-> "majority"] ELSE None : l \in leads}

formatConfidence(percent, total) ==
  IF total <= 1 THEN "?" ELSE IF percent >= 51 THEN "V" ELSE IF percent >= 25 THEN "P" ELSE "?"

\* What maybeApplyCallCorrectionWithLogger makes of the suggestion
Applied(s, ev, o) ==
  IF o = None
  THEN [call |-> s.call, drop |-> FALSE,
        glyph |-> formatConfidence(IF Total(ev) = 0 THEN 0 ELSE Percent(Support(s.call, ev), ev), Total(ev))]
  ELSE IF o.call \in Valid THEN [call |-> o.call, drop |-> FALSE, glyph |-> "C"]
  ELSE [call |-> s.call, drop |-> InvalidAction = "suppress", glyph |-> "B"]

\* The deferred Add keeps the spot, under the call it now has, in the bucket of the
\* frequency it came with; the averaging that follows moves the stored spot itself.
Stored(s, call) ==
  LET key == bucketKey(s.freq)
      seen == [k \in DOMAIN Pruned(s.freq) |-> IF k \in Nearby(s.freq) THEN clock ELSE lastSeen[k]]
      kept == cleanup(Pruned(s.freq), seen)
      old == IF key \in DOMAIN kept THEN Fresh(kept[key]) ELSE <<>>
  IN  /\ index' = With(kept, key, Append(old, [s EXCEPT !.call = call, !.freq = @ + s.shift]))
      /\ lastSeen' = With(Restricted(seen, DOMAIN kept), key, clock)

Init ==
  /\ clock = 0 /\ taken = 0
  /\ index = Empty /\ lastSeen = Empty /\ quality = Empty /\ cooldown = Empty
  /\ verdict = Empty /\ heard = {}

Recent(log) == {h \in log : clock - h.time <= RecencyWindow}

Tick == clock < MaxTime /\ clock' = clock + 1 /\ UNCHANGED <<taken, stores, verdict, heard>>

\* One spot of the output pipeline
Process(input, min) ==
  LET s == [call |-> input.call, by |-> input.by, mode |-> input.mode, freq |-> input.freq,
            snr |-> input.snr, shift |-> input.shift, time |-> clock - input.late]
      ev == Evidence(s)
  IN  /\ taken < MaxSpots /\ input.late <= clock /\ taken' = taken + 1 /\ UNCHANGED clock
      /\ IF ~IsCallCorrectionCandidate(s.mode) THEN verdict' = Empty /\ UNCHANGED <<stores, heard>>
         ELSE /\ \E cd \in IF Total(ev) = 0 THEN {cooldown} ELSE Record(s, Reporters(s.call, ev), min) :
                \E o \in Suggest(s, ev, cd, min) :
                   LET a == Applied(s, ev, o)
                   IN  /\ cooldown' = cd
                       /\ quality' \in IF o = None THEN {quality}
                                       ELSE updateCallQualityForCluster(o.call, s.freq, ClusterCalls(s, ev))
                       /\ Stored(s, a.call)
                       /\ verdict' = [spot |-> s, kind |-> o.kind, call |-> a.call, glyph |-> a.glyph,
                                      drop |-> a.drop, min |-> min,
                                      support |-> [c \in Calls(s, ev) |-> Reporters(c, ev)],
                                      where |-> [c \in Calls(s, ev) |-> LastHeard(c, s, ev).freq]]
              /\ heard' = Recent(heard) \cup {s}

\* The tickers of CorrectionIndex, CallQualityStore and CallCooldown
SweepIndex ==
  /\ index' = cleanup(index, lastSeen) /\ index' # index
  /\ lastSeen' = Restricted(lastSeen, DOMAIN index')
  /\ UNCHANGED <<clock, taken, quality, cooldown, verdict, heard>>

SweepQuality ==
  /\ quality' = Unexpired(quality) /\ quality' # quality
  /\ UNCHANGED <<clock, taken, index, lastSeen, cooldown, verdict, heard>>

SweepCooldown ==
  /\ cooldown' = Restricted(cooldown, {k \in DOMAIN cooldown : cooldown[k].lastSeen + CooldownTTL >= clock})
  /\ cooldown' # cooldown
  /\ UNCHANGED <<clock, taken, index, lastSeen, quality, verdict, heard>>

Next ==
  \/ Tick \/ SweepIndex \/ SweepQuality \/ SweepCooldown
  \/ \E input \in Inputs, min \in MinReports : Process(input, min)

Spec == Init /\ [][Next]_vars
-----------------------------------------------------------------------------
\* A call is corrected by the word of others: whatever was corrected, stored,
\* moved and expired before, the reports SuggestCallCorrection counts for the
\* winner come from enough reliable spotters, none of them the one being
\* corrected, each of which was heard on the frequency within the window; and the
\* correction never makes a call that nobody reported.
OthersOutvote ==
  verdict # Empty /\ verdict.kind = "majority" /\ verdict.glyph = "C" =>
    LET s == verdict.spot
        for == verdict.support[verdict.call]
    IN  /\ Cardinality(for) >= verdict.min /\ s.by \notin for /\ for \subseteq Reliable
        /\ \A r \in for : \E h \in heard :
             /\ h.by = r /\ s.time - h.time <= RecencyWindow
             /\ h.freq + h.shift - s.freq \in -FrequencyTolerance .. FrequencyTolerance
=============================================================================
