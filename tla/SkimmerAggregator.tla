-------------------------- MODULE SkimmerAggregator -------------------------
(***************************************************************************)
(* Consolidation of skimmer spots before they are broadcast                *)
(* (aggregate/skimmer.go): spots of one callsign collect in buckets by     *)
(* frequency; a sweep over the queued buckets emits one spot for a bucket  *)
(* that has waited long enough and was heard by enough skimmers, on the    *)
(* frequency most of them agree on, and moves the bucket there.            *)
(*                                                                         *)
(* Frequencies are counted in units of 100 Hz.  Reports and the choice of  *)
(* the record whose text is sent are left out.                             *)
(***************************************************************************)
EXTENDS Integers, Sequences, FiniteSets, SequencesExt

CONSTANTS
  Freqs, Skimmers,
  DwellSeconds, LimboSeconds, RespotSeconds, CacheSeconds,
  MinQuality, MaxQuality,
  SearchUnits, MaxDeviants, MaxEntries, MaxRecordsPerKey, InrushDelaySeconds,
  MaxTime       \* bound

VARIABLES
  now,
  st,       \* the state of the aggregator goroutine; out is local to a sweep
  lastOut   \* when a spot was last emitted on each frequency

vars == <<now, st, lastOut>>

Never == -1
NoBucket == [createdAt |-> Never, lastEmitAt |-> Never, records |-> <<>>]
NoScore == [good |-> 1, bad |-> 0, lastIn |-> Never]

Init ==
  /\ now = 0
  /\ st = [buckets |-> [f \in Freqs |-> NoBucket], queue |-> {},
           skimmers |-> [k \in Skimmers |-> NoScore], out |-> {}]
  /\ lastOut = [f \in Freqs |-> Never]

Exists(b) == b # NoBucket

Tick == now < MaxTime /\ now' = now + 1 /\ UNCHANGED <<st, lastOut>>

\* findBucket: the nearest bucket in reach, the upper one first
findBucket(buckets, f) ==
  LET near == {g \in Freqs : Exists(buckets[g]) /\ g - f <= SearchUnits /\ f - g <= SearchUnits}
      dist(g) == IF g >= f THEN g - f ELSE f - g
  IN  IF near = {} THEN f
      ELSE CHOOSE g \in near : \A h \in near : dist(g) < dist(h) \/ (dist(g) = dist(h) /\ g >= h)

\* ingest of a spot by skimmer k on frequency f; what it drops changes nothing
ingest(f, k) ==
  LET key == findBucket(st.buckets, f)
      old == st.buckets[key]
      reopened == IF old.records = <<>> THEN [old EXCEPT !.createdAt = now] ELSE old
  IN  /\ now >= InrushDelaySeconds
      /\ (Exists(old) /\ old.records = <<>>) => now - old.lastEmitAt >= RespotSeconds
      /\ ~Exists(old) => Cardinality({g \in Freqs : Exists(st.buckets[g])}) < MaxEntries
      /\ Len(old.records) < MaxRecordsPerKey
      /\ st' = [st EXCEPT !.buckets[key] = [reopened EXCEPT !.records = Append(@, [origin |-> k, freq |-> f])],
                          !.queue = @ \cup {key}]
      /\ UNCHANGED <<now, lastOut>>

\* collapseByOrigin: the first record of each skimmer
collapseByOrigin(records) ==
  {records[i] : i \in {j \in 1 .. Len(records) : \A h \in 1 .. j - 1 : records[h].origin # records[j].origin}}

\* Ten times the weight of a skimmer's vote
Weight(score) == IF score.good - score.bad < 1 THEN 1 ELSE 10 * (score.good - score.bad)

\* consensusFrequency: most votes, the lowest of those
Consensus(records, skimmers) ==
  LET votes(f) == FoldSet(LAMBDA r, acc : acc + Weight(skimmers[r.origin]), 0, {r \in records : r.freq = f})
      voted == {r.freq : r \in records}
  IN  CHOOSE f \in voted : \A g \in voted : votes(f) > votes(g) \/ (votes(f) = votes(g) /\ f <= g)

Less(a, b) == IF a < b THEN a ELSE b
More(a, b) == IF a > b THEN a ELSE b

\* The scores after a consensus on f
Scored(records, skimmers, f) ==
  [k \in Skimmers |->
    LET s == skimmers[k]
        r == {x \in records : x.origin = k}
    IN  IF r = {} THEN s
        ELSE IF \E x \in r : x.freq = f
        THEN [good |-> Less(s.good + 1, MaxDeviants), bad |-> More(s.bad - 1, 0), lastIn |-> now]
        ELSE [good |-> More(s.good - 1, 0), bad |-> Less(s.bad + 1, MaxDeviants), lastIn |-> now]]

\* Emission of the bucket at key: it is emptied, leaves the queue and moves to the
\* frequency of the consensus, over whatever bucket is there.
Emitted(s, key, records) ==
  LET f == Consensus(records, s.skimmers)
      b == [s.buckets[key] EXCEPT !.records = <<>>, !.lastEmitAt = now]
  IN  [buckets  |-> [[s.buckets EXCEPT ![key] = NoBucket] EXCEPT ![f] = b],
       queue    |-> s.queue \ {key},
       skimmers |-> Scored(records, s.skimmers, f),
       out      |-> s.out \cup {f}]

\* Mutant: a bucket in limbo is kept.
MutProcessKey(s, key) ==
  LET b == s.buckets[key]
      records == collapseByOrigin(b.records)
      quality == Cardinality(records)
      dwell == now - b.createdAt
      dropped == [s EXCEPT !.queue = @ \ {key}, !.buckets[key] = NoBucket]
  IN  CASE ~Exists(b) -> [s EXCEPT !.queue = @ \ {key}]
        [] Exists(b) /\ b.records = <<>> ->
             IF b.lastEmitAt = Never \/ now - b.lastEmitAt > CacheSeconds THEN dropped ELSE s
        [] b.records # <<>> /\ quality < MaxQuality /\ dwell < DwellSeconds -> s
        [] b.records # <<>> /\ (quality >= MaxQuality \/ dwell >= DwellSeconds) ->
             IF quality < MinQuality THEN s ELSE Emitted(s, key, records)

\* The body of the loop of processQueue
ProcessKey(s, key) ==
  LET b == s.buckets[key]
      records == collapseByOrigin(b.records)
      quality == Cardinality(records)
      dwell == now - b.createdAt
      dropped == [s EXCEPT !.queue = @ \ {key}, !.buckets[key] = NoBucket]
  IN  CASE ~Exists(b) -> [s EXCEPT !.queue = @ \ {key}]
        [] Exists(b) /\ b.records = <<>> ->
             IF b.lastEmitAt = Never \/ now - b.lastEmitAt > CacheSeconds THEN dropped ELSE s
        [] b.records # <<>> /\ quality < MaxQuality /\ dwell < DwellSeconds /\ dwell < LimboSeconds -> s
        [] b.records # <<>> /\ (quality >= MaxQuality \/ dwell >= DwellSeconds \/ dwell >= LimboSeconds) ->
             IF quality < MinQuality
             THEN IF dwell >= LimboSeconds THEN dropped ELSE s
             ELSE Emitted(s, key, records)

\* The end of processQueue
PurgeScores(skimmers) ==
  [k \in Skimmers |-> IF skimmers[k].lastIn # Never /\ now - skimmers[k].lastIn > CacheSeconds THEN NoScore ELSE skimmers[k]]

\* processQueue, by the ticker and, as flush, when the context is cancelled.  Go
\* iterates over the queue in any order.
processQueue ==
  \E order \in SetToSeqs(st.queue) :
    LET s == FoldLeft(ProcessKey, st, order)
    IN  /\ st' = [s EXCEPT !.skimmers = PurgeScores(@), !.out = {}]
        /\ lastOut' = [f \in Freqs |-> IF f \in s.out THEN now ELSE lastOut[f]]
        /\ UNCHANGED now

Next ==
  \/ Tick
  \/ \E f \in Freqs, k \in Skimmers : ingest(f, k)
  \/ processQueue

Spec == Init /\ [][Next]_vars
-----------------------------------------------------------------------------
Times == Never .. MaxTime
Pending == {f \in Freqs : st.buckets[f].records # <<>>}

TypeOK ==
  /\ now \in 0 .. MaxTime /\ st.queue \subseteq Freqs /\ lastOut \in [Freqs -> Times]
  /\ Cardinality({f \in Freqs : Exists(st.buckets[f])}) <= MaxEntries
  /\ \A f \in Freqs :
       LET b == st.buckets[f]
       IN  b.createdAt \in Times /\ b.lastEmitAt \in Times /\ Len(b.records) <= MaxRecordsPerKey
  /\ \A k \in Skimmers : st.skimmers[k].good \in 0 .. MaxDeviants /\ st.skimmers[k].bad \in 0 .. MaxDeviants

\* A bucket with records is in the queue, also after buckets have moved onto each
\* other: no record waits where the sweep never looks (ingest, processQueue).
PendingIsQueued == Pending \subseteq st.queue

\* "drop if still below min_quality after this": no sweep leaves records behind that
\* have waited for the limbo time.
LimboStep ==
  processQueue => \A f \in Freqs : st'.buckets[f].records # <<>> => now - st'.buckets[f].createdAt < LimboSeconds
LimboEnds == [][LimboStep]_vars
=============================================================================
