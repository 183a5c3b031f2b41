------------------------- MODULE PathReliability -------------------------
(***************************************************************************)
(* The path predictor (pathreliability/).  Reports of signal strength,     *)
(* from the output pipeline and from the path-only feed, are summed into   *)
(* buckets, one per direction, band and pair of cells, fine and coarse;    *)
(* what a bucket holds decays with time.  A telnet sender asks for the     *)
(* class of the path between its user and the DX.                          *)
(*                                                                         *)
(* Time is counted in half-lives, so a decay by n is a division by 2^n,    *)
(* and a weight of 1 is the constant One.  Store.sample takes the bucket's *)
(* pointer under the shard's lock and reads its three fields after the     *)
(* lock is released: each read is a step here, and a report may be summed  *)
(* in between.  (updateBucket writes the fields in the opposite order, so  *)
(* its writes as one step give every outcome the interleaved writes give.) *)
(***************************************************************************)
EXTENDS Integers, Sequences, FiniteSets, FiniteSetsExt

CONSTANTS
  Grids,           \* locators of users and of spots
  Spots,           \* spots with a report: [dx, de (grids), band, mode, snr, beacon]
  Asked,           \* paths users ask for: <<user's grid, DX's grid, band>>
  FineOf,          \* EncodeCell: the fine cell of a grid, or InvalidCell
  CoarseOf,        \* EncodeCoarseCell: the coarse cell, or InvalidCell
  Bands,           \* the predictor's bands, in index order
  Offset,          \* ModeOffsets: per supported mode, to its FT8 equivalent
  ClampMin, ClampMax,
  PowerOf,         \* dbToPower on ClampMin..ClampMax
  BeaconWeightCap, \* in units of One
  One,             \* the weight of one report
  WordBits,        \* width of a field of a key (16 in the code)
  StaleAfter,      \* staleAfterSeconds
  MaxAge,          \* spot_policy.max_age_seconds
  MinFine, FineOnly, MinEffective,
  MergeReceive, MergeTransmit, \* merge weights, out of their sum
  Discount,        \* ReverseHintDiscount is 1 / Discount
  NoiseDivisors,   \* the noise classes' power divisors
  Thresholds,      \* GlyphThresholdsPower: [high, medium, low]
  MinPeak,         \* compactMinPeak
  CompactInterval,
  MaxTime, MaxReports, MaxReads \* bounds of the model

VARIABLES
  now,
  buckets,     \* Store.shards[].buckets: key -> [sum, weight, last]
  peak,        \* shard.peak
  lastCompact, \* of the purge ticker; -1 before the first
  reader,      \* a telnet sender inside pathClassForClient
  shown,       \* the last class a sender got, and what it was asked for
  taken,       \* history: the reports summed so far
  reads        \* bound on look-ups

vars == <<now, buckets, peak, lastCompact, reader, shown, taken, reads>>

InvalidCell == 0

Idle == [pc |-> "idle"]

Sample(sum, weight) == [sum |-> sum, weight |-> weight]

NoSample == Sample(0, 0)

BandIndexes == 0 .. Len(Bands) - 1

(***************************************************************************)
(* Keys: band, receiver and sender packed into one word.                   *)
(***************************************************************************)
Word == 2 ^ WordBits

packKey(rx, tx, band) ==
  IF rx = InvalidCell \/ tx = InvalidCell THEN 0
  ELSE band * Word ^ 3 + rx * Word ^ 2 + tx * Word

packCoarseKey(rx, tx, band) ==
  IF rx = InvalidCell \/ tx = InvalidCell THEN 0
  ELSE band * Word ^ 2 + rx * Word + tx

isCoarse(key) == key % Word # 0

\* The band PurgeStale and the statistics read out of a key.
KeyBand(key) ==
  IF isCoarse(key) THEN (key \div Word ^ 2) % Word ELSE (key \div Word ^ 3) % Word

(***************************************************************************)
(* Taking a report in.                                                     *)
(***************************************************************************)
\* clamp
clamp(v, min, max) == IF v < min THEN min ELSE IF v > max THEN max ELSE v

\* Config.powerFromDB
powerFromDB(db) == PowerOf[clamp(db, ClampMin, ClampMax)]

\* FT8Equivalent and BucketForIngest agree on the modes they take.
Ingested(mode) == mode \in DOMAIN Offset

FT8Equivalent(mode, snr) == snr + Offset[mode]

\* decayFactor, applied to a quantity.
Decayed(x, age) == IF age <= 0 THEN x ELSE x \div 2 ^ age

\* The old weight is kept as it is.
MutAddTo(b, power, weight, at) ==
  [sum |-> b.sum + power * weight, weight |-> b.weight + weight, last |-> at]

\* Store.updateBucket on a bucket that exists.
AddTo(b, power, weight, at) ==
  LET oldWeight == Decayed(b.weight, at - b.last)
      newWeight == oldWeight + weight
  IN IF newWeight <= 0 THEN [sum |-> 0, weight |-> 0, last |-> at]
     ELSE [sum |-> Decayed(b.sum, at - b.last) + power * weight,
           weight |-> newWeight, last |-> at]

\* Store.updateBucket
updateBucket(bs, key, power, weight, at) ==
  IF key = 0 THEN bs
  ELSE [k \in DOMAIN bs \union {key} |->
          IF k # key THEN bs[k]
          ELSE IF key \in DOMAIN bs THEN AddTo(bs[key], power, weight, at)
          ELSE [sum |-> power * weight, weight |-> weight, last |-> at]]

\* Store.Update: the fine bucket, then the coarse one.
StoreUpdate(r) ==
  updateBucket(
    updateBucket(buckets, packKey(FineOf[r.de], FineOf[r.dx], r.band), r.power, r.weight, r.at),
    packCoarseKey(CoarseOf[r.de], CoarseOf[r.dx], r.band), r.power, r.weight, r.at)

\* Predictor.Update: a beacon's weight is capped.
Report(s, at) ==
  [dx |-> s.dx, de |-> s.de, band |-> s.band, at |-> at,
   power |-> powerFromDB(FT8Equivalent(s.mode, s.snr)),
   weight |-> IF s.beacon /\ BeaconWeightCap > 0 /\ One > BeaconWeightCap
              THEN BeaconWeightCap ELSE One]

\* The spotter is the receiver, the DX the sender.  isStale drops what is
\* older than MaxAge; a clock ahead of ours dates a spot in the future.
Take(r) ==
  /\ now - r.at <= MaxAge
  /\ Len(taken) < MaxReports
  /\ buckets' = StoreUpdate(r)
  /\ peak' = IF Cardinality(DOMAIN buckets') > peak
             THEN Cardinality(DOMAIN buckets') ELSE peak
  /\ taken' = Append(taken, r)
  /\ UNCHANGED <<now, lastCompact, reader, shown, reads>>

\* processPSKRPathOnlySpots: at least one pair of cells is known.
PathOnlySpot ==
  \E s \in Spots, at \in 0 .. now + 1 :
    /\ Ingested(s.mode)
    /\ \/ FineOf[s.dx] # InvalidCell /\ FineOf[s.de] # InvalidCell
       \/ CoarseOf[s.dx] # InvalidCell /\ CoarseOf[s.de] # InvalidCell
    /\ Take(Report(s, at))

\* processOutputSpots: no test of the cells; buckets without cells are skipped.
PipelineSpot ==
  \E s \in Spots, at \in 0 .. now + 1 :
    /\ Ingested(s.mode)
    /\ Take(Report(s, at))

(***************************************************************************)
(* The minute ticker of main.go: purge, and once an interval compact.      *)
(***************************************************************************)
Age(b, at) == IF at < b.last THEN 0 ELSE at - b.last

Stale(b, at) == StaleAfter > 0 /\ Age(b, at) > StaleAfter

\* Store.PurgeStale
PurgeStale(bs, at) ==
  LET removed == {k \in DOMAIN bs : KeyBand(k) \in BandIndexes /\ Stale(bs[k], at)}
  IN [k \in DOMAIN bs \ removed |-> bs[k]]

\* Store.Compact: the peak after rebuilding a map well below it.  The
\* entries are kept, and the shrink ratio is one half.
Compacted(size, pk) ==
  IF pk >= MinPeak /\ size < pk \div 2 THEN size ELSE pk

\* A sender that holds the pointer of a purged bucket reads on from it.
Tick ==
  /\ buckets' = PurgeStale(buckets, now)
  /\ IF lastCompact = -1 \/ now - lastCompact >= CompactInterval
     THEN /\ peak' = Compacted(Cardinality(DOMAIN buckets'), peak)
          /\ lastCompact' = now
     ELSE UNCHANGED <<peak, lastCompact>>
  /\ reader' = IF reader.pc \in {"weight", "sum"} /\ reader.held = <<>>
                  /\ reader.key \notin DOMAIN buckets'
               THEN [reader EXCEPT !.held = <<buckets[reader.key]>>] ELSE reader
  /\ UNCHANGED <<now, shown, taken, reads>>

(***************************************************************************)
(* Asking for a path.                                                      *)
(***************************************************************************)
\* Predictor.mergeFromStore: the four buckets a prediction reads, in order.
Wanted(user, dx, band) ==
  << packKey(FineOf[user], FineOf[dx], band),
     packCoarseKey(CoarseOf[user], CoarseOf[dx], band),
     packKey(FineOf[dx], FineOf[user], band),
     packCoarseKey(CoarseOf[dx], CoarseOf[user], band) >>

\* pathGlyphsForClient and pathClassForClient, up to Predict: without the
\* fine cells of both ends there is no prediction.
Ask ==
  \E <<user, dx, band>> \in Asked, noise \in NoiseDivisors :
    /\ reader.pc = "idle"
    /\ reads < MaxReads
    /\ reads' = reads + 1
    /\ IF FineOf[user] = InvalidCell \/ FineOf[dx] = InvalidCell
       THEN /\ shown' = [class |-> "INSUFFICIENT", user |-> user, dx |-> dx, band |-> band,
                         at |-> now]
            /\ UNCHANGED reader
       ELSE /\ reader' = [pc |-> "last", at |-> now, user |-> user, dx |-> dx, band |-> band,
                          noise |-> noise, samples |-> <<>>, key |-> 0,
                          age |-> 0, weight |-> 0, held |-> <<>>]
            /\ UNCHANGED shown
    /\ UNCHANGED <<now, buckets, peak, lastCompact, taken>>

Key == Wanted(reader.user, reader.dx, reader.band)[Len(reader.samples) + 1]

Done(s) == [reader EXCEPT !.pc = "last", !.samples = Append(reader.samples, s),
                          !.key = 0, !.age = 0, !.weight = 0, !.held = <<>>]

Held == IF reader.held = <<>> THEN buckets[reader.key] ELSE reader.held[1]

\* Store.sample: the pointer, and lastUpdate through it.
ReadLast ==
  /\ reader.pc = "last"
  /\ Len(reader.samples) < 4
  /\ reader' =
       IF Key \notin DOMAIN buckets \/ Stale(buckets[Key], reader.at) THEN Done(NoSample)
       ELSE [reader EXCEPT !.pc = "weight", !.key = Key, !.age = Age(buckets[Key], reader.at)]
  /\ UNCHANGED <<now, buckets, peak, lastCompact, shown, taken, reads>>

\* Store.sample: weight.
ReadWeight ==
  /\ reader.pc = "weight"
  /\ LET w == Decayed(Held.weight, reader.age)
     IN reader' = IF w <= 0 THEN Done(NoSample)
                  ELSE [reader EXCEPT !.pc = "sum", !.weight = w]
  /\ UNCHANGED <<now, buckets, peak, lastCompact, shown, taken, reads>>

\* Store.sample: sumPower.
ReadSum ==
  /\ reader.pc = "sum"
  /\ LET s == Decayed(Held.sum, reader.age)
     IN reader' = Done(IF s <= 0 THEN NoSample ELSE Sample(s, reader.weight))
  /\ UNCHANGED <<now, buckets, peak, lastCompact, shown, taken, reads>>

\* SelectSample; a sample's value is sum / weight, so a blend adds both.
SelectSample(fine, coarse) ==
  IF coarse.weight = 0 THEN fine
  ELSE IF fine.weight = 0 THEN coarse
  ELSE IF FineOnly > 0 /\ fine.weight >= FineOnly THEN fine
  ELSE IF MinFine > 0 /\ fine.weight < MinFine THEN coarse
  ELSE Sample(fine.sum + coarse.sum, fine.weight + coarse.weight)

\* mergeSamples: the power as a fraction num / den, and the weight.
mergeSamples(rx, tx, noise) ==
  LET total == MergeReceive + MergeTransmit
  IN IF rx.weight > 0 /\ tx.weight > 0
     THEN [num |-> MergeReceive * rx.sum * tx.weight + MergeTransmit * tx.sum * rx.weight * noise,
           den |-> total * rx.weight * tx.weight * noise,
           weight |-> (MergeReceive * rx.weight + MergeTransmit * tx.weight) \div total]
     ELSE IF rx.weight > 0
     THEN [num |-> rx.sum, den |-> rx.weight * noise, weight |-> rx.weight \div Discount]
     ELSE IF tx.weight > 0
     THEN [num |-> tx.sum, den |-> tx.weight, weight |-> tx.weight \div Discount]
     ELSE [num |-> 0, den |-> 1, weight |-> 0]

\* GlyphForPower and ClassForPower.
ClassForPower(num, den) ==
  IF num >= Thresholds.high * den THEN "HIGH"
  ELSE IF num >= Thresholds.medium * den THEN "MEDIUM"
  ELSE IF num >= Thresholds.low * den THEN "LOW"
  ELSE "UNLIKELY"

\* Predictor.Predict
PredictClass(s, noise) ==
  LET merged == mergeSamples(SelectSample(s[1], s[2]), SelectSample(s[3], s[4]), noise)
  IN IF merged.weight >= MinEffective THEN ClassForPower(merged.num, merged.den)
     ELSE "INSUFFICIENT"

Answer ==
  /\ reader.pc = "last"
  /\ Len(reader.samples) = 4
  /\ shown' = [class |-> PredictClass(reader.samples, reader.noise), user |-> reader.user,
               dx |-> reader.dx, band |-> reader.band, at |-> reader.at]
  /\ reader' = Idle
  /\ UNCHANGED <<now, buckets, peak, lastCompact, taken, reads>>

Pass ==
  /\ now < MaxTime
  /\ now' = now + 1
  /\ UNCHANGED <<buckets, peak, lastCompact, reader, shown, taken, reads>>

\* NewStore, NewPredictor
Init ==
  /\ now = 0
  /\ buckets = [k \in {} |-> [sum |-> 0, weight |-> 0, last |-> 0]]
  /\ peak = 0
  /\ lastCompact = -1
  /\ reader = Idle
  /\ shown = [class |-> "none"]
  /\ taken = <<>>
  /\ reads = 0

Next ==
  \/ PathOnlySpot \/ PipelineSpot \/ Tick
  \/ Ask \/ ReadLast \/ ReadWeight \/ ReadSum \/ Answer
  \/ Pass

Spec == Init /\ [][Next]_vars

(***************************************************************************)
(* Statistics of the five-minute log.                                      *)
(***************************************************************************)
\* Store.StatsByBand: active fine and coarse buckets of a band.
StatsByBand(band, coarse) ==
  Cardinality({k \in DOMAIN buckets :
    KeyBand(k) = band /\ isCoarse(k) = coarse /\ ~Stale(buckets[k], now)})

-----------------------------------------------------------------------------
\* The reports of a bucket, by the cells and the band of the report itself.
Reports(key) ==
  {i \in 1 .. Len(taken) :
     LET r == taken[i] IN
       key \in {packKey(FineOf[r.de], FineOf[r.dx], r.band),
                packCoarseKey(CoarseOf[r.de], CoarseOf[r.dx], r.band)}}

Weighed(S) == FoldSet(LAMBDA i, acc : acc + taken[i].weight, 0, S)

\* What the reports of a bucket are worth now, each decayed from its own date.
Evidence(key) ==
  FoldSet(LAMBDA i, acc : acc + Decayed(taken[i].weight, now - taken[i].at), 0, Reports(key))

\* Reports that speak about a path, in either direction.
Speaks(i, user, dx, band) ==
  LET r == taken[i]
      near(a, b) == \/ FineOf[a] = FineOf[b] /\ FineOf[a] # InvalidCell
                    \/ CoarseOf[a] = CoarseOf[b] /\ CoarseOf[a] # InvalidCell
  IN /\ r.band = band
     /\ \/ near(r.dx, dx) /\ near(r.de, user)
        \/ near(r.dx, user) /\ near(r.de, dx)

\* The pairs of cells some report of a band was about.
PairsHeard(band, CellOf) ==
  {<<CellOf[r.de], CellOf[r.dx]>> : r \in {taken[i] : i \in {j \in 1 .. Len(taken) : taken[j].band = band}}}

\* The log counts no bucket under a band or a resolution it is not of.
StatsAreTrue ==
  \A band \in BandIndexes :
    /\ StatsByBand(band, FALSE) <= Cardinality(PairsHeard(band, FineOf))
    /\ StatsByBand(band, TRUE) <= Cardinality(PairsHeard(band, CoarseOf))

\* However late the reports arrive, a bucket never claims more weight than
\* its reports are worth by their own dates, and its mean power lies between
\* theirs; it holds reports of one band and one pair of cells.
StoreIsHonest ==
  \A k \in DOMAIN buckets :
    LET b == buckets[k]
        R == Reports(k)
    IN /\ Decayed(b.weight, now - b.last) <= Evidence(k)
       /\ R # {}
       /\ \A i \in R : taken[i].band = KeyBand(k)
       /\ \E i \in R : b.sum <= taken[i].power * b.weight
       /\ \E i \in R : b.sum >= taken[i].power * b.weight

\* A class other than INSUFFICIENT rests on evidence: reports of this band
\* between these two places, worth the configured minimum when they were
\* made, one of them no older than the stale window at the time of asking.
\* (A blend of a fine and a coarse sample counts the reports of both twice.)
ShownIsGrounded ==
  shown.class \notin {"none", "INSUFFICIENT"} =>
    LET S == {i \in 1 .. Len(taken) : Speaks(i, shown.user, shown.dx, shown.band)}
    IN /\ 2 * Weighed(S) >= MinEffective
       /\ \E i \in S : shown.at - taken[i].at <= StaleAfter

\* The predictor promises no more than its reports (README, "Propagation
\* Glyphs": with not enough data the insufficient glyph is shown).
PredictionsRestOnReports == StoreIsHonest /\ StatsAreTrue /\ ShownIsGrounded
=============================================================================
