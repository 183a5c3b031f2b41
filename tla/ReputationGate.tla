--------------------------- MODULE ReputationGate ---------------------------
(***************************************************************************)
(* The reputation gate (reputation/gate.go, prefix.go, store.go): what a   *)
(* login leaves behind for a call, and which of its DX commands pass.  The *)
(* history of a call is on disk; the limits are in memory.                 *)
(***************************************************************************)
EXTENDS Integers, Sequences, FiniteSets, SequencesExt, FiniteSetsExt

CONSTANTS
  Calls, Bands, Networks,
  Results,          \* what a lookup of an address yields: [known, asn, country]; "" is unknown
  CtyCountry,       \* call -> country, "" when there is none
  InitialWait, RampWindow, PerBandStart, PerBandCap, TotalCapStart, TotalCapPostRamp, TotalCapRampDelay,
  MismatchWait, UnknownPenalty,
  MaxHistory, StateTTL, MaxEntries,
  BucketSize, RefillPerSec, PrefixTTL, MaxNetworks,
  MaxTime, MaxLogins, MaxCrashes

VARIABLES
  now,
  record,           \* call -> its file: none, torn, or the networks and the countries, newest first
  state,            \* call -> the limits in force; only calls seen lately
  bucket,           \* prefix -> [tokens, lastRefill, lastSeen]
  accepted,         \* history: call -> band -> DX commands accepted since its limits were reset
  granted,          \* history: prefix -> [since, count]: tokens taken since its bucket was made
  logins, crashes

vars == <<now, record, state, bucket, accepted, granted, logins, crashes>>

None == -1
NoRecord == <<>>
Torn == <<"torn">>
Zero == [b \in Bands |-> 0]
smaller(a, b) == IF a < b THEN a ELSE b
larger(a, b) == IF a > b THEN a ELSE b

\* NewGate, for the configuration normalizeGateConfig leaves
Init ==
  /\ now = 0 /\ logins = 0 /\ crashes = 0
  /\ record = [c \in Calls |-> NoRecord] /\ state = <<>> /\ bucket = <<>>
  /\ accepted = [c \in Calls |-> Zero] /\ granted = <<>>

Tick == now < MaxTime /\ now' = now + 1
        /\ UNCHANGED <<record, state, bucket, accepted, granted, logins, crashes>>
-----------------------------------------------------------------------------
\* Limits as after a login: a wait, then the first window
resetState(wait, extra) ==
  LET start == now + wait
      ramped == PerBandCap <= PerBandStart
  IN  [windowStart |-> start, nextAllowedAt |-> start, nextRampAt |-> start + RampWindow + extra,
       perBandLimit |-> smaller(PerBandStart, PerBandCap), totalCap |-> TotalCapStart,
       totalCapUpgradeAt |-> IF ramped /\ TotalCapPostRamp > TotalCapStart THEN start + TotalCapRampDelay ELSE None,
       perBandCounts |-> Zero, totalCount |-> 0, lastSeen |-> now]

\* A new window clears the counts; it starts at a multiple of the window's length.
NewWindow(s) ==
  LET steps == (now - s.windowStart) \div RampWindow
  IN  IF now - s.windowStart < RampWindow THEN s
      ELSE [s EXCEPT !.windowStart = @ + steps * RampWindow, !.perBandCounts = Zero, !.totalCount = 0]

\* Mutant: the time of the next step up is not moved on.
MutRamp(s) ==
  IF PerBandCap > s.perBandLimit /\ now >= s.nextRampAt
  THEN [s EXCEPT !.perBandLimit = smaller(PerBandCap, @ + (now - s.nextRampAt) \div RampWindow + 1)] ELSE s

\* One step up for each window since the ramp began
Ramp(s) ==
  LET steps == smaller((now - s.nextRampAt) \div RampWindow + 1, PerBandCap - s.perBandLimit)
      up == [s EXCEPT !.perBandLimit = @ + steps, !.nextRampAt = @ + steps * RampWindow]
  IN  IF PerBandCap > s.perBandLimit /\ now >= s.nextRampAt
      THEN IF up.perBandLimit >= PerBandCap /\ s.totalCapUpgradeAt = None
           THEN [up EXCEPT !.totalCapUpgradeAt = now + TotalCapRampDelay] ELSE up
      ELSE s

Upgrade(s) ==
  IF s.totalCapUpgradeAt # None /\ now >= s.totalCapUpgradeAt
  THEN [s EXCEPT !.totalCap = TotalCapPostRamp, !.totalCapUpgradeAt = None] ELSE s

advanceState(s) == Upgrade(Ramp(NewWindow(s)))
-----------------------------------------------------------------------------
trimHistory(seq) == SubSeq(seq, 1, smaller(Len(seq), MaxHistory))

\* The loop looks at the limit after it has added one of the others.
prependUnique(x, seq) ==
  LET all == <<x>> \o SelectSeq(seq, LAMBDA y : y # x)
  IN  IF x = "" THEN seq ELSE SubSeq(all, 1, smaller(Len(all), larger(2, MaxHistory)))

Readable(c) == record[c] \notin {NoRecord, Torn}
Load(c) == IF Readable(c) THEN <<trimHistory(record[c][1]), trimHistory(record[c][2])>> ELSE <<<<>>, <<>>>>

\* A file that cannot be read is not replaced; saving may fail.
Touch(c, r) ==
  \/ UNCHANGED record
  \/ /\ record[c] # Torn
     /\ record' = [record EXCEPT ![c] = <<prependUnique(r.asn, Load(c)[1]), prependUnique(r.country, Load(c)[2])>>]

\* A network not in the history, or a country other than the last one
evaluateHistory(c, r) ==
  LET asns == Load(c)[1]
      countries == Load(c)[2]
      asnNew == r.asn # "" /\ \A i \in DOMAIN asns : asns[i] # r.asn
      geoFlip == r.country # "" /\ countries # <<>> /\ Head(countries) # r.country
  IN  Readable(c) /\ (asnNew \/ geoFlip)

\* A call without a readable record is new, and one that moved; it waits.  An address not
\* known, or of another country than the call, delays the ramp.  The penalty for sources that
\* disagree cannot arise: lookupIP asks the second only when the first has no answer.
RecordLogin(c, r) ==
  /\ logins < MaxLogins /\ logins' = logins + 1
  /\ LET newUser == ~Readable(c) \/ evaluateHistory(c, r)
         mismatch == CtyCountry[c] # "" /\ r.country # "" /\ CtyCountry[c] # r.country
         extra == larger(IF r.known THEN 0 ELSE UnknownPenalty, IF mismatch THEN MismatchWait ELSE 0)
     IN  state' = (c :> resetState(IF newUser THEN InitialWait ELSE 0, extra)) @@ state
  /\ Touch(c, r)
  /\ accepted' = [accepted EXCEPT ![c] = Zero]
  /\ UNCHANGED <<now, bucket, granted, crashes>>
-----------------------------------------------------------------------------
\* refill: whole seconds only
Refilled(b) ==
  LET add == (now - b.lastRefill) * RefillPerSec
  IN  [b EXCEPT !.tokens = smaller(BucketSize, @ + add), !.lastRefill = now]

\* A prefix without a bucket, or not seen for long, gets a full one.
NewBucket(p) == p \notin DOMAIN bucket \/ now - bucket[p].lastSeen > PrefixTTL
Bucket(p) ==
  LET b == IF NewBucket(p) THEN [tokens |-> BucketSize, lastRefill |-> now, lastSeen |-> now] ELSE bucket[p]
  IN  [Refilled(b) EXCEPT !.lastSeen = now]

\* A DX command: first the prefix, then the wait, the total and the band.
Check(c, p, band) ==
  LET b == Bucket(p)
      fresh == c \notin DOMAIN state
      s == advanceState([IF fresh THEN resetState(InitialWait, 0) ELSE state[c] EXCEPT !.lastSeen = now])
      verdict == IF b.tokens <= 0 THEN "prefix"
                 ELSE IF now < s.nextAllowedAt THEN "probation"
                 ELSE IF s.totalCap > 0 /\ s.totalCount >= s.totalCap THEN "total"
                 ELSE IF s.perBandLimit > 0 /\ s.perBandCounts[band] >= s.perBandLimit THEN "band"
                 ELSE "allow"
      g == IF NewBucket(p) THEN [since |-> now, count |-> 0] ELSE granted[p]
      before == IF fresh THEN Zero ELSE accepted[c]
  IN  /\ bucket' = (p :> [b EXCEPT !.tokens = larger(0, @ - 1)]) @@ bucket
      /\ granted' = (p :> IF verdict = "prefix" THEN g ELSE [g EXCEPT !.count = @ + 1]) @@ granted
      /\ state' = IF verdict = "prefix" THEN state
                  ELSE (c :> IF verdict # "allow" THEN s
                             ELSE [s EXCEPT !.totalCount = @ + 1, !.perBandCounts[band] = @ + 1]) @@ state
      /\ accepted' = IF verdict = "prefix" THEN accepted
                     ELSE [accepted EXCEPT ![c] = IF verdict = "allow" THEN [before EXCEPT ![band] = @ + 1] ELSE before]
      /\ UNCHANGED <<now, record, logins, crashes>>

\* The sweeper drops what was not seen for long, and any others above the limit.
sweeper ==
  LET live == {c \in DOMAIN state : now - state[c].lastSeen <= StateTTL}
      seen == {p \in DOMAIN bucket : now - bucket[p].lastSeen <= PrefixTTL}
  IN  /\ \E kept \in SUBSET live, nets \in SUBSET seen :
           /\ Cardinality(kept) = smaller(Cardinality(live), MaxEntries)
           /\ Cardinality(nets) = smaller(Cardinality(seen), MaxNetworks)
           /\ kept # DOMAIN state \/ nets # DOMAIN bucket
           /\ state' = [c \in kept |-> state[c]]
           /\ accepted' = [c \in Calls |-> IF c \in kept THEN accepted[c] ELSE Zero]
           /\ bucket' = [p \in nets |-> bucket[p]] /\ granted' = [p \in nets |-> granted[p]]
      /\ UNCHANGED <<now, record, logins, crashes>>

\* A crash loses the limits; it may come between the truncation of a record and its writing.
Crash ==
  /\ crashes < MaxCrashes /\ crashes' = crashes + 1
  /\ \/ UNCHANGED record
     \/ \E c \in Calls : record' = [record EXCEPT ![c] = Torn]
  /\ state' = <<>> /\ bucket' = <<>> /\ granted' = <<>> /\ accepted' = [c \in Calls |-> Zero]
  /\ UNCHANGED <<now, logins>>

Next ==
  \/ Tick \/ sweeper \/ Crash
  \/ \E c \in Calls : \/ \E r \in Results : RecordLogin(c, r)
                      \/ \E p \in Networks, b \in Bands : Check(c, p, b)

Spec == Init /\ [][Next]_vars
-----------------------------------------------------------------------------
\* However logins, commands, sweeps and quiet times interleave, a call never gets more
\* through than the ramp allows: nothing before its wait is over, then on a band at most the
\* sum of the limits of the windows since, one higher each, and in all the sum of the caps;
\* and a prefix never takes more tokens than its bucket held and was given (Check,
\* advanceState, prefixLimiter.allow).
RampHonoured ==
  /\ \A c \in DOMAIN state :
       LET s == state[c]
           windows == 0..((now - s.nextAllowedAt) \div RampWindow)
           all == MapThenSumSet(LAMBDA b : accepted[c][b], Bands)
       IN  IF now < s.nextAllowedAt THEN all = 0
           ELSE /\ \A b \in Bands : accepted[c][b] <= MapThenSumSet(LAMBDA k : smaller(PerBandStart + k, PerBandCap), windows)
                /\ all <= TotalCapPostRamp * Cardinality(windows)
  /\ \A p \in DOMAIN granted : granted[p].count <= BucketSize + RefillPerSec * (now - granted[p].since)
=============================================================================
