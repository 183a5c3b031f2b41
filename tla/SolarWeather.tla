--------------------------- MODULE SolarWeather ---------------------------
(***************************************************************************)
(* Solar weather overrides (solarweather/).  A poller fetches two feeds,   *)
(* the X-ray flux (one sample a minute, a window of them in each file) and *)
(* the Kp index, and keeps how long each radio blackout level stays        *)
(* active.  Telnet senders ask whether the glyph of a path is replaced by  *)
(* R or G; a cache remembers per path whether it was sunlit and at high    *)
(* latitude, for the hysteresis of these two gates.                        *)
(*                                                                         *)
(* Fluxes and Kp values are small numbers compared with the levels'        *)
(* minima.  The geometry is left out: a path's sunlit fraction is "low",   *)
(* "mid" (between the exit and the enter limit) or "high", or the path is  *)
(* along the terminator ("near") or the fraction "unknown"; its latitude   *)
(* is "low", "mid" or "high" likewise.                                     *)
(***************************************************************************)
EXTENDS Integers, Sequences, FiniteSets, SequencesExt

CONSTANTS
  Senders,
  Paths,         \* keys of paths (makePathKey)
  Bands,
  DayClasses,    \* of "low", "mid", "high", "near", "unknown"
  LatClasses,    \* of "low", "mid", "high"
  Fluxes, Kps,   \* values of the feeds
  RMin, RHold, RBands, \* rLevels: minimum flux, hold, bands, by index
  GMin, GBands,  \* gLevels: minimum Kp, bands
  GoesMaxAge, KpMaxAge,
  GateMax, GateTTL, \* of the gate cache
  FeedWindow,    \* samples in a file of the X-ray feed
  MaxTime, MaxAsks \* bounds of the model

VARIABLES
  now,
  feed,      \* the X-ray feed: samples [time, flux], oldest first
  kpFeed,    \* the newest row of the Kp feed
  goesTag,   \* what the fetchers' ETags stand for: the last file they read
  kpTag,
  goes,      \* State.GOESFlux, GOESTime, GOESUpdatedAt, RSeeded
  rUntil,    \* State.RActiveUntil
  kp,        \* State.Kp, KpTime
  cache,     \* GateCache: entries, most recently used first
  sender,    \* senders inside OverrideGlyph
  given,     \* the last override given
  lit, polar, \* history: paths found well sunlit, or at high latitude
  asks       \* bound on requests

vars == <<now, feed, kpFeed, goesTag, kpTag, goes, rUntil, kp, cache, sender,
          given, lit, polar, asks>>

feeds == <<feed, kpFeed>>
poller == <<goesTag, kpTag, goes, rUntil, kp>>
telnet == <<cache, sender, given, lit, polar, asks>>

Never == -1

RLevels == DOMAIN RMin
GLevels == DOMAIN GMin

Highest(S) == IF S = {} THEN 0 ELSE CHOOSE i \in S : \A j \in S : j <= i

\* rLevelIndex; 0 for none.
rLevelIndex(flux) == Highest({i \in RLevels : flux >= RMin[i]})

\* activeGLevelIndex
activeGLevelIndex(value) == Highest({i \in GLevels : value >= GMin[i]})

\* activeRLevelIndex
activeRLevelIndex(at, until) ==
  Highest({i \in RLevels : until[i] # Never /\ at <= until[i]})

rMaxHold == RHold[Highest({i \in RLevels : \A j \in RLevels : RHold[j] <= RHold[i]})]

(***************************************************************************)
(* The feeds, external.                                                    *)
(***************************************************************************)
\* A minute passes; the observatories may publish.
Pass ==
  /\ now < MaxTime
  /\ now' = now + 1
  /\ \/ \E f \in Fluxes :
          LET all == Append(feed, [time |-> now', flux |-> f])
          IN feed' = SubSeq(all, IF Len(all) > FeedWindow THEN Len(all) - FeedWindow + 1 ELSE 1,
                            Len(all))
     \/ UNCHANGED feed
  /\ \/ \E k \in Kps : kpFeed' = [time |-> now', value |-> k]
     \/ UNCHANGED kpFeed
  /\ UNCHANGED <<poller, telnet>>

(***************************************************************************)
(* The poller.                                                             *)
(***************************************************************************)
\* Manager.seedRLevelsLocked: the largest of the recent samples, the later
\* of equals.
seedRLevels(at, samples) ==
  LET recent == {i \in 1 .. Len(samples) : samples[i].time >= at - rMaxHold}
      peak == CHOOSE i \in recent : \A j \in recent :
                \/ samples[i].flux > samples[j].flux
                \/ samples[i].flux = samples[j].flux /\ i >= j
      none == [i \in RLevels |-> Never]
  IN IF recent = {} \/ rLevelIndex(samples[peak].flux) = 0 THEN none
     ELSE [none EXCEPT ![rLevelIndex(samples[peak].flux)] =
             samples[peak].time + RHold[rLevelIndex(samples[peak].flux)]]

\* The hold counts from when the sample was fetched.
MutApplyRSample(until, s) ==
  [i \in RLevels |-> IF i = rLevelIndex(s.flux) THEN now + RHold[i] ELSE until[i]]

\* Manager.applyRSampleLocked
applyRSample(until, s) ==
  [i \in RLevels |->
     IF i = rLevelIndex(s.flux) /\ s.time + RHold[i] > until[i]
     THEN s.time + RHold[i] ELSE until[i]]

\* Manager.updateGOES: whether the levels are set up from the whole file.
SeedDue == ~goes.seeded \/ (goes.updatedAt # Never /\ now - goes.updatedAt > rMaxHold)

updateGOES(samples) ==
  LET latest == Last(samples)
      base == IF SeedDue THEN seedRLevels(now, samples) ELSE rUntil
  IN /\ goes' = [time |-> latest.time, updatedAt |-> now, seeded |-> TRUE]
     /\ rUntil' = applyRSample(base, latest)

\* conditionalFetcher.Fetch fails, finds nothing new, or brings a file, and
\* with it the ETag; a file that cannot be parsed changes nothing else.
FetchGOES ==
  \/ UNCHANGED <<goesTag, goes, rUntil>>
  \/ /\ feed # <<>> /\ feed # goesTag
     /\ goesTag' = feed
     /\ \/ updateGOES(feed)
        \/ UNCHANGED <<goes, rUntil>>

FetchKp ==
  \/ UNCHANGED <<kpTag, kp>>
  \/ /\ kpFeed # kpTag
     /\ kpTag' = kpFeed
     /\ \/ kp' = kpFeed
        \/ UNCHANGED kp

\* Manager.poll
poll ==
  /\ FetchGOES
  /\ FetchKp
  /\ UNCHANGED <<now, feeds, telnet>>

(***************************************************************************)
(* A sender in OverrideGlyph.                                              *)
(***************************************************************************)
\* Manager.Snapshot, under the read lock.
Snapshot ==
  LET goesStale == goes.time = Never \/ now - goes.time > GoesMaxAge
      kpStale == kp.time = Never \/ now - kp.time > KpMaxAge
  IN [r |-> IF goesStale THEN 0 ELSE activeRLevelIndex(now, rUntil),
      g |-> IF kpStale THEN 0 ELSE activeGLevelIndex(kp.value)]

IndexOf(key) == {i \in 1 .. Len(cache) : cache[i].key = key}

ToFront(c, e) == <<e>> \o SelectSeq(c, LAMBDA x : x.key # e.key)

\* GateCache.Get: the remembered gates, and the cache after it.
GetGate(key) ==
  IF IndexOf(key) = {} THEN [day |-> FALSE, lat |-> FALSE, cache |-> cache]
  ELSE LET e == cache[CHOOSE i \in IndexOf(key) : TRUE]
       IN IF GateTTL > 0 /\ now - e.seen > GateTTL
          THEN [day |-> FALSE, lat |-> FALSE,
                cache |-> SelectSeq(cache, LAMBDA x : x.key # key)]
          ELSE [day |-> e.day, lat |-> e.lat,
                cache |-> ToFront(cache, [e EXCEPT !.seen = now])]

\* GateCache.Put, evicting the least recently used.
PutGate(key, day, lat, at) ==
  LET c == ToFront(cache, [key |-> key, day |-> day, lat |-> lat, seen |-> at])
  IN SubSeq(c, 1, IF Len(c) > GateMax THEN GateMax ELSE Len(c))

\* applyDaylightHysteresis
applyDaylightHysteresis(prev, day) ==
  CASE day = "unknown" -> FALSE
    [] day = "near" -> prev
    [] OTHER -> day = "high" \/ (prev /\ day = "mid")

\* applyHighLatHysteresis
applyHighLatHysteresis(prev, lat) == lat = "high" \/ (prev /\ lat = "mid")

\* selectOverride: R first, then G; none on a path of unknown daylight.
selectOverride(band, day, lat, unknown, snap) ==
  IF unknown THEN "none"
  ELSE IF snap.r > 0 /\ day /\ band \in RBands[snap.r] THEN "R"
  ELSE IF snap.g > 0 /\ lat /\ band \in GBands[snap.g] THEN "G"
  ELSE "none"

\* OverrideGlyph up to the look-up in the cache: nothing more is done while
\* no level is active.
Ask(s) ==
  \E path \in Paths, band \in Bands :
    /\ sender[s].pc = "idle"
    /\ asks < MaxAsks
    /\ asks' = asks + 1
    /\ IF Snapshot.r = 0 /\ Snapshot.g = 0
       THEN /\ given' = [kind |-> "none"]
            /\ UNCHANGED <<sender, cache>>
       ELSE LET got == GetGate(path) IN
            /\ cache' = got.cache
            /\ sender' = [sender EXCEPT ![s] =
                 [pc |-> "gate", path |-> path, band |-> band, at |-> now, snap |-> Snapshot,
                  day |-> got.day, lat |-> got.lat]]
            /\ UNCHANGED given
    /\ UNCHANGED <<now, feeds, poller, lit, polar>>

\* EvaluateGates after the look-up: another sender may have stored the gates
\* of the same path in between.
Decide(s) ==
  \E d \in DayClasses, l \in LatClasses :
    LET me == sender[s]
        day == applyDaylightHysteresis(me.day, d)
        lat == applyHighLatHysteresis(me.lat, l)
    IN /\ me.pc = "gate"
       /\ cache' = PutGate(me.path, day, lat, me.at)
       /\ given' = LET kind == selectOverride(me.band, day, lat, d = "unknown", me.snap)
                   IN IF kind = "none" THEN [kind |-> kind]
                      ELSE [kind |-> kind, path |-> me.path, band |-> me.band, snap |-> me.snap,
                            day |-> d, lat |-> l]
       /\ lit' = IF d = "high" THEN lit \union {me.path} ELSE lit
       /\ polar' = IF l = "high" THEN polar \union {me.path} ELSE polar
       /\ sender' = [sender EXCEPT ![s] = [pc |-> "idle"]]
       /\ UNCHANGED <<now, feeds, poller, asks>>

\* NewManager, NewGateCache
Init ==
  /\ now = 0
  /\ feed = <<>>
  /\ kpFeed = [time |-> Never, value |-> 0]
  /\ goesTag = <<>>
  /\ kpTag = [time |-> Never, value |-> 0]
  /\ goes = [time |-> Never, updatedAt |-> Never, seeded |-> FALSE]
  /\ rUntil = [i \in RLevels |-> Never]
  /\ kp = [time |-> Never, value |-> 0]
  /\ cache = <<>>
  /\ sender = [s \in Senders |-> [pc |-> "idle"]]
  /\ given = [kind |-> "none"]
  /\ lit = {}
  /\ polar = {}
  /\ asks = 0

Next == Pass \/ poll \/ \E s \in Senders : Ask(s) \/ Decide(s)

Spec == Init /\ [][Next]_vars

-----------------------------------------------------------------------------
\* An R is given only for a band of a level that a sample of the feed
\* reached no longer ago than the level's hold, and on a path that is not
\* dark and was well sunlit when it entered; a G only for a band of a level
\* the last Kp read reaches, on a path of high latitude.
OverrideIsJustified ==
  /\ given.kind = "R" =>
       /\ given.band \in RBands[given.snap.r]
       /\ given.day \in {"high", "mid", "near"}
       /\ given.path \in lit
  /\ given.kind = "G" =>
       /\ given.band \in GBands[given.snap.g]
       /\ given.day # "unknown"
       /\ given.lat # "low"
       /\ given.path \in polar

\* A level stays active until its hold after a sample read has passed, and
\* no longer.
HoldIsExact ==
  \A i \in RLevels :
    /\ rUntil'[i] # rUntil[i] /\ rUntil'[i] # Never =>
         \E s \in ToSet(goesTag') : rLevelIndex(s.flux) = i /\ rUntil'[i] = s.time + RHold[i]
    /\ rUntil'[i] < rUntil[i] => rUntil[i] < now

\* README, "Solar Weather Overrides": an override appears only while the
\* event is active and the path is relevant.
OverridesAreRelevant == []OverrideIsJustified /\ [][HoldIsExact]_vars
=============================================================================
