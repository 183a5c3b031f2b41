---------------------------- MODULE ModeAssigner ----------------------------
(***************************************************************************)
(* ModeAssigner (spot/mode_infer.go, spot/mode_alloc.go): the mode of a    *)
(* spot that names none.  A mode comes from the spot itself, else from     *)
(* what the same station was last given on the same frequency, else from   *)
(* the digital modes skimmers report or the configuration seeds there,     *)
(* else from the band plan.  The output pipeline is its only caller.       *)
(***************************************************************************)
EXTENDS Integers, Sequences, FiniteSets, SequencesExt

CONSTANTS
  Freqs,               \* kHz
  Calls, Spotters,
  Reported,            \* the modes a spot may name
  Seeds,               \* sequence of [freq, mode]
  Bands,               \* sequence of [lower, cwEnd, upper, voice], the allocation table
  DXFreqCacheTTL, DXFreqCacheSize,
  DigitalWindow, DigitalMinCorroborate, DigitalSeedTTL, DigitalCacheSize,
  MaxSpottersPerMode,
  MaxTime, MaxSpots    \* bounds

VARIABLES
  clock, spots,
  dxCache,     \* sequence of [call, freq, mode, lastSeen], most recently used first
  digital,     \* sequence of [freq, modes], most recently used first
  verdict,     \* the last spot's [how, call, freq, mode]
  heard,       \* history: freq -> mode -> spotter -> the last explicit skimmer report
  given        \* history: call -> freq -> the mode last given

vars == <<clock, spots, dxCache, digital, verdict, heard, given>>

Never == -1
SeedModes == {"FT4", "FT8", "JS8"}
NoEvidence == [spotters |-> [s \in Spotters |-> Never], seedUntil |-> Never, lastExplicit |-> Never]
Unknown == [m \in SeedModes |-> NoEvidence]
-----------------------------------------------------------------------------
NormalizeVoiceMode(mode, freq) ==
  IF mode = "SSB" THEN (IF freq >= 10000 THEN "USB" ELSE "LSB") ELSE mode

\* The first band that holds the frequency and has an answer; a band without a
\* voice mode has none above its CW segment.
GuessModeFromAlloc(freq) ==
  LET cw(b) == b.cwEnd > 0 /\ freq <= b.cwEnd
      answers(b) == freq >= b.lower /\ freq <= b.upper /\ (cw(b) \/ b.voice # "")
      i == SelectInSeq(Bands, answers)
  IN  IF i = 0 THEN "" ELSE IF cw(Bands[i]) THEN "CW" ELSE Bands[i].voice

FinalizeMode(mode, freq) ==
  LET explicit == NormalizeVoiceMode(mode, freq)
      alloc == GuessModeFromAlloc(freq)
  IN  IF explicit # "" THEN explicit
      ELSE IF alloc # "" THEN NormalizeVoiceMode(alloc, freq)
      ELSE IF freq >= 10000 THEN "USB" ELSE "CW"

\* Only digital modes reported by a skimmer feed count as evidence.
shouldObserveDigital(skimmer, mode) == mode \in SeedModes /\ skimmer
-----------------------------------------------------------------------------
\* dxFreqCache.Set: to the front, the least recently used one leaves
CacheSet(cache, call, freq, mode) ==
  LET rest == SelectSeq(cache, LAMBDA e : ~(e.call = call /\ e.freq = freq))
      new == <<[call |-> call, freq |-> freq, mode |-> mode, lastSeen |-> clock]>> \o rest
  IN  IF Len(new) > DXFreqCacheSize THEN Front(new) ELSE new

\* dxFreqCache.Get: an entry past its TTL is removed
CacheHit(cache, call, freq) ==
  {e \in ToSet(cache) : e.call = call /\ e.freq = freq /\ clock - e.lastSeen <= DXFreqCacheTTL}

CacheWithoutExpired(cache, call, freq) ==
  SelectSeq(cache, LAMBDA e : ~(e.call = call /\ e.freq = freq /\ clock - e.lastSeen > DXFreqCacheTTL))
-----------------------------------------------------------------------------
FreqEntry(map, freq) ==
  LET i == SelectInSeq(map, LAMBDA e : e.freq = freq)
  IN  IF i = 0 THEN Unknown ELSE map[i].modes

\* getOrCreate, touch and evictIfNeeded
Touched(map, freq, modes) ==
  LET new == <<[freq |-> freq, modes |-> modes]>> \o SelectSeq(map, LAMBDA e : e.freq # freq)
  IN  SubSeq(new, 1, IF Len(new) > DigitalCacheSize THEN DigitalCacheSize ELSE Len(new))

pruneSpotters(ev, now) ==
  [ev EXCEPT !.spotters = [s \in Spotters |-> IF @[s] < now - DigitalWindow THEN Never ELSE @[s]]]

Corroborators(ev) == {s \in Spotters : ev.spotters[s] # Never}

\* The evidence of one mode after a report; at the cap one of the oldest leaves first.
Observed(ev, spotter) ==
  LET pruned == pruneSpotters(ev, clock)
      full == Cardinality(Corroborators(pruned)) >= MaxSpottersPerMode
      oldest == {s \in Corroborators(pruned) :
                   \A t \in Corroborators(pruned) : pruned.spotters[s] <= pruned.spotters[t]}
      room == IF full THEN {[pruned EXCEPT !.spotters[s] = Never] : s \in oldest} ELSE {pruned}
  IN  {[e EXCEPT !.spotters[spotter] = clock, !.lastExplicit = clock,
                 !.seedUntil = IF @ # Never THEN clock + DigitalSeedTTL ELSE @] : e \in room}

Seeded(map, seed) ==
  Touched(map, seed.freq,
          [FreqEntry(map, seed.freq) EXCEPT ![seed.mode].seedUntil = DigitalSeedTTL])

\* What Infer leaves of every mode's evidence: old reports and a seed that ran out go.
Current(modes) ==
  [m \in SeedModes |->
     LET ev == pruneSpotters(modes[m], clock)
     IN  IF ev.seedUntil # Never /\ clock > ev.seedUntil THEN [ev EXCEPT !.seedUntil = Never] ELSE ev]

\* Infer's answers for some order of the modes: the best corroborated one, the
\* later of two equals; else a seed.  The second live seed met cancels the first.
InferChoices(modes) ==
  LET count(m) == Cardinality(Corroborators(modes[m]))
      strong == {m \in SeedModes : count(m) >= DigitalMinCorroborate}
      beats(m, n) == \/ count(m) > count(n)
                     \/ count(m) = count(n) /\ modes[m].lastExplicit >= modes[n].lastExplicit
      best == {m \in strong : \A n \in strong : beats(m, n)}
      live == {m \in SeedModes \ strong : modes[m].seedUntil > clock}
  IN  IF best # {} THEN best
      ELSE IF Cardinality(live) % 2 = 1 THEN live ELSE {""}

\* pruneEntryIfEmpty: an entry without reports and without seeds is forgotten
WithoutEmpty(map, freq, modes) ==
  IF \A m \in SeedModes : Corroborators(modes[m]) = {} /\ modes[m].seedUntil = Never
  THEN SelectSeq(map, LAMBDA e : e.freq # freq)
  ELSE [i \in DOMAIN map |-> IF map[i].freq = freq THEN [map[i] EXCEPT !.modes = modes] ELSE map[i]]
-----------------------------------------------------------------------------
Init ==
  /\ clock = 0 /\ spots = 0
  /\ dxCache = <<>>
  /\ digital = FoldLeft(Seeded, <<>>, Seeds)
  /\ verdict = [how |-> "none", call |-> "", freq |-> 0, mode |-> ""]
  /\ heard = [f \in Freqs |-> [m \in SeedModes |-> [s \in Spotters |-> Never]]]
  /\ given = [c \in Calls |-> [f \in Freqs |-> ""]]

Tick == clock < MaxTime /\ clock' = clock + 1
        /\ UNCHANGED <<spots, dxCache, digital, verdict, heard, given>>

\* What every answer does: the spot's mode is set and remembered for its station.
Answer(how, call, freq, mode, cache) ==
  /\ spots < MaxSpots /\ spots' = spots + 1
  /\ verdict' = [how |-> how, call |-> call, freq |-> freq, mode |-> mode]
  /\ given' = [given EXCEPT ![call][freq] = mode]
  /\ dxCache' = CacheSet(cache, call, freq, mode)
  /\ UNCHANGED clock

\* Assign for a spot that names its mode
AssignExplicit(call, freq, reported, spotter, skimmer) ==
  LET mode == NormalizeVoiceMode(reported, freq)
      modes == FreqEntry(digital, freq)
  IN  /\ Answer("explicit", call, freq, mode, dxCache)
      /\ IF shouldObserveDigital(skimmer, mode)
         THEN /\ \E ev \in Observed(modes[mode], spotter) :
                   digital' = Touched(digital, freq, [modes EXCEPT ![mode] = ev])
              /\ heard' = [heard EXCEPT ![freq][mode][spotter] = clock]
         ELSE UNCHANGED <<digital, heard>>

\* Mutant: a mode taken from the digital map is fed back into it.
MutAssignInferred(call, freq) ==
  LET modes == Current(FreqEntry(digital, freq))
      cache == CacheWithoutExpired(dxCache, call, freq)
  IN  /\ UNCHANGED heard
      /\ \/ \E e \in CacheHit(dxCache, call, freq) :
              Answer("cache", call, freq, e.mode, dxCache) /\ UNCHANGED digital
         \/ /\ CacheHit(dxCache, call, freq) = {}
            /\ \E mode \in InferChoices(modes) :
                 IF mode # ""
                 THEN /\ Answer("digital", call, freq, mode, cache)
                      /\ \E s \in Spotters : \E ev \in Observed(modes[mode], s) :
                           digital' = Touched(digital, freq, [modes EXCEPT ![mode] = ev])
                 ELSE /\ Answer("fallback", call, freq, FinalizeMode("", freq), cache)
                      /\ digital' = WithoutEmpty(digital, freq, modes)

\* Assign for a spot without a mode
AssignInferred(call, freq) ==
  LET modes == Current(FreqEntry(digital, freq))
      cache == CacheWithoutExpired(dxCache, call, freq)
  IN  /\ UNCHANGED heard
      /\ \/ \E e \in CacheHit(dxCache, call, freq) :
              Answer("cache", call, freq, e.mode, dxCache) /\ UNCHANGED digital
         \/ /\ CacheHit(dxCache, call, freq) = {}
            /\ \E mode \in InferChoices(modes) :
                 IF mode # ""
                 THEN /\ Answer("digital", call, freq, mode, cache)
                      /\ digital' = Touched(digital, freq, modes)
                 ELSE /\ Answer("fallback", call, freq, FinalizeMode("", freq), cache)
                      /\ digital' = WithoutEmpty(digital, freq, modes)

Next ==
  \/ Tick
  \/ \E c \in Calls, f \in Freqs :
       \/ AssignInferred(c, f)
       \/ \E m \in Reported, s \in Spotters, skimmer \in BOOLEAN : AssignExplicit(c, f, m, s, skimmer)

Spec == Init /\ [][Next]_vars
-----------------------------------------------------------------------------
SeedOf(freq, mode) == \E i \in DOMAIN Seeds : Seeds[i].freq = freq /\ Seeds[i].mode = mode

\* No mode is made up: one taken from the digital map rests on explicit reports of
\* enough different skimmers within the window, or on a configured seed that the start
\* or an explicit report renewed within its TTL; one taken from the cache is the mode
\* that station was last given there (Assign, Observe, Infer).
GroundedInference ==
  [][verdict' # verdict \/ spots' # spots =>
       LET v == verdict'
           reports == heard[v.freq][v.mode]
           recent(age) == {s \in Spotters : reports[s] # Never /\ clock - reports[s] <= age}
       IN  /\ v.how = "digital" =>
                \/ Cardinality(recent(DigitalWindow)) >= DigitalMinCorroborate
                \/ SeedOf(v.freq, v.mode) /\ (clock <= DigitalSeedTTL \/ recent(DigitalSeedTTL) # {})
           /\ v.how = "cache" => v.mode = given[v.call][v.freq]]_vars
=============================================================================
