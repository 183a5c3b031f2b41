---------------------------- MODULE CallDistance ----------------------------
(***************************************************************************)
(* How far apart two callsigns are (spot/correction.go): the edit distance *)
(* by which call correction decides whether one call may be a busted copy  *)
(* of another.  For CW and RTTY a replaced character may be weighed by how *)
(* alike the two sound in Morse or Baudot code.                            *)
(*                                                                         *)
(* A callsign is a sequence of characters and a code a sequence of signs.  *)
(* The steps write the two callsigns, character by character.              *)
(***************************************************************************)
EXTENDS Integers, Sequences, FiniteSets, FiniteSetsExt

CONSTANTS
  Chars,
  MorseCodes, BaudotCodes,  \* functions from characters, possibly not all of them, to codes
  Settings,                 \* [mode, model, weights]: a mode, the model and weights configured for it
  MaxSubject, MaxCandidate  \* bounds

VARIABLES
  subject, candidate,
  cfg,
  costTable          \* what replacing one character by another costs, built at startup

vars == <<subject, candidate, cfg, costTable>>

\* Non-positive weights fall back to the defaults
ConfigureWeights(w) ==
  [ins |-> IF w.ins > 0 THEN w.ins ELSE 1, del |-> IF w.del > 0 THEN w.del ELSE 1,
   sub |-> IF w.sub > 0 THEN w.sub ELSE 2, scale |-> IF w.scale > 0 THEN w.scale ELSE 2]

min3(a, b, c) == Min({a, b, c})

\* Mutant: a replacement continues from the row above, not from the diagonal.
MutEditCost(a, b, ins, del, cost) ==
  LET D[i \in 0 .. Len(a), j \in 0 .. Len(b)] ==
        IF i = 0 THEN j * ins
        ELSE IF j = 0 THEN i * del
        ELSE min3(D[i, j - 1] + ins, D[i - 1, j] + del, D[i - 1, j] + cost[a[i], b[j]])
  IN  D[Len(a), Len(b)]

\* The two-row dynamic program, by its recurrence
EditCost(a, b, ins, del, cost) ==
  LET D[i \in 0 .. Len(a), j \in 0 .. Len(b)] ==
        IF i = 0 THEN j * ins
        ELSE IF j = 0 THEN i * del
        ELSE min3(D[i, j - 1] + ins, D[i - 1, j] + del, D[i - 1, j - 1] + cost[a[i], b[j]])
  IN  D[Len(a), Len(b)]

Signs == UNION {Range(code) : code \in Range(MorseCodes) \cup Range(BaudotCodes)}

\* morsePatternCost and baudotPatternCost: per sign of the longer code and scaled
PatternCost(a, b, w) ==
  LET raw == EditCost(a, b, w.ins, w.del, [p \in Signs \X Signs |-> IF p[1] = p[2] THEN 0 ELSE w.sub])
      longer == Max({Len(a), Len(b)})
      scaled == (raw * w.scale + longer) \div (longer + 1)
  IN  IF a = b THEN 0 ELSE IF scaled < 1 /\ raw > 0 THEN 1 ELSE scaled

\* buildRuneCostTable, and morseCharDist and baudotCharDist that read it
CharDist(codes, w) ==
  [p \in Chars \X Chars |->
     IF p[1] = p[2] THEN 0
     ELSE IF p[1] \in DOMAIN codes /\ p[2] \in DOMAIN codes THEN PatternCost(codes[p[1]], codes[p[2]], w)
     ELSE 2]

Unit == [p \in Chars \X Chars |-> IF p[1] = p[2] THEN 0 ELSE 1]

\* A model that is not the mode's own is plain.
Costs(c) ==
  IF c.mode = "CW" /\ c.model = "morse" THEN CharDist(MorseCodes, ConfigureWeights(c.weights))
  ELSE IF c.mode = "RTTY" /\ c.model = "baudot" THEN CharDist(BaudotCodes, ConfigureWeights(c.weights))
  ELSE Unit

\* callDistance and callDistanceCore; cwCallDistance and rttyCallDistance differ
\* in the table only
callDistance(a, b) == EditCost(a, b, 1, 1, costTable)

Init ==
  /\ subject = <<>> /\ candidate = <<>>
  /\ cfg \in Settings /\ costTable = Costs(cfg)

Next ==
  /\ \E c \in Chars :
       \/ Len(subject) < MaxSubject /\ subject' = Append(subject, c) /\ UNCHANGED candidate
       \/ Len(candidate) < MaxCandidate /\ candidate' = Append(candidate, c) /\ UNCHANGED subject
  /\ UNCHANGED <<cfg, costTable>>

Spec == Init /\ [][Next]_vars
-----------------------------------------------------------------------------
\* The ways to put two words side by side: which character of one stands under
\* which of the other, in order
Alignments(a, b) ==
  {r \in SUBSET ((1 .. Len(a)) \X (1 .. Len(b))) :
     \A p, q \in r : p # q => p[1] # q[1] /\ p[2] # q[2] /\ (p[1] < q[1] <=> p[2] < q[2])}

CostOf(r, a, b, cost) ==
  Len(a) + Len(b) - 2 * Cardinality(r) + MapThenSumSet(LAMBDA p : cost[a[p[1]], b[p[2]]], r)

\* The distance that callDistance returns is the cost of the cheapest of all the
\* ways to edit one call into the other, under every model and all weights, and it
\* is the same in both directions when insertions cost what deletions do.
DistanceIsCheapest ==
  LET w == ConfigureWeights(cfg.weights)
      distance == callDistance(subject, candidate)
  IN  /\ distance = Min({CostOf(r, subject, candidate, costTable) : r \in Alignments(subject, candidate)})
      /\ w.ins = w.del => distance = callDistance(candidate, subject)
=============================================================================
