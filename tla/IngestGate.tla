----------------------------- MODULE IngestGate -----------------------------
(***************************************************************************)
(* Who may be spotted by whom: the validator every spot passes before the  *)
(* deduplicator (ingest_validation.go, cty_filters.go), the allowlist      *)
(* (uls/allowlist.go), and the licence gate of the output pipeline, which  *)
(* comes after call correction (main.go).  The country file and the        *)
(* licences may be replaced while a spot waits between the two.            *)
(***************************************************************************)
EXTENDS Integers, Sequences, FiniteSets

CONSTANTS
  Spots,          \* [dx, de, fixed, beacon, test]: fixed is the call correction puts in place of dx
  Base,           \* call -> the part of it a licence is held for (NormalizeForLicense)
  Countries,      \* sequence of country files: call -> ADIF number, 0 when unknown
  Licences,       \* sequence of licence databases: the set of calls in each
  Allowlist,      \* the allowlist: set of [key, call]
  Malformed,      \* calls with three or more letters before the first digit
  RequireCTY,
  DedupBuffer,    \* capacity of the deduplicator's input
  MaxSpots        \* bound: spots received

VARIABLES
  cty, licences,  \* versions in use; cty is 0 until a country file is loaded
  input, dedup,   \* the channels
  output,         \* the spot in the output pipeline: <<>>, or [spot, db, dx, adif, confidence] in a sequence
  aired,          \* what was broadcast last
  received

vars == <<cty, licences, input, dedup, output, aired, received>>

US == 291
Unknown == 0
Versions == 1..Len(Countries)
Nothing == [spot |-> {}, dx |-> "", adif |-> Unknown, db |-> 0]

Init ==
  /\ cty = 0 /\ licences = 1 /\ received = 0
  /\ input = <<>> /\ dedup = <<>> /\ output = <<>> /\ aired = Nothing
-----------------------------------------------------------------------------
\* "US", and "ADIF" with the number; -1 stands for the first
jurisdictionKeys(adif) == IF adif = Unknown THEN {} ELSE IF adif = US THEN {-1, US} ELSE {adif}

AllowlistMatch(adif, call) == \E key \in jurisdictionKeys(adif) : [key |-> key, call |-> call] \in Allowlist
AllowlistMatchAny(call) == \E entry \in Allowlist : entry.call = call

\* A call that cannot be one, unless the allowlist has it
shouldRejectCTYCall(call) == ~AllowlistMatchAny(Base[call]) /\ Base[call] \in Malformed

\* lookupCTY and effectivePrefixInfo
lookupCTY(db, call) == IF db = 0 \/ shouldRejectCTYCall(call) THEN Unknown ELSE Countries[db][call]

\* A US call needs a licence or a place on the allowlist.
MayTransmit(db, version, call) ==
  LET adif == lookupCTY(db, Base[call])
  IN  adif = US => AllowlistMatch(adif, Base[call]) \/ Base[call] \in Licences[version]

\* validateSpot: both calls must be possible and known, and the spotter licensed.
Known(db, call) == ~shouldRejectCTYCall(call) /\ (lookupCTY(db, call) # Unknown \/ AllowlistMatchAny(Base[call]))

Valid(s) ==
  cty # 0 => /\ Known(cty, s.dx) /\ Known(cty, s.de)
             /\ s.test \/ MayTransmit(cty, licences, s.de)
-----------------------------------------------------------------------------
\* The country file is loaded, or a new one replaces it; the same for the licences.
LoadCTY == cty < Len(Countries) /\ cty' = cty + 1
           /\ UNCHANGED <<licences, input, dedup, output, aired, received>>

RefreshLicences == licences < Len(Licences) /\ licences' = licences + 1
                   /\ UNCHANGED <<cty, input, dedup, output, aired, received>>

\* A feed hands over a spot.
Receive(s) ==
  /\ received < MaxSpots /\ received' = received + 1
  /\ input' = Append(input, s)
  /\ UNCHANGED <<cty, licences, dedup, output, aired>>

\* The validator: without a country file it waits for one, or lets everything pass.
\* The deduplicator's input is never waited for.
Validate ==
  /\ input # <<>> /\ input' = Tail(input)
  /\ cty # 0 \/ ~RequireCTY
  /\ LET s == Head(input)
         entry == [spot |-> s, adif |-> lookupCTY(cty, s.dx)]
     IN  dedup' = IF Valid(s) /\ Len(dedup) < DedupBuffer THEN Append(dedup, entry) ELSE dedup
  /\ UNCHANGED <<cty, licences, output, aired, received>>

\* The output pipeline takes a spot, with the country file of the moment; correction may
\* replace the call it names, never a beacon's.
Correct ==
  /\ output = <<>> /\ dedup # <<>> /\ dedup' = Tail(dedup)
  /\ LET e == Head(dedup)
         dx == IF e.spot.beacon THEN e.spot.dx ELSE e.spot.fixed
     IN  output' = <<[spot |-> e.spot, db |-> cty, dx |-> dx, adif |-> e.adif,
                      confidence |-> IF dx # e.spot.dx THEN "C" ELSE ""]>>
  /\ UNCHANGED <<cty, licences, input, aired, received>>

\* Mutant: the metadata of a corrected call is not refreshed.
MutMetadata(o) == IF o.adif = Unknown THEN lookupCTY(o.db, o.dx) ELSE o.adif

\* applyLicenseGate: metadata that is missing, or of the call before, is looked up again.
Metadata(o) == IF o.adif = Unknown \/ o.confidence = "C" THEN lookupCTY(o.db, o.dx) ELSE o.adif

\* A beacon passes, and everything without a country file; else the call as it is now
\* needs its licence.
applyLicenseGate ==
  /\ output # <<>> /\ output' = <<>>
  /\ LET o == output[1]
         passes == o.spot.beacon \/ o.db = 0
         adif == IF passes THEN o.adif ELSE Metadata(o)
         may == MayTransmit(o.db, licences, o.dx)
     IN  aired' = IF passes \/ may
                  THEN [spot |-> o.spot, dx |-> o.dx, adif |-> adif, db |-> o.db]
                  ELSE aired
  /\ UNCHANGED <<cty, licences, input, dedup, received>>

Next ==
  \/ LoadCTY \/ RefreshLicences \/ Validate \/ Correct \/ applyLicenseGate
  \/ \E s \in Spots : Receive(s)

Spec == Init /\ [][Next]_vars /\ WF_vars(LoadCTY) /\ WF_vars(Validate \/ Correct \/ applyLicenseGate)
-----------------------------------------------------------------------------
\* The shape of the state.  The deduplicator's input never holds more than its capacity (Validate).
TypeOK ==
  /\ cty \in 0..Len(Countries) /\ licences \in DOMAIN Licences /\ received \in 0..MaxSpots
  /\ input \in Seq(Spots) /\ dedup \in Seq([spot : Spots, adif : Nat]) /\ Len(dedup) <= DedupBuffer
  /\ Len(output) <= 1 /\ (aired = Nothing \/ aired.spot \in Spots)

\* One of the licence databases and country files in use up to now lets the call transmit.
Vetted(call) == \E v \in 1..licences, d \in 1..cty : MayTransmit(d, v, call)

\* What is broadcast was vetted with the call it finally names, whatever correction did and
\* whichever files were replaced while the spot waited: its spotter and its station hold a
\* licence of one of the databases in use meanwhile or are exempt, and its metadata is the
\* final call's in a country file in use meanwhile (validateSpot, applyLicenseGate).
AiredIsVetted ==
  aired # Nothing =>
    LET exempt == aired.spot.beacon \/ aired.db = 0
    IN  /\ exempt \/ Vetted(aired.dx)
        /\ ~RequireCTY \/ aired.spot.test \/ Vetted(aired.spot.de)
        /\ exempt \/ aired.adif \in {lookupCTY(d, aired.dx) : d \in 1..cty}

\* Besides, the feeds are not held up for ever once there is a country file.
BroadcastIsVetted == [](TypeOK /\ AiredIsVetted) /\ []<>(input = <<>>)
=============================================================================
