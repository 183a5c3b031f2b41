--------------------------- MODULE FilterCommands ---------------------------
(***************************************************************************)
(* What a telnet user is shown, and how they change it: the per-user       *)
(* filter of filter/filter.go, the filter commands in two dialects         *)
(* (telnet/filter_commands.go), the settings commands of telnet/server.go, *)
(* and the user's record on disk, which every change is saved to and every *)
(* login restored from.                                                    *)
(*                                                                         *)
(* A filter is a conjunction of lists (bands, modes, zones, ...), callsign *)
(* patterns and switches.  Every list has an allow part, a block part and  *)
(* two flags; the thirteen lists of the code are one function here.  While *)
(* NEARBY is on, the location lists are suspended and the spot has to lie  *)
(* in the user's H3 cell.  A saved filter is completed when it is loaded.  *)
(*                                                                         *)
(* One user, one session at a time (SessionRegistry has the concurrent     *)
(* sessions of a callsign).  A line of input is a record: verb, domain and *)
(* the set of its arguments; "junk" is an argument no command accepts.     *)
(***************************************************************************)
EXTENDS Integers, FiniteSets, Sequences, SequencesExt

CONSTANTS
  Supported,       \* per list, the canonical tokens its commands accept
  Text,            \* the characters of every callsign and callsign pattern
  Fine, Coarse,    \* EncodeCell, EncodeCoarseCell: cell of a grid, per grid
  ConfigModes, ConfigSources,   \* filter.default_modes, filter.default_sources
  NoSnapshot, InvalidCell,
  UserCall,        \* the callsign of the user
  LookupGrid,      \* what s.gridLookup knows about the user ("" if nothing)
  DedupeEnabled,   \* the secondary deduplicators that are configured
  PathAvailable,   \* pathFilteringAvailable: the path predictor is enabled
  BandSpelling,    \* NormalizeBand on the spellings the user may type
  Focuses,         \* sets of domains; one user's lines name one of the sets
  SavedRecords,    \* the records an earlier version may have left on disk
  NoRecord, Corrupt

-----------------------------------------------------------------------------
(* The filter *)

LocationLists ==
  {"DXCONT", "DECONT", "DXZONE", "DEZONE", "DXDXCC", "DEDXCC", "DXGRID2", "DEGRID2"}
Lists == {"BAND", "MODE", "SOURCE", "CONFIDENCE", "PATH"} \cup LocationLists
Sides == {"DXCALL", "DECALL"}
Toggles == {"BEACON", "WWV", "WCY", "ANNOUNCE", "SELF"}

Glyphs == {"?", "S", "C", "P", "V", "B"}
GlyphScore == [g \in Glyphs |->
  CASE g = "?" -> 0 [] g = "B" -> 10 [] g = "S" -> 25 [] g = "P" -> 50 [] OTHER -> 100]

\* The variants of PSK are one mode.
canonicalModeToken(mode) == IF mode \in {"PSK31", "PSK63", "PSK125"} THEN "PSK" ELSE mode

SetDefaultModeSelection(modes) ==
  IF modes = {} THEN {"CW", "LSB", "USB", "RTTY"} ELSE {canonicalModeToken(m) : m \in modes}

\* ALL, both categories or no valid one: no selection.
SetDefaultSourceSelection(sources) ==
  LET valid == sources \cap {"HUMAN", "SKIMMER"}
  IN  IF "ALL" \in sources \/ Cardinality(valid) # 1 THEN {} ELSE valid

-----------------------------------------------------------------------------
OpenList == [allow |-> {}, block |-> {}, all |-> TRUE, blockAll |-> FALSE]
ClosedList == [OpenList EXCEPT !.all = FALSE, !.blockAll = TRUE]
NoPatterns == [allow |-> {}, block |-> {}]

\* The setters of the location lists, and what the other setters share: the two
\* parts stay disjoint, and a list that allows nothing in particular allows all.
SetToken(l, t, enabled) ==
  LET allow == IF enabled THEN l.allow \cup {t} ELSE l.allow \ {t}
  IN  [allow |-> allow, block |-> IF enabled THEN l.block \ {t} ELSE l.block \cup {t},
       all |-> allow = {}, blockAll |-> FALSE]

SetSupported(l, d, t, enabled) == IF t \in Supported[d] THEN SetToken(l, t, enabled) ELSE l

SetBand(l, band, enabled) == SetSupported(l, "BAND", band, enabled)
SetMode(l, mode, enabled) == SetToken(l, canonicalModeToken(mode), enabled)
SetSource(l, source, enabled) == SetSupported(l, "SOURCE", source, enabled)
SetConfidenceSymbol(l, symbol, enabled) == SetSupported(l, "CONFIDENCE", symbol, enabled)
SetPathClass(l, class, enabled) == SetSupported(l, "PATH", class, enabled)
SetGrid2Prefix(l, d, grid, enabled) == SetSupported(l, d, grid, enabled)

\* SetX of list d
SetListToken(l, d, t, enabled) ==
  CASE d = "BAND"       -> SetBand(l, t, enabled)
    [] d = "MODE"       -> SetMode(l, t, enabled)
    [] d = "SOURCE"     -> SetSource(l, t, enabled)
    [] d = "CONFIDENCE" -> SetConfidenceSymbol(l, t, enabled)
    [] d = "PATH"       -> SetPathClass(l, t, enabled)
    [] d \in {"DXGRID2", "DEGRID2"} -> SetGrid2Prefix(l, d, t, enabled)
    [] OTHER            -> SetToken(l, t, enabled)

AddCallsignPattern(c, p) == [allow |-> c.allow \cup {p}, block |-> c.block \ {p}]
AddBlockCallsignPattern(c, p) == [allow |-> c.allow \ {p}, block |-> c.block \cup {p}]

-----------------------------------------------------------------------------
ListStates == [allow : SUBSET STRING, block : SUBSET STRING, all : BOOLEAN, blockAll : BOOLEAN]

\* type Filter; a switch is "nil", "on" or "off".
Filter ==
  [list : [Lists -> ListStates],
   calls : [Sides -> [allow : SUBSET DOMAIN Text, block : SUBSET DOMAIN Text]],
   toggle : [Toggles -> {"nil", "on", "off"}],
   nearby : BOOLEAN,
   snapshot : [LocationLists -> ListStates] \cup {NoSnapshot},
   fine : Range(Fine) \cup {InvalidCell}, coarse : Range(Coarse) \cup {InvalidCell},
   minConfidence : 0 .. 100]

NewFilter ==
  LET sources == SetDefaultSourceSelection(ConfigSources)
  IN  [list |-> [d \in Lists |->
                  CASE d = "MODE"   -> [OpenList EXCEPT !.allow = SetDefaultModeSelection(ConfigModes),
                                                        !.all = FALSE]
                    [] d = "SOURCE" -> [OpenList EXCEPT !.allow = sources, !.all = (sources = {})]
                    [] OTHER        -> OpenList],
       calls |-> [c \in Sides |-> NoPatterns],
       toggle |-> [t \in Toggles |-> "on"],
       nearby |-> FALSE, snapshot |-> NoSnapshot,
       fine |-> InvalidCell, coarse |-> InvalidCell, minConfidence |-> 0]

\* ResetX of list d.  ResetConfidence also forgets the legacy threshold.
ResetList(f, d) ==
  [f EXCEPT !.list[d] = OpenList, !.minConfidence = IF d = "CONFIDENCE" THEN 0 ELSE @]

ClearCallsignPatterns(f, side) == [f EXCEPT !.calls[side] = NoPatterns]
SetToggle(f, t, enabled) == [f EXCEPT !.toggle[t] = IF enabled THEN "on" ELSE "off"]
Enabled(f, t) == f.toggle[t] # "off"

AllowsBulletin(f, kind) ==
  CASE kind \in {"WWV", "PC23"}      -> Enabled(f, "WWV")
    [] kind \in {"WCY", "PC73"}      -> Enabled(f, "WCY")
    [] kind \in {"ANNOUNCE", "PC93"} -> Enabled(f, "ANNOUNCE")
    [] OTHER                         -> TRUE

captureLocationSnapshot(f) == [d \in LocationLists |-> f.list[d]]

restoreLocationSnapshot(f) ==
  [f EXCEPT !.list = [d \in Lists |-> IF d \in LocationLists THEN f.snapshot[d] ELSE @[d]]]

EnableNearby(f, fine, coarse) ==
  IF InvalidCell \in {fine, coarse} THEN f
  ELSE [f EXCEPT !.snapshot = IF @ = NoSnapshot THEN captureLocationSnapshot(f) ELSE @,
                 !.nearby = TRUE, !.fine = fine, !.coarse = coarse]

DisableNearby(f) ==
  [(IF f.snapshot = NoSnapshot THEN f ELSE restoreLocationSnapshot(f))
     EXCEPT !.nearby = FALSE, !.snapshot = NoSnapshot, !.fine = InvalidCell, !.coarse = InvalidCell]

UpdateNearbyUserCells(f, fine, coarse) == [f EXCEPT !.fine = fine, !.coarse = coarse]

\* Every list and switch is opened, then NEARBY is disabled.
Reset(f) ==
  DisableNearby([f EXCEPT !.list = [d \in Lists |-> OpenList],
                          !.calls = [c \in Sides |-> NoPatterns],
                          !.toggle = [t \in Toggles |-> "on"],
                          !.minConfidence = 0])

ResetToDefaults(f) == NewFilter

-----------------------------------------------------------------------------
(* Spots have a token for every list ("" when unknown), the two callsigns  *)
(* and the two grids.                                                      *)

passesStringFilter(token, l) ==
  /\ ~l.blockAll
  /\ token \notin l.block
  /\ l.all \/ l.allow # {}
  /\ l.allow # {} => token # "" /\ token \in l.allow

\* A token outside its range passes only a list that selects nothing.
passesIntFilter(token, l, valid) ==
  /\ ~l.blockAll
  /\ token \notin l.block
  /\ IF valid THEN (l.all \/ l.allow # {}) /\ (l.allow # {} => token \in l.allow)
              ELSE l.allow = {} /\ l.all

PassesList(f, d, token) ==
  CASE d \in {"DXZONE", "DEZONE"} -> passesIntFilter(token, f.list[d], token \in Supported[d])
    [] d \in {"DXDXCC", "DEDXCC"} -> passesIntFilter(token, f.list[d], TRUE)
    [] OTHER                      -> passesStringFilter(token, f.list[d])

\* Exact, or with one wildcard at the end or else at the start
matchesCallsignPattern(call, pattern) ==
  LET c == Text[call]  p == Text[pattern]
  IN  \/ c = p
      \/ Last(p) = "*" /\ IsPrefix(Front(p), c)
      \/ Last(p) # "*" /\ Head(p) = "*" /\ IsSuffix(Tail(p), c)

PassesCalls(c, call) ==
  /\ ~\E p \in c.block : matchesCallsignPattern(call, p)
  /\ c.allow # {} => \E p \in c.allow : matchesCallsignPattern(call, p)

isConfidenceExemptMode(mode) == mode \in {"FT8", "FT4", "PSK", "MSK144"}

normalizeConfidenceSymbol(c) == IF c = "" THEN "?" ELSE c

nearbySpotCells(s, useCoarse) ==
  IF "" \in {s.dxGrid, s.deGrid} THEN {InvalidCell}
  ELSE IF useCoarse THEN {Coarse[s.dxGrid], Coarse[s.deGrid]} ELSE {Fine[s.dxGrid], Fine[s.deGrid]}

matchesNearby(f, s) ==
  LET band == s.token["BAND"]
      useCoarse == band \in {"160m", "80m", "60m"}
      userCell == IF useCoarse THEN f.coarse ELSE f.fine
      cells == nearbySpotCells(s, useCoarse)
  IN  band # "" /\ userCell # InvalidCell /\ InvalidCell \notin cells /\ userCell \in cells

matchesWithPath(f, s) ==
  /\ s.beacon => Enabled(f, "BEACON")
  /\ \A d \in {"BAND", "MODE", "SOURCE"} : PassesList(f, d, s.token[d])
  /\ IF f.nearby THEN matchesNearby(f, s)
                 ELSE \A d \in LocationLists : PassesList(f, d, s.token[d])
  /\ PassesCalls(f.calls["DXCALL"], s.dxCall)
  /\ PassesCalls(f.calls["DECALL"], s.deCall)
  /\ \/ isConfidenceExemptMode(s.token["MODE"])
     \/ PassesList(f, "CONFIDENCE", normalizeConfidenceSymbol(s.token["CONFIDENCE"]))
  /\ PassesList(f, "PATH", IF s.token["PATH"] = "" THEN "INSUFFICIENT" ELSE s.token["PATH"])

\* Whether the path class has to be looked up at all
PathFilterActive(f) ==
  LET l == f.list["PATH"] IN l.blockAll \/ ~l.all \/ l.allow # {} \/ l.block # {}

-----------------------------------------------------------------------------
(* Loading: the snapshot and the cells are not stored, a legacy threshold  *)
(* becomes glyphs, and what a file does not have is completed.             *)

confidenceSymbolsForThreshold(n) == {g \in Glyphs : GlyphScore[g] >= n}

migrateLegacyConfidence(f) ==
  LET l == f.list["CONFIDENCE"]
      allow == l.allow \cup IF f.minConfidence > 0 THEN confidenceSymbolsForThreshold(f.minConfidence) ELSE {}
  IN  [f EXCEPT !.list["CONFIDENCE"].allow = allow,
                !.list["CONFIDENCE"].all =
                    IF allow = {} THEN TRUE ELSE IF f.minConfidence > 0 THEN FALSE ELSE @,
                !.list["PATH"].all = @ \/ f.list["PATH"].allow = {},
                !.minConfidence = 0]

migratePSKModes(l) ==
  LET allow == {canonicalModeToken(m) : m \in l.allow}
  IN  [l EXCEPT !.allow = allow, !.block = {canonicalModeToken(m) : m \in l.block},
                !.all = (allow = {})]

normalizeDefaults(f) ==
  [f EXCEPT !.list = [d \in Lists |->
                       LET l == IF d = "MODE" THEN migratePSKModes(f.list[d]) ELSE f.list[d]
                       IN  [l EXCEPT !.all = @ \/ l.allow = {}]],
            !.toggle = [t \in Toggles |-> IF @[t] = "nil" /\ t # "BEACON" THEN "on" ELSE @[t]],
            !.snapshot = NoSnapshot, !.fine = InvalidCell, !.coarse = InvalidCell]

\* What the YAML file keeps of a filter
Stored(f) == [f EXCEPT !.snapshot = NoSnapshot, !.fine = InvalidCell, !.coarse = InvalidCell]

Loaded(f) == normalizeDefaults(migrateLegacyConfidence(f))
-----------------------------------------------------------------------------
(* The session *)

VARIABLES
  online,          \* the session is logged in
  filter, grid, dialect, policy, noise, solar, diag,   \* the Client
  disk,            \* the user's record: [filter, ...], NoRecord or Corrupt
  focus,           \* what this user's lines are about
  before,          \* history: the location lists when NEARBY was switched on
  word             \* history: the last PASS or REJECT that named a token

client == <<filter, grid, dialect, policy, noise, solar, diag>>
vars == <<online, client, disk, focus, before, word>>

Grids == DOMAIN Fine
CellOf(cells, g) == IF g = "" THEN InvalidCell ELSE cells[g]

NormalizeBand(raw) == IF raw \in DOMAIN BandSpelling THEN BandSpelling[raw] ELSE raw

-----------------------------------------------------------------------------
(* From a line to a command                                                *)

NotMatched == [action |-> "none", domain |-> "", args |-> {}]
Usage == [NotMatched EXCEPT !.action = "usage"]
Allow(d, args) == [action |-> "allow", domain |-> d, args |-> args]
Block(d, args) == [action |-> "block", domain |-> d, args |-> args]

parseClassicDialect(line) ==
  CASE line.verb = "RESET"       -> IF line.domain = "FILTER" THEN [NotMatched EXCEPT !.action = "reset"] ELSE Usage
    [] line.verb = "PASS"        -> IF line.domain = "" THEN Usage ELSE Allow(line.domain, line.args)
    [] line.verb = "REJECT"      -> IF line.domain = "" THEN Usage ELSE Block(line.domain, line.args)
    [] line.verb = "SHOW FILTER" -> [NotMatched EXCEPT !.action = "summary"]
    [] OTHER                     -> NotMatched

isCCMode(mode) == mode \in {"CW", "FT4", "FT8", "RTTY"}

\* SET/x and SET/NOx are the verbs "SET" and "SETNO" with domain x.
parseCCDialect(line) ==
  LET shortcut(d, args) == IF line.verb = "SET" THEN Allow(d, args) ELSE Block(d, args)
  IN  CASE line.verb = "RESET"          -> parseClassicDialect(line)
        [] line.verb = "SHOW/FILTER"    -> [NotMatched EXCEPT !.action = "summary"]
        [] line.verb = "SET/FILTER"     -> IF line.domain = "" THEN Usage ELSE Allow(line.domain, line.args)
        [] line.verb = "UNSET/FILTER"   -> IF line.domain = "" THEN Usage ELSE Block(line.domain, line.args)
        [] line.verb = "SET/FILTER/ON"  -> Allow(line.domain, {"ALL"})
        [] line.verb = "SET/FILTER/OFF" -> Block(line.domain, {"ALL"})
        [] line.verb = "SET/NOFILTER"   -> Allow("NOFILTER", {})
        [] line.verb \in {"SET", "SETNO"} /\ line.domain \in Toggles   -> shortcut(line.domain, {})
        [] line.verb \in {"SET", "SETNO"} /\ line.domain = "SKIMMER"   -> shortcut("SOURCE", {"SKIMMER"})
        [] line.verb \in {"SET", "SETNO"} /\ isCCMode(line.domain)     -> shortcut("MODE", {line.domain})
        [] OTHER                        -> NotMatched

\* The CC dialect falls back to the classic one; in the classic one a CC line
\* only gets a hint (hintForOtherDialect).
parse(line, d) ==
  IF d = "cc" /\ parseCCDialect(line) # NotMatched THEN parseCCDialect(line)
  ELSE parseClassicDialect(line)

-----------------------------------------------------------------------------
(* The domain handlers map a filter to [filter, mutated].                  *)

Refused(f) == [filter |-> f, mutated |-> FALSE]
Done(f) == [filter |-> f, mutated |-> TRUE]

\* What the list handlers share: ALL opens or closes the list, one unknown
\* token refuses the whole line, and otherwise every token is set.
ApplyList(f, d, cmd, tokens) ==
  CASE cmd.args = {"ALL"} ->
         Done([ResetList(f, d) EXCEPT !.list[d] = IF cmd.action = "allow" THEN @ ELSE ClosedList])
    [] cmd.args # {"ALL"} /\ (tokens = {} \/ ~(tokens \subseteq Supported[d])) -> Refused(f)
    [] OTHER ->
         Done([f EXCEPT !.list[d] =
                 FoldSet(LAMBDA t, l : SetListToken(l, d, t, cmd.action = "allow"), @, tokens)])

newBandHandler(f, cmd) == ApplyList(f, "BAND", cmd, {NormalizeBand(b) : b \in cmd.args})
newModeHandler(f, cmd) == ApplyList(f, "MODE", cmd, {canonicalModeToken(m) : m \in cmd.args})
newConfidenceHandler(f, cmd) == ApplyList(f, "CONFIDENCE", cmd, cmd.args)
newContinentHandler(f, cmd) == ApplyList(f, cmd.domain, cmd, cmd.args)
newZoneHandler(f, cmd) == ApplyList(f, cmd.domain, cmd, cmd.args)
newDXCCHandler(f, cmd) == ApplyList(f, cmd.domain, cmd, cmd.args)
newGrid2Handler(f, cmd) == ApplyList(f, cmd.domain, cmd, cmd.args)

\* DXBM has no ALL.
applyDXBMBands(f, cmd) ==
  IF cmd.args = {"ALL"} THEN Refused(f)
  ELSE ApplyList(f, "BAND", cmd, {NormalizeBand(b) : b \in cmd.args})

\* One source at a time
newSourceHandler(f, cmd) ==
  IF Cardinality(cmd.args) = 1 THEN ApplyList(f, "SOURCE", cmd, cmd.args) ELSE Refused(f)

newPathHandler(f, cmd) == IF PathAvailable THEN ApplyList(f, "PATH", cmd, cmd.args) ELSE Refused(f)

newNoFilterHandler(f, cmd) == IF cmd.action = "allow" THEN Done(Reset(f)) ELSE Refused(f)

newCallPatternHandler(f, cmd) ==
  LET cleared == ClearCallsignPatterns(f, cmd.domain)
      add(p, c) == IF cmd.action = "allow" THEN AddCallsignPattern(c, p) ELSE AddBlockCallsignPattern(c, p)
  IN  CASE cmd.args = {}      -> Refused(f)
        [] cmd.args = {"ALL"} -> Done([cleared EXCEPT !.calls[cmd.domain] =
                                         IF cmd.action = "allow" THEN @ ELSE AddBlockCallsignPattern(@, "*")])
        [] OTHER              -> Done([f EXCEPT !.calls[cmd.domain] = FoldSet(add, @, cmd.args)])

newNearbyHandler(f, cmd) ==
  CASE cmd.args = {"ON"} /\ grid # "" /\ InvalidCell \notin {Fine[grid], Coarse[grid]} ->
         Done(EnableNearby(f, Fine[grid], Coarse[grid]))
    [] cmd.args = {"OFF"} -> Done(DisableNearby(f))
    [] OTHER              -> Refused(f)

newFeatureToggleHandler(f, cmd) == Done(SetToggle(f, cmd.domain, cmd.action = "allow"))

Handler(f, cmd) ==
  CASE cmd.domain = "BAND"               -> newBandHandler(f, cmd)
    [] cmd.domain = "DXBM"               -> applyDXBMBands(f, cmd)
    [] cmd.domain = "MODE"               -> newModeHandler(f, cmd)
    [] cmd.domain = "SOURCE"             -> newSourceHandler(f, cmd)
    [] cmd.domain = "NOFILTER"           -> newNoFilterHandler(f, cmd)
    [] cmd.domain \in Sides              -> newCallPatternHandler(f, cmd)
    [] cmd.domain = "CONFIDENCE"         -> newConfidenceHandler(f, cmd)
    [] cmd.domain = "PATH"               -> newPathHandler(f, cmd)
    [] cmd.domain = "NEARBY"             -> newNearbyHandler(f, cmd)
    [] cmd.domain \in {"DXCONT", "DECONT"}   -> newContinentHandler(f, cmd)
    [] cmd.domain \in {"DXZONE", "DEZONE"}   -> newZoneHandler(f, cmd)
    [] cmd.domain \in {"DXDXCC", "DEDXCC"}   -> newDXCCHandler(f, cmd)
    [] cmd.domain \in {"DXGRID2", "DEGRID2"} -> newGrid2Handler(f, cmd)
    [] cmd.domain \in Toggles            -> newFeatureToggleHandler(f, cmd)
    [] OTHER                             -> Refused(f)

locationFilterDomains == LocationLists

execute(f, cmd) ==
  CASE cmd.action = "reset" -> Done(ResetToDefaults(f))
    [] cmd.action \in {"allow", "block"} /\ ~(f.nearby /\ cmd.domain \in locationFilterDomains) -> Handler(f, cmd)
    [] OTHER -> Refused(f)

-----------------------------------------------------------------------------
(* The record on disk                                                      *)

Record == [filter |-> Stored(filter), dialect |-> dialect, policy |-> policy,
           grid |-> grid, noise |-> noise, solar |-> solar]

\* Mutant: the noise class and the grid of the session are not part of the record.
MutSaveFilter == disk' = [Record EXCEPT !.grid = "", !.noise = ""]'

\* saveFilter, with the values the command has just set
saveFilter == disk' = Record'

normalizeSolarSummaryMinutes(m) == IF m \in {15, 30, 60} THEN m ELSE 0
NormalizeDedupePolicy(p) == IF p \in {"FAST", "MED", "SLOW"} THEN p ELSE "MED"
normalizeDialectName(d) == IF d = "cc" THEN "cc" ELSE "go"

LoadUserRecord(r) ==
  [r EXCEPT !.filter = Loaded(@), !.policy = NormalizeDedupePolicy(@),
            !.solar = normalizeSolarSummaryMinutes(@)]

DefaultRecord == [filter |-> NewFilter, dialect |-> "go", policy |-> "MED",
                  grid |-> "", noise |-> "", solar |-> 0]

resolveDedupePolicy(requested) ==
  LET order == <<"FAST", "MED", "SLOW">>
      on == {i \in 1 .. 3 : order[i] \in DedupeEnabled}
  IN  CASE requested \in DedupeEnabled -> requested
        [] on = {}                     -> "FAST"
        [] OTHER                       -> order[Min(on)]

applyNearbyLoginState(f, g) ==
  IF f.nearby /\ g # "" THEN EnableNearby(f, CellOf(Fine, g), CellOf(Coarse, g)) ELSE f

\* The client a login makes of a loaded record
Restored(r) ==
  LET g == IF r.grid = "" THEN LookupGrid ELSE r.grid
  IN  [filter |-> applyNearbyLoginState(r.filter, g), grid |-> g,
       dialect |-> normalizeDialectName(r.dialect), policy |-> resolveDedupePolicy(r.policy),
       noise |-> IF r.noise = "" THEN "QUIET" ELSE r.noise, solar |-> r.solar]

ClientRecord == [filter |-> filter, grid |-> grid, dialect |-> dialect, policy |-> policy,
                 noise |-> noise, solar |-> solar]
NoWords == [d \in focus \cap Lists |-> [t \in Supported[d] |-> "none"]]

-----------------------------------------------------------------------------
Init ==
  /\ focus \in Focuses
  /\ disk \in {NoRecord, Corrupt} \cup SavedRecords
  /\ online = FALSE
  /\ filter = NewFilter /\ grid = "" /\ dialect = "go" /\ policy = "MED"
  /\ noise = "QUIET" /\ solar = 0 /\ diag = FALSE
  /\ before = IF disk \in SavedRecords THEN captureLocationSnapshot(Loaded(disk.filter))
              ELSE captureLocationSnapshot(NewFilter)
  /\ word = NoWords

\* A record that cannot be read is replaced by the defaults.
Login ==
  LET unreadable == disk = Corrupt
      record == IF disk \in {NoRecord, Corrupt} THEN DefaultRecord ELSE LoadUserRecord(disk)
      new == Restored(IF unreadable THEN [record EXCEPT !.noise = "QUIET"] ELSE record)
  IN  /\ ~online
      /\ online' = TRUE
      /\ filter' = new.filter /\ grid' = new.grid /\ dialect' = new.dialect
      /\ policy' = new.policy /\ noise' = new.noise /\ solar' = new.solar /\ diag' = FALSE
      /\ disk' = [record EXCEPT !.filter = Stored(@),
                                !.policy = IF unreadable THEN resolveDedupePolicy(@) ELSE @,
                                !.noise = IF unreadable THEN "QUIET" ELSE @]
      /\ UNCHANGED <<focus, before, word>>

Logout == online /\ online' = FALSE /\ UNCHANGED <<client, disk, focus, before, word>>

\* The words a command leaves standing: a token's last PASS or REJECT holds
\* until the list as a whole is set, or the filter reset.
WordsAfter(cmd, mutated) ==
  LET named == {NormalizeBand(canonicalModeToken(t)) : t \in cmd.args}
      d == IF cmd.domain = "DXBM" THEN "BAND" ELSE cmd.domain
  IN  CASE ~mutated -> word
        [] cmd.action = "reset" \/ cmd.domain = "NOFILTER" -> NoWords
        [] cmd.action # "reset" /\ d \in DOMAIN word ->
             [word EXCEPT ![d] = [t \in Supported[d] |->
                IF cmd.args = {"ALL"} THEN "none"
                ELSE IF t \in named THEN cmd.action ELSE @[t]]]
        [] OTHER -> word

\* A filter command: Handle
Handle(line) ==
  LET cmd == parse(line, dialect)
      result == execute(filter, cmd)
  IN  /\ online
      /\ filter' = result.filter
      /\ UNCHANGED <<grid, dialect, policy, noise, solar, diag, online, focus>>
      /\ IF result.mutated THEN saveFilter ELSE UNCHANGED disk
      /\ word' = WordsAfter(cmd, result.mutated)
      /\ before' = IF filter.nearby /\ filter'.nearby THEN before ELSE captureLocationSnapshot(filter')

\* SET GRID
SetGrid(g) ==
  /\ online /\ InvalidCell # Fine[g]
  /\ grid' = g
  /\ filter' = IF filter.nearby THEN UpdateNearbyUserCells(filter, Fine[g], Coarse[g]) ELSE filter
  /\ UNCHANGED <<dialect, policy, noise, solar, diag, online, focus, before, word>>
  /\ saveFilter

\* SET NOISE
SetNoise(class) ==
  /\ online
  /\ noise' = class
  /\ UNCHANGED <<filter, grid, dialect, policy, solar, diag, online, focus, before, word>>
  /\ saveFilter

\* SET DEDUPE
handleDedupeCommand(requested) ==
  /\ online
  /\ policy' = resolveDedupePolicy(requested)
  /\ UNCHANGED <<filter, grid, dialect, noise, solar, diag, online, focus, before, word>>
  /\ saveFilter

\* SET SOLAR
handleSolarCommand(minutes) ==
  /\ online
  /\ solar' = minutes
  /\ UNCHANGED <<filter, grid, dialect, policy, noise, diag, online, focus, before, word>>
  /\ saveFilter

\* SET DIAG is not saved.
handleDiagCommand(on) ==
  /\ online
  /\ diag' = on
  /\ UNCHANGED <<filter, grid, dialect, policy, noise, solar, disk, online, focus, before, word>>

\* DIALECT: the same dialect again changes and saves nothing.
handleDialectCommand(d) ==
  /\ online /\ d # dialect
  /\ dialect' = d
  /\ UNCHANGED <<filter, grid, policy, noise, solar, diag, online, focus, before, word>>
  /\ saveFilter

-----------------------------------------------------------------------------
(* The lines of the user: PASS, REJECT and the CC forms on each domain of  *)
(* the focus.                                                              *)
Spellings(d) ==
  CASE d \in {"BAND", "DXBM"} -> DOMAIN BandSpelling
    [] d = "MODE"             -> Supported[d] \cup {"PSK31"}
    [] d \in Lists            -> Supported[d]
    [] d \in Sides            -> DOMAIN Text
    [] OTHER                  -> {}

Arguments(d) ==
  CASE d = "NEARBY" -> {{"ON"}, {"OFF"}, {}}
    [] d \in Toggles \cup {"NOFILTER"} -> {{}}
    [] OTHER -> {{}, {"ALL"}, Spellings(d)} \cup {{t} : t \in Spellings(d)}
                  \cup (IF d \in Sides THEN {} ELSE {{"junk"}})

Lines ==
  [verb : {"RESET"}, domain : {"FILTER"}, args : {{}}]
    \cup UNION {[verb : {"PASS", "REJECT", "SET/FILTER", "UNSET/FILTER"}, domain : {d}, args : Arguments(d)] :
                d \in focus}
    \cup [verb : {"SET/FILTER/ON", "SET/FILTER/OFF"}, domain : focus \cap Lists, args : {{}}]
    \cup [verb : {"SET", "SETNO"}, domain : focus \cap Toggles, args : {{}}]
    \cup (IF "MODE" \in focus THEN [verb : {"SET", "SETNO"}, domain : {"CW"}, args : {{}}] ELSE {})
    \cup (IF "SOURCE" \in focus THEN [verb : {"SET", "SETNO"}, domain : {"SKIMMER"}, args : {{}}] ELSE {})
    \cup (IF "NEARBY" \in focus THEN [verb : {"SET/NOFILTER"}, domain : {""}, args : {{}}] ELSE {})

Next ==
  \/ Login \/ Logout
  \/ \E line \in Lines : Handle(line)
  \/ \E d \in {"go", "cc"} : handleDialectCommand(d)
  \/ "NEARBY" \in focus /\ \E g \in Grids : SetGrid(g)
  \/ "settings" \in focus /\ \/ \E c \in {"QUIET", "URBAN"} : SetNoise(c)
                             \/ \E p \in {"FAST", "MED", "SLOW"} : handleDedupeCommand(p)
                             \/ \E m \in {0, 15, 60} : handleSolarCommand(m)
                             \/ \E b \in BOOLEAN : handleDiagCommand(b)

Spec == Init /\ [][Next]_vars

-----------------------------------------------------------------------------
(* What SHOW FILTER says of a list                                         *)

coversAllSupported(l, d) == d \notin {"DXGRID2", "DEGRID2"} /\ Supported[d] \subseteq l.allow

\* Mutant: the block list is left out of a label that says "all".
MutEffectiveAllowBlockLabel(allowAll, l) ==
  CASE l.blockAll -> [says |-> "only", tokens |-> {}]
    [] allowAll   -> [says |-> "all except", tokens |-> {}]
    [] OTHER      -> [says |-> "only", tokens |-> l.allow]

\* "all blocked" and "none pass" are "only" nothing, "all pass" is "all except" nothing.
effectiveAllowBlockLabel(allowAll, l) ==
  CASE l.blockAll             -> [says |-> "only", tokens |-> {}]
    [] ~l.blockAll /\ allowAll -> [says |-> "all except", tokens |-> l.block]
    [] OTHER                  -> [says |-> "only", tokens |-> l.allow]

snapshotAllowBlock(f, d) ==
  effectiveAllowBlockLabel(f.list[d].all \/ coversAllSupported(f.list[d], d), f.list[d])

\* The filter as the history query applies it: spots of the user always pass, and
\* the path class is looked up only when the filter needs it.
filterFn(f, s) ==
  LET lookup == PathFilterActive(f) /\ ~f.list["PATH"].blockAll
  IN  \/ s.dxCall = UserCall
      \/ matchesWithPath(f, [s EXCEPT !.token["PATH"] = IF lookup THEN @ ELSE "INSUFFICIENT"])

-----------------------------------------------------------------------------
(* Properties                                                              *)

\* A spot that every open list passes, and its variants in one token, one
\* callsign, the grids or the beacon flag
BaseSpot ==
  [token |-> [d \in Lists |-> CHOOSE t \in Supported[d] : d = "MODE" => t \in SetDefaultModeSelection(ConfigModes)],
   dxCall |-> "W1A", deCall |-> "K2B", dxGrid |-> "", deGrid |-> "", beacon |-> FALSE]
Spots ==
  {BaseSpot, [BaseSpot EXCEPT !.beacon = TRUE]}
    \cup UNION {{[BaseSpot EXCEPT !.token[d] = t] : t \in Supported[d] \cup {""}} : d \in Lists}
    \cup {[BaseSpot EXCEPT !.dxCall = "K2B"], [BaseSpot EXCEPT !.deCall = "W1A"]}
    \cup {[BaseSpot EXCEPT !.dxGrid = g, !.deGrid = h, !.token["BAND"] = b] :
            g, h \in Grids, b \in Supported["BAND"]}

TypeOK ==
  /\ online \in BOOLEAN /\ filter.list \in [Lists -> ListStates]
  /\ filter.toggle \in [Toggles -> {"nil", "on", "off"}]
  /\ grid \in Grids \cup {""} /\ dialect \in {"go", "cc"} /\ policy \in {"FAST", "MED", "SLOW"}

\* Property: what SHOW FILTER says of a list (effectiveAllowBlockLabel, with
\* coversAllSupported) is what the list does to every token its commands
\* know, however the list came to be: by commands in either dialect, by a
\* reset, or from a file that an earlier version wrote.
ShownIsTrue ==
  \A d \in Lists : \A t \in Supported[d] :
    LET label == snapshotAllowBlock(filter, d)
    IN  PassesList(filter, d, t) = ((t \in label.tokens) = (label.says = "only"))

\* Property: PASS t and REJECT t keep their meaning for t, whatever is said
\* about other tokens and across reconnects, until t is named again or the
\* list is set as a whole.  Looking up the path class only when the filter
\* asks for it (filterFn) does not change the answer.
LastWordWins ==
  online => \A d \in DOMAIN word : \A t \in Supported[d] :
    LET passes == IF d = "PATH" THEN filterFn([filter EXCEPT !.list = [x \in Lists |-> IF x = d THEN @[x] ELSE OpenList],
                                                             !.nearby = FALSE],
                                              [BaseSpot EXCEPT !.token[d] = t])
                  ELSE PassesList(filter, d, t)
    IN  /\ word[d][t] = "allow" => passes
        /\ word[d][t] = "block" => ~passes

\* Property: hanging up and logging in again changes nothing.  The client that
\* a login would make of the record on disk shows the same spots and
\* bulletins and has the same grid, dialect, dedupe policy, noise class and
\* solar interval as the session that is running.
ReconnectChangesNothing ==
  online =>
    LET again == Restored(LoadUserRecord(disk))
    IN  /\ [again EXCEPT !.filter = filter] = ClientRecord
        /\ \A s \in Spots : filterFn(again.filter, s) = filterFn(filter, s)
        /\ \A kind \in {"WWV", "WCY", "PC93", "TALK"} :
              AllowsBulletin(again.filter, kind) = AllowsBulletin(filter, kind)
        /\ Enabled(again.filter, "SELF") = Enabled(filter, "SELF")

\* Property: PASS NEARBY OFF gives back the location lists that were in force
\* when NEARBY was switched on, also when the user reconnected in between
\* and the snapshot, which is not saved, had to be taken again.
NearbyGivesBack ==
  online /\ filter.nearby =>
    \A d \in LocationLists : \A t \in Supported[d] \cup {""} :
      PassesList(DisableNearby(filter), d, t) = PassesList([list |-> before], d, t)
=============================================================================
