------------------------------ MODULE CallMeta ------------------------------
(***************************************************************************)
(* What the operations of the call metadata cache do to the entry of one   *)
(* callsign (call_meta_cache.go).  CallMetaCache puts entries into the     *)
(* shards of the cache, GridWriter connects them with the grid store.      *)
(*                                                                         *)
(* A grid is an opaque value; NoGrid stands for gridValid = false.  CTY    *)
(* information is opaque too: NoCty for an entry that was not checked,     *)
(* BadCty for one whose callsign the database does not know.               *)
(***************************************************************************)
EXTENDS Integers

CONSTANTS GridTTL, NoGrid, NoCty, BadCty

MetaConstants == GridTTL \in Nat

Blank == [grid |-> NoGrid, derived |-> FALSE, at |-> 0, cty |-> NoCty]

Expired(e, now) == GridTTL > 0 /\ now - e.at > GridTTL

\* The entry after LookupGrid, which forgets an expired grid
LookedUp(e, now) ==
  IF e.grid # NoGrid /\ Expired(e, now) THEN [e EXCEPT !.grid = NoGrid, !.derived = FALSE] ELSE e

WithGrid(e, g, d, t) == [e EXCEPT !.grid = g, !.derived = d, !.at = t]

\* Whether UpdateGrid changes an existing entry
Updates(e, g, d, now) ==
  /\ ~(e.grid = g /\ e.derived = d /\ ~Expired(e, now))
  /\ ~(d /\ e.grid # NoGrid /\ ~e.derived)

\* Mutant: the newer record wins, derived or not.
MutTakesRecord(e, rec) == rec.grid # NoGrid /\ (e.grid = NoGrid \/ rec.at >= e.at)

\* Whether ApplyRecord takes the grid of a stored record
TakesRecord(e, rec) ==
  /\ rec.grid # NoGrid
  /\ ~(e.grid # NoGrid /\ ~e.derived /\ rec.derived)
  /\ e.grid = NoGrid \/ rec.at > e.at \/ (e.derived /\ ~rec.derived)

\* ApplyRecord: the grid under the rules above, CTY fields whenever the record has them
Applied(e, rec) ==
  LET f == IF TakesRecord(e, rec) THEN WithGrid(e, rec.grid, rec.derived, rec.at) ELSE e
  IN  IF rec.cty # NoCty THEN [f EXCEPT !.cty = rec.cty] ELSE f
=============================================================================
