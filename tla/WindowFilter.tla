---------------------------- MODULE WindowFilter ----------------------------
(***************************************************************************)
(* What a windowed duplicate filter promises, without a cache, shards or a *)
(* cleanup: per key it remembers the last spot it let through, for good.   *)
(* A spot must be suppressed when that one is recent and close; it may be  *)
(* let through once the remembered spot is older than the window.          *)
(***************************************************************************)
EXTENDS Integers

CONSTANTS Keys, Reports, Window, PreferStronger, MaxTime, NoEntry

Entries == [when : 0 .. MaxTime, snr : Reports, hasReport : BOOLEAN]
NoVerdict == [key |-> NoEntry, entry |-> NoEntry, forward |-> FALSE]

VARIABLES
  clock,    \* current time
  last,     \* per key, the last spot let through
  verdict   \* the last decision

vars == <<clock, last, verdict>>

Close(e, f) == e.when - f.when < Window /\ f.when - e.when < Window

Better(e, f) ==
  \/ e.hasReport /\ ~f.hasReport
  \/ PreferStronger /\ e.snr > f.snr

Forgotten(e) == clock - e.when > Window

MayForward(k, e) ==
  \/ last[k] = NoEntry
  \/ ~Close(e, last[k])
  \/ Better(e, last[k])
  \/ Forgotten(last[k])

MaySuppress(k, e) ==
  /\ last[k] # NoEntry
  /\ Close(e, last[k])
  /\ ~Better(e, last[k])

Init ==
  /\ clock = 0
  /\ last = [k \in Keys |-> NoEntry]
  /\ verdict = NoVerdict

Tick ==
  /\ clock < MaxTime
  /\ clock' = clock + 1
  /\ UNCHANGED <<last, verdict>>

Forward(k, e) ==
  /\ verdict' = [key |-> k, entry |-> e, forward |-> TRUE]
  /\ MayForward(k, e)
  /\ last' = [last EXCEPT ![k] = e]
  /\ UNCHANGED clock

Suppress(k, e) ==
  /\ verdict' = [key |-> k, entry |-> e, forward |-> FALSE]
  /\ MaySuppress(k, e)
  /\ UNCHANGED <<clock, last>>

Next ==
  \/ Tick
  \/ \E k \in Keys, e \in Entries : Forward(k, e) \/ Suppress(k, e)

Spec == Init /\ [][Next]_vars
=============================================================================
