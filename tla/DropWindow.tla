----------------------------- MODULE DropWindow -----------------------------
(***************************************************************************)
(* The ring of time buckets that decides when a slow telnet client is      *)
(* disconnected (telnet/server.go, dropWindow).  `start` is the time of    *)
(* the oldest bucket, kept at startIdx; time is counted in bucket widths,  *)
(* to which the code truncates start.                                      *)
(*                                                                         *)
(* `log` is a history variable: the attempts recorded at each time since   *)
(* the window was last emptied.                                            *)
(***************************************************************************)
EXTENDS Integers, FiniteSetsExt

CONSTANTS
  NumBuckets,   \* dropWindowBuckets
  MaxTime,      \* bound: last time
  MaxAttempts,  \* bound: attempts recorded
  Unset         \* the zero time.Time

Times == 0 .. MaxTime
Slots == 0 .. (NumBuckets - 1)
Counts == [attempts : Nat, drops : Nat]
Zero == [attempts |-> 0, drops |-> 0]

VARIABLES
  clock,
  start, startIdx, buckets,  \* the dropWindow
  attempts, drops,           \* what the last record() returned
  total,                     \* history: attempts recorded so far
  log                        \* history: attempts per time

window == <<start, startIdx, buckets>>
vars == <<clock, window, attempts, drops, total, log>>

-----------------------------------------------------------------------------
Init ==
  /\ clock = 0
  /\ start = Unset /\ startIdx = 0 /\ buckets = [i \in Slots |-> Zero]
  /\ attempts = 0 /\ drops = 0 /\ total = 0
  /\ log = [t \in Times |-> 0]

\* The wall clock moves, usually forward.
Tick ==
  /\ clock' \in Times
  /\ UNCHANGED <<window, attempts, drops, total, log>>

Emptied == [start |-> clock, startIdx |-> 0, buckets |-> [i \in Slots |-> Zero]]

\* Mutant: the bucket after the last one made room for is cleared too.
MutShifted(shift) ==
  [start    |-> start + shift,
   startIdx |-> (startIdx + shift) % NumBuckets,
   buckets  |-> [i \in Slots |-> IF \E k \in 1 .. (shift + 1) : i = (startIdx + k) % NumBuckets
                                 THEN Zero ELSE buckets[i]]]

\* The loop at the end of advance(): the start moves on by one bucket, then the
\* bucket it has reached is cleared.
Shifted(shift) ==
  [start    |-> start + shift,
   startIdx |-> (startIdx + shift) % NumBuckets,
   buckets  |-> [i \in Slots |-> IF \E k \in 1 .. shift : i = (startIdx + k) % NumBuckets
                                 THEN Zero ELSE buckets[i]]]

\* The window after advance(now)
advance ==
  CASE start = Unset -> [start |-> clock, startIdx |-> 0, buckets |-> buckets]
    [] start # Unset /\ clock < start -> Emptied
    [] start # Unset /\ clock >= start ->
         LET shift == clock - start - NumBuckets + 1
         IN  CASE shift <= 0 -> [start |-> start, startIdx |-> startIdx, buckets |-> buckets]
               [] shift >= NumBuckets -> Emptied
               [] OTHER -> Shifted(shift)

SumOf(counts) == MapThenSumSet(LAMBDA i : counts[i], Slots)

Backwards == start # Unset /\ clock < start

record(dropped) ==
  LET w == advance
      offset == clock - w.start
      idx == (w.startIdx + offset) % NumBuckets
      bump(n) == IF dropped THEN n + 1 ELSE n
      filled == [w.buckets EXCEPT ![idx] =
                   [attempts |-> @.attempts + 1, drops |-> bump(@.drops)]]
  IN  /\ total < MaxAttempts
      /\ start' = w.start /\ startIdx' = w.startIdx /\ buckets' = filled
      /\ attempts' = SumOf([i \in Slots |-> filled[i].attempts])
      /\ drops' = SumOf([i \in Slots |-> filled[i].drops])
      /\ total' = total + 1
      /\ log' = [t \in Times |-> (IF Backwards THEN 0 ELSE log[t]) + (IF t = clock THEN 1 ELSE 0)]
      /\ UNCHANGED clock

Next == Tick \/ \E dropped \in BOOLEAN : record(dropped)

Spec == Init /\ [][Next]_vars
-----------------------------------------------------------------------------
TypeOK ==
  /\ clock \in Times /\ start \in Times \cup {Unset} /\ startIdx \in Slots
  /\ buckets \in [Slots -> Counts] /\ (\A i \in Slots : buckets[i].drops <= buckets[i].attempts)
  /\ attempts \in Nat /\ drops \in 0 .. attempts
  /\ total \in 0 .. MaxAttempts /\ log \in [Times -> Nat]

Since(t) == LET L(u) == log[u] IN MapThenSumSet(L, {u \in Times : u >= t})

\* In whatever pattern of pauses attempts come, what was recorded in the current and
\* the NumBuckets - 2 buckets before it is counted, except while the clock is behind
\* an attempt already recorded; and nothing as old as twice the window is, so that a
\* client is never disconnected for drops it has long recovered from (advance).
WindowCounts ==
  [][total' # total =>
       /\ (\A u \in Times : log[u] > 0 => u <= clock) => attempts' >= Since(clock - NumBuckets + 2)'
       /\ attempts' <= Since(clock - 2 * NumBuckets + 2)']_vars
=============================================================================
