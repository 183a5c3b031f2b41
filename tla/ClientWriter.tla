---------------------------- MODULE ClientWriter ----------------------------
(***************************************************************************)
(* The outgoing side of one telnet client (telnet/server.go): producers    *)
(* put control messages and spots into two bounded channels without        *)
(* blocking, and writerLoop writes them to the connection, control first.  *)
(*                                                                         *)
(* Messages and spots are numbered in the order in which they are offered. *)
(* A producer looks at `done` before it sends, so a client may be closed   *)
(* in between: offering to a closed client may still fill a channel.       *)
(***************************************************************************)
EXTENDS Naturals, Sequences

CONSTANTS
  ControlCap,   \* capacity of controlChan
  SpotCap,      \* capacity of spotChan
  MaxControl,   \* bound: control messages offered
  MaxSpots,     \* bound: spots offered
  Farewells     \* the control messages with closeAfter

ControlIds == 1 .. MaxControl
SpotIds == 1 .. MaxSpots

\* What the constants are
WriterConstants ==
  /\ ControlCap \in Nat \ {0} /\ SpotCap \in Nat \ {0}
  /\ MaxControl \in Nat /\ MaxSpots \in Nat
  /\ Farewells \subseteq ControlIds

VARIABLES
  control, spots,   \* controlChan, spotChan
  closed,           \* done is closed and so is the connection
  pc,               \* writerLoop: "drain", "select", "control", "spot", "done"
  msg,              \* the message or spot being written, 0 if none
  written,          \* history: what reached the connection
  nControl, nSpots, \* history: messages and spots offered so far
  passed            \* history: spots taken while a message was waiting

offered == <<nControl, nSpots>>
vars == <<control, spots, closed, pc, msg, written, offered, passed>>

-----------------------------------------------------------------------------
Waiting(m) == \E i \in 1 .. Len(control) : control[i] = m

Init ==
  /\ control = <<>> /\ spots = <<>> /\ closed = FALSE
  /\ pc = "drain" /\ msg = 0 /\ written = <<>>
  /\ nControl = 0 /\ nSpots = 0
  /\ passed = [m \in ControlIds |-> 0]

\* Mutant: a full control queue drops the message and keeps the client.
MutControlFull == UNCHANGED <<control, closed>>

\* The message does not fit: the client is disconnected.
ControlFull == closed' = TRUE /\ UNCHANGED control

\* enqueueControl; on a closed client it may return at the first select.
enqueueControl ==
  /\ nControl < MaxControl
  /\ nControl' = nControl + 1
  /\ \/ closed /\ UNCHANGED <<control, closed>>
     \/ Len(control) < ControlCap /\ control' = Append(control, nControl + 1) /\ UNCHANGED closed
     \/ Len(control) >= ControlCap /\ ControlFull
  /\ UNCHANGED <<spots, pc, msg, written, nSpots, passed>>

SpotQueued == IF Len(spots) < SpotCap THEN Append(spots, nSpots + 1) ELSE spots

\* enqueueSpot: a full queue drops the spot; an extreme drop rate, measured by
\* the sliding window of DropWindow, disconnects the client.
enqueueSpot ==
  /\ nSpots < MaxSpots
  /\ nSpots' = nSpots + 1
  /\ \/ closed /\ UNCHANGED <<spots, closed>>
     \/ /\ spots' = SpotQueued
        /\ closed' \in {closed, TRUE}
  /\ UNCHANGED <<control, pc, msg, written, nControl, passed>>

\* Eviction, Stop or the reader closes the client.
Close ==
  /\ ~closed
  /\ closed' = TRUE
  /\ UNCHANGED <<control, spots, pc, msg, written, offered, passed>>

TakeControl ==
  /\ control # <<>>
  /\ msg' = Head(control) /\ control' = Tail(control)
  /\ pc' = "control"
  /\ UNCHANGED <<spots, closed, written, offered, passed>>

\* Mutant: the loop goes for a spot without draining the control queue.
MutDrained ==
  /\ pc' = "select"
  /\ UNCHANGED <<control, spots, closed, msg, written, offered, passed>>

\* The default case of the inner loop: nothing to drain.
Drained ==
  /\ control = <<>> /\ ~closed
  /\ pc' = "select"
  /\ UNCHANGED <<control, spots, closed, msg, written, offered, passed>>

\* A select that finds `done` closed may take that case whatever else is ready.
Return ==
  /\ closed /\ pc \in {"drain", "select"}
  /\ pc' = "done"
  /\ UNCHANGED <<control, spots, closed, msg, written, offered, passed>>

Drain == pc = "drain" /\ (TakeControl \/ Drained)

SelectControl == pc = "select" /\ TakeControl

SelectSpot ==
  /\ pc = "select" /\ spots # <<>>
  /\ msg' = Head(spots) /\ spots' = Tail(spots)
  /\ passed' = [m \in ControlIds |-> IF Waiting(m) THEN passed[m] + 1 ELSE passed[m]]
  /\ pc' = "spot"
  /\ UNCHANGED <<control, closed, written, offered>>

\* A write fails on a closed connection, and may fail on an open one.
WriteFails ==
  /\ pc \in {"control", "spot"}
  /\ closed' = TRUE /\ pc' = "done" /\ msg' = 0
  /\ UNCHANGED <<control, spots, written, offered, passed>>

\* Mutant: the writer goes on after a farewell.
MutAfterWrite == pc' = "drain" /\ UNCHANGED closed

AfterWrite ==
  IF pc = "control" /\ msg \in Farewells
  THEN closed' = TRUE /\ pc' = "done"
  ELSE pc' = "drain" /\ UNCHANGED closed

\* handleControl and handleSpot after a successful write.
Written ==
  /\ pc \in {"control", "spot"} /\ ~closed
  /\ written' = Append(written, <<pc, msg>>)
  /\ AfterWrite
  /\ msg' = 0
  /\ UNCHANGED <<control, spots, offered, passed>>

writerLoop == Drain \/ SelectControl \/ SelectSpot \/ Return \/ WriteFails \/ Written

Next ==
  \/ enqueueControl
  \/ enqueueSpot
  \/ Close
  \/ Drain
  \/ SelectControl
  \/ SelectSpot
  \/ Return
  \/ WriteFails
  \/ Written

\* The writer goroutine is scheduled; a write ends because it has a deadline.
Spec == Init /\ [][Next]_vars
FairSpec == Spec /\ WF_vars(writerLoop)
-----------------------------------------------------------------------------
TypeOK ==
  /\ control \in Seq(ControlIds) /\ Len(control) <= ControlCap
  /\ spots \in Seq(SpotIds) /\ Len(spots) <= SpotCap
  /\ closed \in BOOLEAN
  /\ pc \in {"drain", "select", "control", "spot", "done"}
  /\ msg \in ControlIds \cup SpotIds \cup {0}
  /\ nControl \in 0 .. MaxControl /\ nSpots \in 0 .. MaxSpots
  /\ written \in Seq({"control", "spot"} \X Nat)
  /\ passed \in [ControlIds -> Nat]

\* However many spots are queued, the writer takes at most one of them while a
\* given control message is waiting: the one its select picked when the message
\* arrived after the drain (writerLoop).
OvertakenAtMostOnce == \A m \in ControlIds : passed[m] <= 1

\* A farewell is the last thing a client reads: what is queued behind it, and
\* what producers add later, is never written (handleControl, closeAfter).
FarewellIsLast ==
  \A i \in 1 .. Len(written) :
     written[i][1] = "control" /\ written[i][2] \in Farewells => i = Len(written)

\* A control message that was accepted is written, unless the client is closed: the
\* spot stream cannot starve it and a full queue cannot lose it.  (Messages are
\* finitely many, so catching up again and again writes each one.)
ControlReachesClient ==
  []<>(closed \/ \A m \in 1 .. nControl : \E i \in 1 .. Len(written) : written[i] = <<"control", m>>)
=============================================================================
