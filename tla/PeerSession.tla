----------------------------- MODULE PeerSession ----------------------------
(***************************************************************************)
(* One node that dials another and keeps the link up (peer/manager.go,     *)
(* runOutbound and acceptLoop; peer/session.go; peer/backoff.go): dialing  *)
(* with backoff, both sides of the handshake, the session, its end and the *)
(* shutdown of the dialing node.                                           *)
(*                                                                         *)
(* Each connection has a line queue for each direction (write queue and    *)
(* network together).  A session that ends by an error of its read loop    *)
(* leaves its end of the connection open; close() is called only when the  *)
(* handshake fails and by Manager.Stop.                                    *)
(***************************************************************************)
EXTENDS Integers, Sequences

CONSTANTS
  PreferPC9x, Password,   \* settings of the dialing node for this peer
  Base, Limit,            \* newBackoff
  Faults,                 \* whether dials and reads fail and deadlines pass
  MaxConns, MaxSpots      \* bounds: connections, spots sent on each of them

VARIABLES
  loop, cur, delay,   \* runOutbound: where it is, backoff.cur, the last delay
  conns,              \* number of connections so far; the last is the dialer's
  out, in,            \* the session of the dialer and of the acceptor, per connection
  toIn, toOut,        \* lines on their way
  openOut, openIn,    \* the two ends of each connection
  spots,              \* spots sent on each connection
  stopped,            \* Manager.Stop was called at the dialing node
  panicked

loopVars == <<loop, cur, delay, conns>>
lines == <<toIn, toOut>>
ends == <<openOut, openIn>>
vars == <<loopVars, out, in, lines, ends, spots, stopped, panicked>>

Conns == 1 .. MaxConns
Fresh == [st |-> "none", init |-> FALSE, pc9x |-> FALSE]

Init ==
  /\ loop = "dial" /\ cur = Base /\ delay = Base /\ conns = 0
  /\ out = [c \in Conns |-> Fresh] /\ in = [c \in Conns |-> Fresh]
  /\ toIn = [c \in Conns |-> <<>>] /\ toOut = [c \in Conns |-> <<>>]
  /\ openOut = [c \in Conns |-> FALSE] /\ openIn = [c \in Conns |-> FALSE]
  /\ spots = [c \in Conns |-> 0] /\ stopped = FALSE /\ panicked = FALSE

-----------------------------------------------------------------------------
(* runOutbound *)

\* backoff.Next
BackoffNext ==
  IF cur >= Limit THEN delay' = Limit /\ UNCHANGED cur
  ELSE delay' = cur /\ cur' = IF 2 * cur > Limit THEN Limit ELSE 2 * cur

DialFails ==
  /\ Faults /\ loop = "dial" /\ ~stopped
  /\ BackoffNext /\ loop' = "sleep"
  /\ UNCHANGED <<conns, out, in, lines, ends, spots, stopped, panicked>>

\* The dial succeeds: backoff.Reset, and both sides start their session.  The dialer
\* sends its credentials at once, the acceptor its prompt.
Connect ==
  LET c == conns + 1
  IN  /\ loop = "dial" /\ ~stopped /\ c \in Conns
      /\ loop' = "session" /\ cur' = 0 /\ conns' = c
      /\ out' = [out EXCEPT ![c].st = "handshake"]
      /\ in' = [in EXCEPT ![c].st = "login", ![c].pc9x = TRUE]
      /\ toIn' = [toIn EXCEPT ![c] = IF Password THEN <<"call", "password">> ELSE <<"call">>]
      /\ toOut' = [toOut EXCEPT ![c] = <<"login:">>]
      /\ openOut' = [openOut EXCEPT ![c] = TRUE] /\ openIn' = [openIn EXCEPT ![c] = TRUE]
      /\ UNCHANGED <<delay, spots, stopped, panicked>>

\* The session has ended.
SessionEnded ==
  /\ loop = "session" /\ out[conns].st = "ended"
  /\ BackoffNext /\ loop' = "sleep"
  /\ UNCHANGED <<conns, out, in, lines, ends, spots, stopped, panicked>>

Wake ==
  /\ loop = "sleep" /\ loop' = IF stopped THEN "done" ELSE "dial"
  /\ UNCHANGED <<cur, delay, conns, out, in, lines, ends, spots, stopped, panicked>>
-----------------------------------------------------------------------------
(* The handshake *)

\* sendInit
InitLines(pc9x) == IF pc9x THEN <<"PC92", "PC92", "PC20">> ELSE <<"PC19", "PC20">>

\* runOutboundHandshake: what a line does to the session, and what is sent
OutHandshake(s, line) ==
  CASE line = "PC18" -> [s EXCEPT !.pc9x = PreferPC9x, !.init = TRUE]
    [] line = "PC19" /\ ~s.init -> [s EXCEPT !.pc9x = PreferPC9x, !.init = TRUE]
    [] line = "PC22" /\ s.init -> [s EXCEPT !.st = "up"]
    [] line \in {"PC11", "PC61"} /\ s.init -> [s EXCEPT !.st = "up", !.pc9x = @ \/ line = "PC61"]
    [] OTHER -> s

ReadOut(c) ==
  LET s == OutHandshake(out[c], Head(toOut[c]))
  IN  /\ out[c].st \in {"handshake", "up"} /\ openOut[c] /\ toOut[c] # <<>>
      /\ toOut' = [toOut EXCEPT ![c] = Tail(@)]
      /\ IF out[c].st = "handshake"
         THEN /\ out' = [out EXCEPT ![c] = s]
              /\ toIn' = IF s.init /\ ~out[c].init THEN [toIn EXCEPT ![c] = @ \o InitLines(s.pc9x)] ELSE toIn
         ELSE UNCHANGED <<out, toIn>>
      /\ UNCHANGED <<loopVars, in, ends, spots, stopped, panicked>>

\* Mutant: a PC19 does not take back pc9x.
MutInHandshake(s, line) ==
  CASE s.st = "login" -> [s EXCEPT !.st = "init"]
    [] s.st = "init" /\ line = "PC92" -> [s EXCEPT !.pc9x = TRUE]
    [] s.st = "init" /\ line = "PC20" -> [s EXCEPT !.st = "up"]
    [] OTHER -> s

\* runInboundHandshake: the first line is the callsign, then the init frames
InHandshake(s, line) ==
  CASE s.st = "login" -> [s EXCEPT !.st = "init"]
    [] s.st = "init" /\ line = "PC92" -> [s EXCEPT !.pc9x = TRUE]
    [] s.st = "init" /\ line = "PC19" -> [s EXCEPT !.pc9x = FALSE]
    [] s.st = "init" /\ line = "PC20" -> [s EXCEPT !.st = "up"]
    [] OTHER -> s

\* What the acceptor sends on such a step
InReply(old, s) ==
  IF old.st = "login" THEN <<"PC18">>
  ELSE IF old.st = "init" /\ s.st = "up" THEN Append(InitLines(s.pc9x), "PC22")
  ELSE <<>>

ReadIn(c) ==
  LET s == InHandshake(in[c], Head(toIn[c]))
  IN  /\ in[c].st \in {"login", "init", "up"} /\ openIn[c] /\ toIn[c] # <<>>
      /\ toIn' = [toIn EXCEPT ![c] = Tail(@)]
      /\ in' = [in EXCEPT ![c] = s]
      /\ toOut' = [toOut EXCEPT ![c] = @ \o InReply(in[c], s)]
      /\ UNCHANGED <<loopVars, out, ends, spots, stopped, panicked>>

\* allowInbound refuses the callsign: the handshake fails and the session is closed.
Refuse(c) ==
  /\ Faults /\ in[c].st = "login" /\ toIn[c] # <<>>
  /\ in' = [in EXCEPT ![c].st = "ended"] /\ openIn' = [openIn EXCEPT ![c] = FALSE]
  /\ UNCHANGED <<loopVars, out, lines, openOut, spots, stopped, panicked>>
-----------------------------------------------------------------------------
(* Ends of sessions *)

\* A read fails: the other end is closed and nothing is left to read, or the login,
\* init or idle deadline passes.
Dead(lineQueue, otherOpen) == lineQueue = <<>> /\ (Faults \/ ~otherOpen)

\* Run of the dialer: close() after a failed handshake, not after the read loop
EndOut(c) ==
  /\ out[c].st \in {"handshake", "up"}
  /\ ~openOut[c] \/ Dead(toOut[c], openIn[c])
  /\ out' = [out EXCEPT ![c].st = "ended"]
  /\ openOut' = [openOut EXCEPT ![c] = @ /\ out[c].st = "up"]
  /\ UNCHANGED <<loopVars, in, lines, openIn, spots, stopped, panicked>>

\* Run of the acceptor
EndIn(c) ==
  /\ in[c].st \in {"login", "init", "up"}
  /\ Dead(toIn[c], openOut[c])
  /\ in' = [in EXCEPT ![c].st = "ended"]
  /\ openIn' = [openIn EXCEPT ![c] = @ /\ in[c].st = "up"]
  /\ UNCHANGED <<loopVars, out, lines, openOut, spots, stopped, panicked>>

\* Manager.Stop at the dialing node: cancel, and close() of the registered session.
\* The session is registered until its read loop returns.
Stop ==
  /\ ~stopped /\ stopped' = TRUE
  /\ openOut' = [c \in Conns |-> openOut[c] /\ out[c].st # "up"]
  /\ UNCHANGED <<loopVars, out, in, lines, openIn, spots, panicked>>

\* A spot is broadcast to the session if it is registered.  close() has closed the
\* write queue as well: the select of sendLine then picks the cancelled context or
\* the closed queue, which panics.
Broadcast(c) ==
  /\ out[c].st = "up" /\ spots[c] < MaxSpots /\ ~panicked
  /\ spots' = [spots EXCEPT ![c] = @ + 1]
  /\ IF ~stopped THEN UNCHANGED panicked
     ELSE panicked' \in {FALSE, ~openOut[c]}
  /\ toIn' = IF stopped THEN toIn ELSE [toIn EXCEPT ![c] = Append(@, IF out[c].pc9x THEN "PC61" ELSE "PC11")]
  /\ UNCHANGED <<loopVars, out, in, toOut, ends, stopped>>

\* The same at the acceptor
BroadcastIn(c) ==
  /\ in[c].st = "up" /\ spots[c] < MaxSpots
  /\ spots' = [spots EXCEPT ![c] = @ + 1]
  /\ toOut' = [toOut EXCEPT ![c] = Append(@, IF in[c].pc9x THEN "PC61" ELSE "PC11")]
  /\ UNCHANGED <<loopVars, out, in, toIn, ends, stopped, panicked>>

Next ==
  \/ DialFails \/ Connect \/ SessionEnded \/ Wake \/ Stop
  \/ \E c \in Conns : \/ ReadOut(c) \/ ReadIn(c) \/ Refuse(c) \/ EndOut(c) \/ EndIn(c)
                      \/ Broadcast(c) \/ BroadcastIn(c)

Spec == Init /\ [][Next]_vars

\* The dial loop and the goroutines of the sessions are scheduled; deadlines pass.
FairSpec ==
  Spec /\ WF_vars(Connect) /\ WF_vars(SessionEnded \/ Wake)
       /\ \A c \in Conns : WF_vars(ReadOut(c)) /\ WF_vars(ReadIn(c)) /\ WF_vars(EndOut(c)) /\ WF_vars(EndIn(c))
-----------------------------------------------------------------------------
OutStates == {"none", "handshake", "up", "ended"}
InStates == {"none", "login", "init", "up", "ended"}

TypeOK ==
  /\ loop \in {"dial", "session", "sleep", "done"}
  /\ cur \in 0 .. Limit /\ delay \in 0 .. Limit /\ conns \in 0 .. MaxConns
  /\ out \in [Conns -> [st : OutStates, init : BOOLEAN, pc9x : BOOLEAN]]
  /\ in \in [Conns -> [st : InStates, init : {FALSE}, pc9x : BOOLEAN]]
  /\ openOut \in [Conns -> BOOLEAN] /\ openIn \in [Conns -> BOOLEAN]
  /\ spots \in [Conns -> 0 .. MaxSpots] /\ stopped \in BOOLEAN /\ panicked \in BOOLEAN

\* Both sides of an established connection speak the same protocol: what one sends as
\* PC61 or PC11, and which frames it passes on, is what the other expects
\* (runOutboundHandshake against runInboundHandshake).
SameProtocol ==
  \A c \in Conns : out[c].st = "up" /\ in[c].st = "up" => out[c].pc9x = in[c].pc9x

\* Without faults the two handshakes never wait for each other: at last the session comes
\* up on both sides, unless the node is stopped.
BothUp == \E c \in Conns : out[c].st = "up" /\ in[c].st = "up"

\* At last a session whose partner is gone ends, although the partner may never have closed
\* the connection: the idle deadline of the read loop sees to it.
NoOrphan == \A c \in Conns : out[c].st = "ended" => in[c].st = "ended"
=============================================================================
