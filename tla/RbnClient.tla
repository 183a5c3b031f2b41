------------------------------ MODULE RbnClient -----------------------------
(***************************************************************************)
(* The connection of a feed client (rbn/client.go): a supervisor dials     *)
(* when a token asks for it; every connection starts goroutines for login, *)
(* keepalives and reading.  They find the connection, the writer and the   *)
(* channel keepaliveDone in fields of the client, which the next           *)
(* connection overwrites.                                                  *)
(*                                                                         *)
(* A number stands for a connection and for what was made with it: its     *)
(* reader and writer, its channel and its goroutines.  Numbers are used    *)
(* again once nothing refers to them.                                      *)
(***************************************************************************)
EXTENDS Integers, TLAPS

CONSTANTS
  Conns,        \* connections alive at one time
  MaxFailures,  \* bound: failures of the network
  PromptClose   \* timing assumption: a dial takes longer than a reader takes to clean up

\* The first connection, that of Connect, is number 1.
FeedConstants == 1 \in Conns

VARIABLES
  cur,          \* c.conn, c.reader, c.writer and c.keepaliveDone
  connected,
  token,        \* the channel c.reconnect
  shutdown,
  sup,          \* the supervisor
  open,         \* connections not closed by either side
  doneClosed,   \* keepaliveDone channels that are closed
  reader,       \* the read loop of each connection ...
  rd,           \* ... and the connection it reads from
  ka, writing,  \* keepalive loops: the channel each waits on; is it writing?
  login,        \* connections whose login waits for the prompt
  logins,       \* how often a callsign was written to each connection
  failures

feed == <<cur, connected, open, doneClosed>>
loops == <<reader, rd>>
keepalive == <<ka, writing>>
logs == <<login, logins>>
vars == <<feed, token, shutdown, sup, loops, keepalive, logs, failures>>

None == 0
Cleanup == {"flag", "channel", "close"}

\* Connect has dialled once.
Init ==
  /\ cur = 1 /\ connected = TRUE /\ open = {1} /\ doneClosed = {}
  /\ token = FALSE /\ shutdown = FALSE /\ sup = "wait" /\ failures = 0
  /\ reader = [i \in Conns |-> IF i = 1 THEN "start" ELSE "none"]
  /\ rd = [i \in Conns |-> None]
  /\ ka = [i \in Conns |-> IF i = 1 THEN 1 ELSE None] /\ writing = {}
  /\ login = {1} /\ logins = [i \in Conns |-> 0]

\* The network loses a connection.
Fail(i) ==
  /\ i \in open /\ failures < MaxFailures
  /\ open' = open \ {i} /\ failures' = failures + 1
  /\ UNCHANGED <<cur, connected, doneClosed, token, shutdown, sup, loops, keepalive, logs>>
-----------------------------------------------------------------------------
\* The head of the loop in readLoop
Loop(i) ==
  /\ reader[i] = "start"
  /\ IF shutdown THEN reader' = [reader EXCEPT ![i] = "flag"] /\ UNCHANGED rd
     ELSE reader' = [reader EXCEPT ![i] = "read"] /\ rd' = [rd EXCEPT ![i] = cur]
  /\ UNCHANGED <<feed, token, shutdown, sup, keepalive, logs, failures>>

\* A line arrives; what is done with it is not modelled.
Line(i) ==
  /\ reader[i] = "read" /\ rd[i] \in open
  /\ reader' = [reader EXCEPT ![i] = "start"]
  /\ UNCHANGED <<rd, feed, token, shutdown, sup, keepalive, logs, failures>>

requestReconnect == token' = (token \/ ~shutdown)

\* The read fails, on a closed connection ...
ReadError(i) ==
  /\ reader[i] = "read" /\ rd[i] \notin open
  /\ requestReconnect
  /\ reader' = [reader EXCEPT ![i] = "flag"]
  /\ UNCHANGED <<rd, feed, shutdown, sup, keepalive, logs, failures>>

\* ... or when the read deadline passes.
Deadline(i) ==
  /\ reader[i] = "read" /\ rd[i] \in open
  /\ shutdown \/ failures < MaxFailures
  /\ failures' = IF shutdown THEN failures ELSE failures + 1
  /\ requestReconnect
  /\ reader' = [reader EXCEPT ![i] = "flag"]
  /\ UNCHANGED <<rd, feed, shutdown, sup, keepalive, logs>>

\* The deferred function of readLoop: connected, then the channel, then the connection
ClearFlag(i) ==
  /\ reader[i] = "flag"
  /\ connected' = FALSE
  /\ reader' = [reader EXCEPT ![i] = "channel"]
  /\ UNCHANGED <<cur, open, doneClosed, rd, token, shutdown, sup, keepalive, logs, failures>>

\* Closing the channel twice panics, which the outer recover answers with a request.
CloseChannel(i) ==
  /\ reader[i] = "channel"
  /\ IF cur \in doneClosed
     THEN requestReconnect /\ reader' = [reader EXCEPT ![i] = "none"] /\ UNCHANGED doneClosed
     ELSE doneClosed' = doneClosed \cup {cur} /\ reader' = [reader EXCEPT ![i] = "close"] /\ UNCHANGED token
  /\ UNCHANGED <<cur, connected, open, rd, shutdown, sup, keepalive, logs, failures>>

\* Mutant: the reader leaves without closing the connection.
MutCloseConn(i) ==
  /\ reader[i] = "close"
  /\ reader' = [reader EXCEPT ![i] = "none"]
  /\ UNCHANGED <<cur, connected, open, doneClosed, rd, token, shutdown, sup, keepalive, logs, failures>>

CloseConn(i) ==
  /\ reader[i] = "close"
  /\ open' = open \ {cur}
  /\ reader' = [reader EXCEPT ![i] = "none"]
  /\ UNCHANGED <<cur, connected, doneClosed, rd, token, shutdown, sup, keepalive, logs, failures>>
-----------------------------------------------------------------------------
\* connectionSupervisor
TakeToken ==
  /\ sup = "wait" /\ token
  /\ token' = FALSE
  /\ sup' = IF shutdown THEN "exit" ELSE "dial"
  /\ UNCHANGED <<feed, shutdown, loops, keepalive, logs, failures>>

SupervisorExit ==
  /\ sup \in {"wait", "delay"} /\ shutdown
  /\ sup' = "exit"
  /\ UNCHANGED <<feed, token, shutdown, loops, keepalive, logs, failures>>

DialFails ==
  /\ sup = "dial" /\ failures < MaxFailures
  /\ failures' = failures + 1 /\ sup' = "delay"
  /\ UNCHANGED <<feed, token, shutdown, loops, keepalive, logs>>

\* The timer of the backoff; the loop then looks for a shutdown first.
Retry ==
  /\ sup = "delay"
  /\ sup' = IF shutdown THEN "exit" ELSE "dial"
  /\ UNCHANGED <<feed, token, shutdown, loops, keepalive, logs, failures>>

Free == {i \in Conns \ (open \cup login \cup {cur}) :
           reader[i] = "none" /\ ka[i] = None /\ \A j \in Conns : ka[j] # i /\ (reader[j] = "read" => rd[j] # i)}

\* The dial succeeds: the fields are overwritten and the goroutines start.
establishConnection ==
  \E i \in Free :
    /\ \A j \in Free : i <= j
    /\ sup = "dial" /\ (PromptClose => \A j \in Conns : reader[j] \notin Cleanup)
    /\ cur' = i /\ open' = open \cup {i} /\ doneClosed' = doneClosed \ {i} /\ connected' = TRUE
    /\ sup' = "wait"
    /\ reader' = [reader EXCEPT ![i] = "start"]
    /\ ka' = [ka EXCEPT ![i] = i]
    /\ login' = login \cup {i} /\ logins' = [logins EXCEPT ![i] = 0]
    /\ UNCHANGED <<token, shutdown, rd, writing, failures>>
-----------------------------------------------------------------------------
\* handleLogin, two seconds after the connection was made
handleLogin(i) ==
  /\ i \in login
  /\ login' = login \ {i}
  /\ logins' = IF cur \in open /\ logins[cur] < 2 THEN [logins EXCEPT ![cur] = @ + 1] ELSE logins
  /\ UNCHANGED <<feed, token, shutdown, sup, loops, keepalive, failures>>

\* keepaliveLoop: a tick, and the write after which it waits on the channel of the day
KeepaliveTick(i) ==
  /\ ka[i] # None /\ i \notin writing
  /\ writing' = writing \cup {i}
  /\ UNCHANGED <<ka, feed, token, shutdown, sup, loops, logs, failures>>

KeepaliveWrite(i) ==
  /\ i \in writing
  /\ writing' = writing \ {i} /\ ka' = [ka EXCEPT ![i] = cur]
  /\ UNCHANGED <<feed, token, shutdown, sup, loops, logs, failures>>

KeepaliveEnd(i) ==
  /\ ka[i] # None /\ i \notin writing /\ (shutdown \/ ka[i] \in doneClosed)
  /\ ka' = [ka EXCEPT ![i] = None]
  /\ UNCHANGED <<writing, feed, token, shutdown, sup, loops, logs, failures>>

Stop ==
  /\ ~shutdown
  /\ shutdown' = TRUE /\ open' = open \ {cur}
  /\ UNCHANGED <<cur, connected, doneClosed, token, sup, loops, keepalive, logs, failures>>

Reader(i) == Loop(i) \/ ReadError(i) \/ ClearFlag(i) \/ CloseChannel(i) \/ CloseConn(i)
Supervisor == TakeToken \/ SupervisorExit \/ Retry \/ establishConnection

Next ==
  \/ \E i \in Conns :
       \/ Fail(i)
       \/ Loop(i) \/ Line(i) \/ ReadError(i) \/ Deadline(i)
       \/ ClearFlag(i) \/ CloseChannel(i) \/ CloseConn(i)
       \/ handleLogin(i) \/ KeepaliveTick(i) \/ KeepaliveWrite(i) \/ KeepaliveEnd(i)
  \/ TakeToken \/ SupervisorExit \/ DialFails \/ Retry \/ establishConnection
  \/ Stop

Spec == Init /\ [][Next]_vars

\* Go runs every goroutine that can run, and a select with a closed channel and a
\* ticker takes the channel at last; the operating system enforces read deadlines,
\* which after Stop end what nobody else will.
FairSpec ==
  /\ Spec /\ WF_vars(Supervisor)
  /\ \A i \in Conns :
       /\ WF_vars(Reader(i)) /\ WF_vars(shutdown /\ Deadline(i))
       /\ WF_vars(KeepaliveWrite(i)) /\ WF_vars(handleLogin(i))
  /\ SF_vars(\E i \in Conns : KeepaliveEnd(i))
-----------------------------------------------------------------------------
TypeOK ==
  /\ cur \in Conns /\ connected \in BOOLEAN /\ token \in BOOLEAN /\ shutdown \in BOOLEAN
  /\ sup \in {"wait", "dial", "delay", "exit"} /\ open \subseteq Conns /\ doneClosed \subseteq Conns
  /\ reader \in [Conns -> {"none", "start", "read"} \cup Cleanup] /\ rd \in [Conns -> Conns \cup {None}]
  /\ ka \in [Conns -> Conns \cup {None}] /\ writing \subseteq Conns
  /\ login \subseteq Conns /\ logins \in [Conns -> 0 .. 2] /\ failures \in 0 .. MaxFailures

Running == {i \in Conns : reader[i] # "none"}

\* When a dial takes longer than the cleanup of the old reader, there is never more
\* than one read loop, and no connection is left open without one.
OneReader == (\A i, j \in Running : i = j) /\ (open # {} => Running # {})

\* Once the network is quiet the client is connected for good: every failure leads to
\* a token, and the supervisor to a connection whose flag says so.
StaysConnected == <>[](shutdown \/ (connected /\ cur \in open))

\* Stop ends the read loops and the keepalive loops for good, also when it meets a dial.
StopEnds == <>[](shutdown => (Running = {} /\ \A i \in Conns : ka[i] = None))

\* "Start login sequence and stream reader for this connection": a reader closes the
\* connection it was started for and no other.
ReaderClosesOwn == [][\A i \in Conns : (reader[i] = "close" /\ open' # open /\ reader'[i] = "none") => cur = i]_vars

-----------------------------------------------------------------------------
(* One read loop at a time, for any number of connections and failures.    *)

\* Read loops before their cleanup, and before they have closed the channel
AtRead == {"start", "read"}
Unclosed == {"start", "read", "flag", "channel"}

\* The inductive invariant: a read loop that reads has nobody asking for a connection beside it,
\* closes a channel that is not closed, and keeps company to the only connection that is open.
FeedInv ==
  /\ reader \in [Conns -> {"none", "start", "read"} \cup Cleanup] /\ token \in BOOLEAN
  /\ \A i, j \in Conns : reader[i] # "none" /\ reader[j] # "none" => i = j
  /\ \A i \in Conns : reader[i] \in AtRead => ~token /\ sup \in {"wait", "exit"}
  /\ \A i \in Conns : reader[i] \in Unclosed => cur \notin doneClosed
  /\ sup \in {"dial", "delay"} => ~token
  /\ open \subseteq {cur}
  /\ open # {} => \E i \in Conns : reader[i] # "none"

\* A read loop goes on to its next step, another one does not run.
LEMMA ReaderMoves ==
  ASSUME FeedInv, NEW i \in Conns, NEW to \in {"start", "read"} \cup Cleanup, reader[i] # "none",
         reader' = [reader EXCEPT ![i] = to],
         UNCHANGED <<cur, sup>>, open' \subseteq open,
         token' = token \/ (to = "flag" /\ reader[i] \in AtRead /\ token' \in BOOLEAN),
         to \in AtRead => reader[i] \in AtRead,
         to \in Unclosed => reader[i] \in Unclosed /\ doneClosed' = doneClosed
  PROVE  FeedInv'
  <1>1. reader'[i] = to /\ (\A j \in Conns : j # i => reader'[j] = "none") /\ to # "none"
    BY DEF FeedInv, Cleanup
  <1>2. reader' \in [Conns -> {"none", "start", "read"} \cup Cleanup] /\ token' \in BOOLEAN
    BY DEF FeedInv
  <1>3. \A j, k \in Conns : reader'[j] # "none" /\ reader'[k] # "none" => j = k
    BY <1>1, Zenon
  <1>4. to \in AtRead => ~token' /\ sup' \in {"wait", "exit"}
    BY DEF FeedInv, AtRead
  <1>5. to \in Unclosed => cur' \notin doneClosed'
    BY DEF FeedInv
  <1>6. sup' \in {"dial", "delay"} => ~token'
    BY DEF FeedInv, AtRead
  <1>7. open' \subseteq {cur'}
    BY DEF FeedInv
  <1>8. "none" \notin AtRead /\ "none" \notin Unclosed
    BY DEF AtRead, Unclosed
  <1> QED BY <1>1, <1>2, <1>3, <1>4, <1>5, <1>6, <1>7, <1>8, Zenon DEF FeedInv

\* Every step of the client
LEMMA FeedStep == ASSUME PromptClose, FeedInv, [Next]_vars PROVE FeedInv'
  <1>1. CASE UNCHANGED <<cur, reader, doneClosed>> /\ open' \subseteq open /\ token' = token
             /\ (sup' = sup \/ sup' = "exit" \/ (sup = "dial" /\ sup' = "delay") \/ (sup = "delay" /\ sup' = "dial"))
    BY <1>1 DEF FeedInv, AtRead
  <1>2. ASSUME NEW i \in Conns, Fail(i) PROVE FeedInv'
    BY <1>1, <1>2 DEF Fail, loops
  <1>3. ASSUME NEW i \in Conns, Loop(i) PROVE FeedInv'
    BY <1>3, ReaderMoves DEF Loop, feed, AtRead, Unclosed, Cleanup
  <1>4. ASSUME NEW i \in Conns, Line(i) PROVE FeedInv'
    BY <1>4, ReaderMoves, Zenon DEF Line, feed, AtRead, Unclosed, Cleanup
  <1>5. ASSUME NEW i \in Conns, ReadError(i) \/ Deadline(i) PROVE FeedInv'
    <2>1. token' \in BOOLEAN
      BY <1>5, Zenon DEF ReadError, Deadline, requestReconnect
    <2> QED BY <1>5, <2>1, ReaderMoves DEF ReadError, Deadline, feed, AtRead, Unclosed, Cleanup
  <1>6. ASSUME NEW i \in Conns, ClearFlag(i) PROVE FeedInv'
    BY <1>6, ReaderMoves, Zenon DEF ClearFlag, AtRead, Unclosed, Cleanup
  <1>7. ASSUME NEW i \in Conns, CloseChannel(i) PROVE FeedInv'
    <2>1. cur \notin doneClosed
      BY <1>7 DEF CloseChannel, FeedInv, Unclosed
    <2> QED BY <1>7, <2>1, ReaderMoves DEF CloseChannel, AtRead, Unclosed, Cleanup
  <1>8. ASSUME NEW i \in Conns, CloseConn(i) PROVE FeedInv'
    <2>1. reader[i] = "close" /\ open' = open \ {cur} /\ reader' = [reader EXCEPT ![i] = "none"]
          /\ UNCHANGED <<cur, doneClosed, token, sup>>
      BY <1>8 DEF CloseConn
    <2>2. open' = {} /\ \A j \in Conns : reader'[j] = "none"
      BY <2>1 DEF FeedInv
    <2>3. reader' \in [Conns -> {"none", "start", "read"} \cup Cleanup]
      BY <2>1 DEF FeedInv
    <2> QED BY <2>1, <2>2, <2>3 DEF FeedInv, AtRead, Unclosed
  <1>9. ASSUME NEW i \in Conns,
               handleLogin(i) \/ KeepaliveTick(i) \/ KeepaliveWrite(i) \/ KeepaliveEnd(i)
        PROVE  FeedInv'
    <2>1. UNCHANGED <<cur, reader, doneClosed, open, token, sup>>
      BY <1>9, Zenon DEF handleLogin, KeepaliveTick, KeepaliveWrite, KeepaliveEnd,
        feed, loops
    <2> QED BY <1>1, <2>1
  <1>10. CASE TakeToken
    <2>1. token /\ token' = FALSE /\ sup' \in {"exit", "dial"} /\ UNCHANGED <<cur, reader, doneClosed, open>>
      BY <1>10 DEF TakeToken, feed, loops
    <2> QED BY <2>1, Zenon DEF FeedInv
  <1>11. CASE SupervisorExit \/ DialFails \/ Retry
    BY <1>1, <1>11 DEF SupervisorExit, DialFails, Retry, feed, loops
  <1>12. CASE establishConnection
    <2>1. PICK i \in Free :
            /\ sup = "dial" /\ (\A j \in Conns : reader[j] \notin Cleanup)
            /\ cur' = i /\ open' = open \cup {i} /\ doneClosed' = doneClosed \ {i} /\ sup' = "wait"
            /\ reader' = [reader EXCEPT ![i] = "start"] /\ token' = token
      BY <1>12, Zenon DEF establishConnection
    <2>2. i \in Conns
      BY DEF Free
    <2>3. \A j \in Conns : reader[j] = "none"
      BY <2>1 DEF FeedInv, AtRead
    <2>4. open = {} /\ ~token
      BY <2>1, <2>3 DEF FeedInv
    <2>5. reader'[i] = "start" /\ \A j \in Conns : j # i => reader'[j] = "none"
      BY <2>1, <2>2, <2>3 DEF FeedInv
    <2>6. reader' \in [Conns -> {"none", "start", "read"} \cup Cleanup]
      BY <2>1, Zenon DEF FeedInv
    <2> QED BY <2>1, <2>2, <2>4, <2>5, <2>6 DEF FeedInv, AtRead, Unclosed
  <1>13. CASE Stop
    BY <1>1, <1>13 DEF Stop, loops
  <1>14. CASE UNCHANGED vars
    BY <1>1, <1>14 DEF vars, feed, loops
  <1> QED
    BY <1>2, <1>3, <1>4, <1>5, <1>6, <1>7, <1>8, <1>9, <1>10, <1>11, <1>12, <1>13, <1>14, Zenon DEF Next

\* The invariant holds for any number of connections and failures, if a read loop has cleaned
\* up by the time the next dial succeeds (readLoop, connectionSupervisor).
THEOREM FeedInvariant == ASSUME FeedConstants, PromptClose PROVE Spec => []FeedInv
  <1>1. Init => FeedInv
    <2> SUFFICES ASSUME Init PROVE FeedInv
      OBVIOUS
    <2>1. 1 \in Conns /\ reader[1] = "start" /\ \A j \in Conns : j # 1 => reader[j] = "none"
      BY DEF Init, FeedConstants
    <2>2. reader \in [Conns -> {"none", "start", "read"} \cup Cleanup]
      BY DEF Init
    <2> QED BY <2>1, <2>2, Zenon DEF Init, FeedInv, AtRead, Unclosed
  <1>2. FeedInv /\ [Next]_vars => FeedInv'
    BY FeedStep
  <1> QED BY <1>1, <1>2, PTL DEF Spec

\* A feed client reads one connection at a time (readLoop, requestReconnect).
THEOREM OneReaderAtATime == ASSUME FeedConstants, PromptClose PROVE Spec => []OneReader
  <1>1. FeedInv => OneReader
    BY DEF FeedInv, OneReader, Running
  <1> QED BY <1>1, FeedInvariant, PTL
=============================================================================
