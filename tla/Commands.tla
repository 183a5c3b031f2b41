------------------------------ MODULE Commands ------------------------------
(***************************************************************************)
(* The command processor (commands/processor.go): the routing of a line by *)
(* the client's dialect, the DX command that posts a human spot, and SHOW  *)
(* DXCC with its index of prefixes.  Sessions run it at the same time, and *)
(* the CTY database may be replaced between two looks at it.               *)
(*                                                                         *)
(* A callsign is a record: the stem, whether the stem ends in TEST,        *)
(* whether there is a slash, and the part after the last dash.  The stem   *)
(* and the flags stand for the normalised string.                          *)
(***************************************************************************)
EXTENDS Integers, Sequences, FiniteSets

CONSTANTS
  Sessions,
  Lines,      \* what the clients type: [verb, arg, fault, dialect, from], with the
              \* call that follows the verb, or what is wrong with the arguments
  CtyOf,      \* per version of the database: call -> [adif, prefix]
  QueueSize,  \* of the deduplicator's input
  MaxLines    \* bound of the model

\* What is wrong with a line is not what a line is answered that is right.
CommandConstants == \A line \in Lines : line.fault \notin {"queued", "dxcc"}

VARIABLES
  cty,      \* the current database's version; 0 before the first is loaded
  index,    \* prefixIndex: the version it was built from, and the map
  session,  \* where each session is inside the processor
  queue,    \* spotInput
  replies,  \* history: what was answered to what
  posted,   \* history: the spots queued
  lines     \* bound on lines

vars == <<cty, index, session, queue, replies, posted, lines>>

Idle == [pc |-> "idle"]

\* The empty call.
NoCall == [stem |-> "", test |-> FALSE, slash |-> FALSE, dash |-> "none"]

(***************************************************************************)
(* Routing.                                                                *)
(***************************************************************************)
\* ProcessCommandForClient and handleShow: which handler a verb reaches.
Route(line) ==
  CASE line.from = NoCall -> "not logged in"
    [] line.verb = "DX" -> "dx"
    [] line.verb = "SHOW/DX" -> IF line.dialect = "cc" THEN "history" ELSE "use SHOW DX"
    [] line.verb = "SHOW DX" -> IF line.dialect = "cc" THEN "use SHOW/DX" ELSE "history"
    [] line.verb = "SHOW MYDX" -> "history"
    [] line.verb = "SHOW DXCC" -> "dxcc"
    [] line.verb = "HELP" -> "help"
    [] line.verb = "SHOW" -> "usage"
    [] line.verb = "BYE" -> "bye"
    [] OTHER -> "unknown command"

\* A line is answered.
Reply(s, line, text, extra) ==
  /\ replies' = replies \union {[line |-> line, text |-> text, extra |-> extra]}
  /\ session' = [session EXCEPT ![s] = Idle]

\* A line that needs neither the database nor the queue.
Plain(s, line) ==
  /\ Route(line) \notin {"dx", "dxcc"}
  /\ Reply(s, line, Route(line), <<>>)
  /\ UNCHANGED <<cty, index, queue, posted>>

(***************************************************************************)
(* DX.                                                                     *)
(***************************************************************************)
\* testSpotterBaseCall: the call looked up for a test spotter, or NoCall.
\* A call that itself ends in TEST is its own base.
testSpotterBaseCall(call) ==
  IF call.slash THEN NoCall
  ELSE IF call.dash = "TEST" \/ (call.dash = "none" /\ call.test) THEN call
  ELSE IF call.dash = "digits" /\ call.test THEN [call EXCEPT !.dash = "none"]
  ELSE NoCall

InCty(version, call) == version # 0 /\ call \in DOMAIN CtyOf[version]

\* handleDX up to the DX's look-up: arguments, frequency, calls, CTY.
BeginDX(s, line) ==
  /\ Route(line) = "dx"
  /\ IF line.fault # "" THEN Reply(s, line, line.fault, <<>>)
     ELSE IF cty # 0 /\ ~InCty(cty, line.arg) THEN Reply(s, line, "unknown DX", <<>>)
     ELSE /\ session' = [session EXCEPT ![s] = [pc |-> "dx", line |-> line, seen |-> cty]]
          /\ UNCHANGED replies
  /\ UNCHANGED <<cty, index, queue, posted>>

IsTest(call) == testSpotterBaseCall(call) # NoCall

\* Why a test spotter is refused, "none" if not.  The database is fetched again.
TestRefusal(call) ==
  IF ~IsTest(call) THEN "none"
  ELSE IF cty = 0 THEN "test call needs CTY"
  ELSE IF ~InCty(cty, testSpotterBaseCall(call)) THEN "test call not in CTY"
  ELSE "none"

\* handleDX from the test spotter's check to the queue.  The reputation
\* gate's verdict is free here; a refused spot is answered with nothing.
EndDX(s) ==
  /\ session[s].pc = "dx"
  /\ LET line == session[s].line
         refusal == TestRefusal(line.from)
         sp == [dx |-> line.arg, from |-> line.from, test |-> IsTest(line.from), seen |-> session[s].seen]
     IN \/ /\ refusal # "none"
           /\ Reply(s, line, refusal, <<>>)
           /\ UNCHANGED <<queue, posted>>
        \/ /\ refusal = "none"
           /\ Reply(s, line, "", <<>>)
           /\ UNCHANGED <<queue, posted>>
        \/ /\ refusal = "none"
           /\ IF Len(queue) < QueueSize
              THEN /\ queue' = Append(queue, sp)
                   /\ posted' = posted \union {[spot |-> sp, at |-> cty]}
                   /\ Reply(s, line, "queued", <<>>)
              ELSE /\ Reply(s, line, "queue full", <<>>)
                   /\ UNCHANGED <<queue, posted>>
  /\ UNCHANGED <<cty, index, lines>>

\* The deduplicator takes a spot.
TakeSpot ==
  /\ queue # <<>>
  /\ queue' = Tail(queue)
  /\ UNCHANGED <<cty, index, session, replies, posted, lines>>

(***************************************************************************)
(* SHOW DXCC.                                                              *)
(***************************************************************************)
\* buildPrefixMap
buildPrefixMap(version) ==
  LET entries == {CtyOf[version][c] : c \in DOMAIN CtyOf[version]}
  IN [a \in {e.adif : e \in entries} |-> {e.prefix : e \in {x \in entries : x.adif = a}}]

\* handleShowDXCC up to the database's answer.
BeginDXCC(s, line) ==
  /\ Route(line) = "dxcc"
  /\ IF line.fault # "" THEN Reply(s, line, line.fault, <<>>)
     ELSE IF cty = 0 THEN Reply(s, line, "CTY not loaded", <<>>)
     ELSE IF ~InCty(cty, line.arg) THEN Reply(s, line, "unknown prefix", <<>>)
     ELSE /\ session' = [session EXCEPT ![s] = [pc |-> "dxcc", line |-> line, seen |-> cty]]
          /\ UNCHANGED replies
  /\ UNCHANGED <<cty, index, queue, posted>>

\* The index is built once.
MutFresh(version) == IF index.db = 0 THEN [db |-> version, map |-> buildPrefixMap(version)] ELSE index

\* prefixIndex.siblings: the index a look-up uses, rebuilt for another database.
Fresh(version) ==
  IF index.db = version THEN index
  ELSE [db |-> version, map |-> buildPrefixMap(version)]

\* handleShowDXCC: the siblings, under the index's lock, and the answer.
EndDXCC(s) ==
  /\ session[s].pc = "dxcc"
  /\ LET version == session[s].seen
         info == CtyOf[version][session[s].line.arg]
         idx == Fresh(version)
         all == IF info.adif \in DOMAIN idx.map THEN idx.map[info.adif] ELSE {}
     IN /\ index' = idx
        /\ Reply(s, session[s].line, "dxcc",
                 <<[version |-> version, info |-> info, others |-> all \ {info.prefix}]>>)
  /\ UNCHANGED <<cty, queue, posted, lines>>

\* The refresh of the CTY database stores a new pointer.
Refresh ==
  /\ cty < Len(CtyOf)
  /\ cty' = cty + 1
  /\ UNCHANGED <<index, session, queue, replies, posted, lines>>

\* A client's line reaches the processor.
Type(s) ==
  \E line \in Lines :
    /\ session[s].pc = "idle"
    /\ lines < MaxLines
    /\ lines' = lines + 1
    /\ Plain(s, line) \/ BeginDX(s, line) \/ BeginDXCC(s, line)

\* NewProcessor
Init ==
  /\ cty = 0
  /\ index = [db |-> 0, map |-> <<>>]
  /\ session = [s \in Sessions |-> Idle]
  /\ queue = <<>>
  /\ replies = {}
  /\ posted = {}
  /\ lines = 0

Next ==
  \/ \E s \in Sessions : Type(s) \/ EndDX(s) \/ EndDXCC(s)
  \/ TakeSpot
  \/ Refresh

Spec == Init /\ [][Next]_vars

-----------------------------------------------------------------------------
\* The answers are true: "queued" is said exactly when a spot of that user
\* and DX went into the queue; a queued spot's DX was in the database the
\* handler looked at, and so was the base call of a spotter marked as test,
\* in the database of that later moment; and SHOW DXCC lists exactly the
\* other prefixes of the entity, in the very database its first line is
\* from, whatever other sessions asked between two refreshes.
AnswersAreTrue ==
  /\ \A r \in replies : r.text = "queued" =>
       \E p \in posted : p.spot.dx = r.line.arg /\ p.spot.from = r.line.from
  /\ \A p \in posted :
       /\ p.spot.seen # 0 => InCty(p.spot.seen, p.spot.dx)
       /\ p.spot.test => InCty(p.at, testSpotterBaseCall(p.spot.from))
  /\ \A r \in replies : r.text = "dxcc" =>
       LET e == r.extra[1]
           all == {CtyOf[e.version][c] : c \in DOMAIN CtyOf[e.version]}
       IN e.others = {x.prefix : x \in {y \in all : y.adif = e.info.adif}} \ {e.info.prefix}
=============================================================================
