----------------------------- MODULE FeedProofs -----------------------------
(***************************************************************************)
(* What comes into the cluster. The command processor, for any sessions,   *)
(* lines and country databases: an answer is true of one database,         *)
(* whichever is loaded meanwhile.                                          *)
(*                                                                         *)
(* The primary deduplicator, for any window, shards and spots: it          *)
(* suppresses a spot only for one accepted within the window. Validation   *)
(* and licence gate, for any country files, licences and spots: what is    *)
(* broadcast was vetted with the call it finally names.                    *)
(*                                                                         *)
(* The link to a peer (PeerSession), for any number of spots, dials and    *)
(* reconnects: both ends of a connection speak the protocol the dialer is  *)
(* configured for.                                                         *)
(***************************************************************************)
EXTENDS Commands, TLAPS

\* A look-up in progress has found its call in the database it goes on with.
Found(e) ==
  /\ e.pc = "dx" => (e.seen # 0 => InCty(e.seen, e.line.arg))
  /\ e.pc = "dxcc" => e.seen # 0

\* The prefix index is that of the database it was built from.
IndexIsBuilt == index.db # 0 => index.map = buildPrefixMap(index.db)

\* The inductive invariant
CommandInv ==
  /\ DOMAIN session = Sessions
  /\ \A s \in Sessions : Found(session[s])
  /\ IndexIsBuilt
  /\ AnswersAreTrue

\* What each kind of answer and of spot has to be
Queued(r, spots) == r.text = "queued" => \E p \in spots : p.spot.dx = r.line.arg /\ p.spot.from = r.line.from
Vetted(p) ==
  /\ p.spot.seen # 0 => InCty(p.spot.seen, p.spot.dx)
  /\ p.spot.test => InCty(p.at, testSpotterBaseCall(p.spot.from))
Siblings(r) ==
  r.text = "dxcc" =>
    LET e == r.extra[1]
        all == {CtyOf[e.version][c] : c \in DOMAIN CtyOf[e.version]}
    IN e.others = {x.prefix : x \in {y \in all : y.adif = e.info.adif}} \ {e.info.prefix}

\* These make up AnswersAreTrue, now
LEMMA TrueAnswers ==
  AnswersAreTrue <=> /\ \A r \in replies : Queued(r, posted)
                     /\ \A p \in posted : Vetted(p)
                     /\ \A r \in replies : Siblings(r)
  BY DEF AnswersAreTrue, Queued, Vetted, Siblings

\* and after a step.
LEMMA TrueAnswersNext ==
  AnswersAreTrue' <=> /\ \A r \in replies' : Queued(r, posted')
                      /\ \A p \in posted' : Vetted(p)
                      /\ \A r \in replies' : Siblings(r)
  BY DEF AnswersAreTrue, Queued, Vetted, Siblings

\* An idle session has found nothing.
LEMMA IdleFound == Found(Idle)
  <1>1. Idle.pc = "idle"
    BY DEF Idle
  <1> QED BY <1>1 DEF Found

\* One answer is added, and possibly the spot it is about.
LEMMA OneReply ==
  ASSUME CommandInv, NEW s \in Sessions, NEW line, NEW text, NEW extra, Reply(s, line, text, extra),
         posted \subseteq posted',
         Queued([line |-> line, text |-> text, extra |-> extra], posted'),
         Siblings([line |-> line, text |-> text, extra |-> extra]),
         \A p \in posted' \ posted : Vetted(p)
  PROVE  /\ DOMAIN session' = Sessions /\ \A u \in Sessions : Found(session'[u])
         /\ AnswersAreTrue'
  <1>1. session' = [session EXCEPT ![s] = Idle]
        /\ replies' = replies \union {[line |-> line, text |-> text, extra |-> extra]}
    BY SMTT(30) DEF Reply
  <1>2. DOMAIN session' = Sessions /\ \A u \in Sessions : Found(session'[u])
    BY <1>1, IdleFound, SMTT(30) DEF CommandInv
  <1>3. \A r \in replies : Queued(r, posted')
    BY TrueAnswers DEF CommandInv, Queued
  <1>4. AnswersAreTrue'
    BY <1>1, <1>3, TrueAnswers, TrueAnswersNext, SMTT(30) DEF CommandInv
  <1> QED BY <1>2, <1>4

\* A line that is refused is answered with its fault and posts nothing.
LEMMA Refused ==
  ASSUME CommandInv, NEW s \in Sessions, NEW line, NEW text, NEW extra, Reply(s, line, text, extra),
         text \notin {"queued", "dxcc"}, UNCHANGED <<index, posted>>
  PROVE  CommandInv'
  <1>1. /\ Queued([line |-> line, text |-> text, extra |-> extra], posted')
        /\ Siblings([line |-> line, text |-> text, extra |-> extra])
    BY DEF Queued, Siblings
  <1> QED BY <1>1, OneReply, SMTT(30) DEF CommandInv, IndexIsBuilt

\* A session that only moves on answers nothing.
LEMMA Advanced ==
  ASSUME CommandInv, NEW s \in Sessions, NEW e, session' = [session EXCEPT ![s] = e], Found(e),
         UNCHANGED <<index, replies, posted>>
  PROVE  CommandInv'
  <1>1. DOMAIN session' = Sessions /\ \A u \in Sessions : Found(session'[u])
    BY SMTT(30) DEF CommandInv
  <1>2. AnswersAreTrue'
    BY TrueAnswers, TrueAnswersNext DEF CommandInv
  <1> QED BY <1>1, <1>2, SMTT(30) DEF CommandInv, IndexIsBuilt

\* A line is read: it is refused, answered at once, or looked up.
LEMMA TypeKeeps ==
  ASSUME CommandConstants, CommandInv, NEW s \in Sessions, Type(s)
  PROVE  CommandInv'
  <1>1. PICK line \in Lines : Plain(s, line) \/ BeginDX(s, line) \/ BeginDXCC(s, line)
    BY DEF Type
  <1>2. line.fault \notin {"queued", "dxcc"}
    BY DEF CommandConstants
  <1>3. CASE Plain(s, line)
    <2>1. Route(line) \notin {"queued", "dxcc"}
      BY <1>3 DEF Plain, Route
    <2> QED BY <1>3, <2>1, Refused DEF Plain
  <1>4. CASE BeginDX(s, line)
    <2> DEFINE e == [pc |-> "dx", line |-> line, seen |-> cty]
    <2>1. \/ Reply(s, line, line.fault, <<>>)
          \/ Reply(s, line, "unknown DX", <<>>)
          \/ (cty # 0 => InCty(cty, line.arg)) /\ session' = [session EXCEPT ![s] = e] /\ UNCHANGED replies
      BY <1>4 DEF BeginDX
    <2>2. e.pc = "dx" /\ e.line = line /\ e.seen = cty /\ UNCHANGED <<index, posted>>
      BY <1>4 DEF BeginDX
    <2> HIDE DEF e
    <2>3. (cty # 0 => InCty(cty, line.arg)) => Found(e)
      BY <2>2, SMTT(30) DEF Found
    <2>4. CASE Reply(s, line, line.fault, <<>>)
      BY <1>2, <2>2, <2>4, Refused
    <2>5. CASE Reply(s, line, "unknown DX", <<>>)
      <3>1. "unknown DX" \notin {"queued", "dxcc"}
        OBVIOUS
      <3> QED BY <2>2, <2>5, <3>1, Refused
    <2> QED BY <2>1, <2>2, <2>3, <2>4, <2>5, Advanced
  <1>5. CASE BeginDXCC(s, line)
    <2> DEFINE e == [pc |-> "dxcc", line |-> line, seen |-> cty]
    <2>1. \/ Reply(s, line, line.fault, <<>>)
          \/ Reply(s, line, "CTY not loaded", <<>>)
          \/ Reply(s, line, "unknown prefix", <<>>)
          \/ cty # 0 /\ session' = [session EXCEPT ![s] = e] /\ UNCHANGED replies
      BY <1>5 DEF BeginDXCC
    <2>2. e.pc = "dxcc" /\ e.seen = cty /\ UNCHANGED <<index, posted>>
      BY <1>5 DEF BeginDXCC
    <2> HIDE DEF e
    <2>3. cty # 0 => Found(e)
      BY <2>2 DEF Found
    <2>4. CASE Reply(s, line, line.fault, <<>>)
      BY <1>2, <2>2, <2>4, Refused
    <2>5. CASE Reply(s, line, "CTY not loaded", <<>>)
      BY <2>2, <2>5, Refused
    <2>6. CASE Reply(s, line, "unknown prefix", <<>>)
      BY <2>2, <2>6, Refused, ZenonT(30)
    <2> QED BY <2>1, <2>2, <2>3, <2>4, <2>5, <2>6, Advanced
  <1> QED BY <1>1, <1>3, <1>4, <1>5, SMTT(30)

\* DX and TEST end: the spot is queued, with what the database says now, or refused.
LEMMA EndDXKeeps == ASSUME CommandInv, NEW s \in Sessions, EndDX(s) PROVE CommandInv'
  <1> DEFINE line == session[s].line
             test == IsTest(line.from)
             sp == [dx |-> line.arg, from |-> line.from, test |-> test, seen |-> session[s].seen]
             p == [spot |-> sp, at |-> cty]
  <1>1. session[s].pc = "dx" /\ UNCHANGED index
    BY ZenonT(30) DEF EndDX
  <1>2. \/ \E text \in {TestRefusal(line.from), "", "queue full"} :
             Reply(s, line, text, <<>>) /\ text \notin {"queued", "dxcc"} /\ UNCHANGED posted
        \/ /\ TestRefusal(line.from) = "none"
           /\ posted' = posted \union {p}
           /\ Reply(s, line, "queued", <<>>)
    <2>1. TestRefusal(line.from) \notin {"queued", "dxcc"}
      BY SMTT(30) DEF TestRefusal
    <2> QED BY <2>1 DEF EndDX
  <1>3. CASE /\ TestRefusal(line.from) = "none" /\ posted' = posted \union {p}
             /\ Reply(s, line, "queued", <<>>)
    <2>1. p.spot.dx = line.arg /\ p.spot.from = line.from /\ p.spot.test = test /\ p.at = cty
          /\ p.spot.seen = session[s].seen
      OBVIOUS
    <2>2. test => InCty(cty, testSpotterBaseCall(line.from))
      BY <1>3 DEF TestRefusal
    <2>3. session[s].seen # 0 => InCty(session[s].seen, line.arg)
      BY <1>1, SMTT(30) DEF CommandInv, Found
    <2> HIDE DEF p, line, test
    <2>4. Vetted(p)
      BY <2>1, <2>2, <2>3 DEF Vetted
    <2> DEFINE r == [line |-> line, text |-> "queued", extra |-> <<>>]
    <2>5. r.text = "queued" /\ r.line = line
      BY SMTT(30)
    <2> HIDE DEF r
    <2>6. Queued(r, posted') /\ Siblings(r)
      BY <1>3, <2>1, <2>5 DEF Queued, Siblings
    <2>7. posted \subseteq posted' /\ \A q \in posted' \ posted : Vetted(q)
      BY <1>3, <2>4
    <2> QED BY <1>1, <1>3, <2>6, <2>7, OneReply, Zenon DEF CommandInv, IndexIsBuilt, r
  <1> QED BY <1>1, <1>2, <1>3, Refused, ZenonT(30)

\* What SHOW DXCC finds in an index, and what the database has
Listed(map, adif) == IF adif \in DOMAIN map THEN map[adif] ELSE {}
Prefixes(version, adif) ==
  {x.prefix : x \in {y \in {CtyOf[version][c] : c \in DOMAIN CtyOf[version]} : y.adif = adif}}

\* They are the same for the index of that database (buildPrefixMap).
LEMMA PrefixesOf ==
  ASSUME NEW version, NEW adif
  PROVE  Listed(buildPrefixMap(version), adif) = Prefixes(version, adif)
  <1> DEFINE map == buildPrefixMap(version)
  <1> DEFINE entries == {CtyOf[version][c] : c \in DOMAIN CtyOf[version]}
  <1>1. map = [a \in {x.adif : x \in entries} |-> {x.prefix : x \in {y \in entries : y.adif = a}}]
    BY Zenon DEF buildPrefixMap
  <1> HIDE DEF entries, map
  <1>2. DOMAIN map = {x.adif : x \in entries}
    BY <1>1, Zenon
  <1>3. CASE adif \in DOMAIN map
    <2>1. map[adif] = {x.prefix : x \in {y \in entries : y.adif = adif}}
      BY <1>1, <1>2, <1>3, Zenon
    <2> QED BY <1>3, <2>1, Zenon DEF entries, map, Listed, Prefixes
  <1>4. CASE adif \notin DOMAIN map
    <2>1. {y \in entries : y.adif = adif} = {}
      BY <1>2, <1>4, Zenon
    <2>2. {x.prefix : x \in {y \in entries : y.adif = adif}} = {}
      BY <2>1, Zenon
    <2> QED BY <1>4, <2>2, Zenon DEF entries, map, Listed, Prefixes
  <1> QED BY <1>3, <1>4

\* DXCC ends with the index of the database that its entry came from, built now if need be.
LEMMA EndDXCCKeeps == ASSUME CommandInv, NEW s \in Sessions, EndDXCC(s) PROVE CommandInv'
  <1> DEFINE version == session[s].seen
             info == CtyOf[version][session[s].line.arg]
             built == Fresh(version)
             all == IF info.adif \in DOMAIN built.map THEN built.map[info.adif] ELSE {}
             e == [version |-> version, info |-> info, others |-> all \ {info.prefix}]
             entries == {CtyOf[version][c] : c \in DOMAIN CtyOf[version]}
  <1>1. /\ session[s].pc = "dxcc" /\ index' = built /\ UNCHANGED posted
        /\ Reply(s, session[s].line, "dxcc", <<e>>)
    BY ZenonT(30) DEF EndDXCC
  <1>2. version # 0
    BY <1>1, ZenonT(30) DEF CommandInv, Found
  <1>3. built.map = buildPrefixMap(version) /\ built.db = version
    BY <1>2 DEF Fresh, CommandInv, IndexIsBuilt
  <1>4. all = {x.prefix : x \in {y \in entries : y.adif = info.adif}}
    <2>1. Listed(built.map, info.adif) = Prefixes(version, info.adif)
      BY <1>3, PrefixesOf, Zenon
    <2> QED BY <2>1, Zenon DEF Listed, Prefixes
  <1> DEFINE r == [line |-> session[s].line, text |-> "dxcc", extra |-> <<e>>]
  <1>5. r.text = "dxcc" /\ r.extra[1] = e
    BY ZenonT(30)
  <1>6. e.version = version /\ e.info = info /\ e.others = all \ {info.prefix}
    BY Zenon
  <1>7. Queued(r, posted') /\ Siblings(r)
    <2>1. entries = {CtyOf[e.version][c] : c \in DOMAIN CtyOf[e.version]}
      BY <1>6, Zenon
    <2> HIDE DEF r, e, all, info, entries, version, built
    <2>2. e.others = {x.prefix : x \in {y \in entries : y.adif = e.info.adif}} \ {e.info.prefix}
      BY <1>4, <1>6
    <2>3. Siblings(r)
      BY <1>5, <2>1, <2>2, SMTT(30) DEF Siblings
    <2> QED BY <1>5, <2>3, SMTT(30) DEF Queued
  <1>8. IndexIsBuilt'
    <2> HIDE DEF built, version
    <2> QED BY <1>1, <1>3, ZenonT(30) DEF IndexIsBuilt
  <1>9. /\ DOMAIN session' = Sessions /\ \A u \in Sessions : Found(session'[u])
        /\ AnswersAreTrue'
    <2> HIDE DEF e
    <2> QED BY <1>1, <1>7, OneReply
  <1> QED BY <1>8, <1>9, SMTT(30) DEF CommandInv

\* The inductive invariant holds in every reachable state, for any number of sessions, lines
\* and databases (commands/processor.go).
THEOREM CommandInvariant == ASSUME CommandConstants PROVE Spec => []CommandInv
  <1>1. Init => CommandInv
    <2> SUFFICES ASSUME Init PROVE CommandInv
      OBVIOUS
    <2>1. index.db = 0
      BY DEF Init
    <2>2. DOMAIN session = Sessions /\ \A s \in Sessions : Found(session[s])
      BY IdleFound, SMTT(30) DEF Init
    <2>3. AnswersAreTrue
      BY DEF Init, AnswersAreTrue
    <2> QED BY <2>1, <2>2, <2>3 DEF CommandInv, IndexIsBuilt
  <1>2. CommandInv /\ [Next]_vars => CommandInv'
    <2> SUFFICES ASSUME CommandInv, [Next]_vars PROVE CommandInv'
      OBVIOUS
    <2>1. CASE TakeSpot \/ Refresh \/ UNCHANGED vars
      <3>1. UNCHANGED <<index, session, replies, posted>>
        BY <2>1 DEF TakeSpot, Refresh, vars
      <3> QED BY <3>1, TrueAnswers, TrueAnswersNext DEF CommandInv, IndexIsBuilt
    <2> QED BY <2>1, TypeKeeps, EndDXKeeps, EndDXCCKeeps DEF Next
  <1> QED BY <1>1, <1>2, PTL DEF Spec

\* Whatever database is loaded meanwhile, an answer is true of one database: a "queued" of a
\* spot that was, a posted spot of its calls, siblings of their entity (handleDX, handleShowDXCC).
THEOREM AnswersTrue == ASSUME CommandConstants PROVE Spec => []AnswersAreTrue
  <1>1. CommandInv => AnswersAreTrue
    BY DEF CommandInv
  <1> QED BY <1>1, CommandInvariant, PTL

-----------------------------------------------------------------------------
(* One link between two peers *)
CONSTANTS PreferPC9x, Password, Least, Most, Faults, MaxConns, LinkSpots

VARIABLES loop, backoff, delay, conns, out, in, toIn, toOut, openOut, openIn, linkSpots, stopped,
  panicked

Link == INSTANCE PeerSession WITH MaxSpots <- LinkSpots, spots <- linkSpots, Base <- Least, Limit <-
  Most, cur <- backoff

\* What the constants of the model are
LinkConstants == PreferPC9x \in BOOLEAN /\ MaxConns \in Nat

\* The lines of the two directions
LinesIn == {"call", "password", "PC92", "PC19", "PC20", "PC61", "PC11"}
LinesOut == {"login:", "PC18", "PC92", "PC19", "PC20", "PC22", "PC61", "PC11"}

\* The states and queues of the two ends
LinkTypes ==
  /\ conns \in 0 .. MaxConns
  /\ out \in [Link!Conns -> [st : Link!OutStates, init : BOOLEAN, pc9x : BOOLEAN]]
  /\ in \in [Link!Conns -> [st : Link!InStates, init : {FALSE}, pc9x : BOOLEAN]]
  /\ toIn \in [Link!Conns -> Seq(LinesIn)] /\ toOut \in [Link!Conns -> Seq(LinesOut)]

\* The frame that tells the acceptor the dialer's protocol, and the one that would deny it
Tells == IF PreferPC9x THEN "PC92" ELSE "PC19"
Denies == IF PreferPC9x THEN "PC19" ELSE "PC92"

\* One connection, with its dialer's session, its acceptor's and the two line queues: a
\* dialer that has sent its init frames has its configured protocol; the acceptor has it
\* when it is up, and before that will have read of it when it comes to the PC20.
Agreed(o, s, ti, to) ==
  /\ o.init => o.pc9x = PreferPC9x
  /\ o.st = "none" => ~o.init
  /\ o.st = "up" => o.init
  /\ s.st = "up" => s.pc9x = PreferPC9x
  /\ s.st = "login" => ti # <<>> /\ ti[1] = "call"
  /\ \A i \in 1 .. Len(ti) : ti[i] # Denies
  /\ s.st \in {"login", "init"} /\ s.pc9x # PreferPC9x =>
       \A i \in 1 .. Len(ti) : ti[i] = "PC20" => \E j \in 1 .. i - 1 : ti[j] = Tells
  /\ s.st \in {"login", "init"} /\ PreferPC9x => s.pc9x
  /\ \A i \in 1 .. Len(to) : to[i] = "PC61" => PreferPC9x

\* Connections that were not made yet are blank, and on every other the two ends agree.
LinkInv ==
  /\ LinkTypes
  /\ \A c \in Link!Conns : c > conns => out[c] = Link!Fresh /\ in[c] = Link!Fresh
  /\ \A c \in Link!Conns : Agreed(out[c], in[c], toIn[c], toOut[c])

\* At first no connection is open.
LEMMA LinkInit ==
  ASSUME LinkConstants, Link!Init
  PROVE  LinkInv
  <1>1. LinkTypes
    BY DEF Link!Init, LinkConstants, LinkTypes, Link!Fresh, Link!OutStates, Link!InStates, Link!Conns
  <1>2. \A c \in Link!Conns : out[c] = Link!Fresh /\ in[c] = Link!Fresh /\ toIn[c] = <<>> /\ toOut[c] = <<>>
    BY DEF Link!Init
  <1>3. Agreed(Link!Fresh, Link!Fresh, <<>>, <<>>)
    BY DEF Agreed, Link!Fresh
  <1> QED
    BY <1>1, <1>2, <1>3 DEF LinkInv

\* What is left of the lines to the acceptor when one is read
LEMMA LinesLeft ==
  ASSUME NEW S, NEW q \in Seq(S), q # <<>>
  PROVE  /\ Head(q) = q[1] /\ q[1] \in S /\ Tail(q) \in Seq(S)
         /\ Len(q) \in Nat /\ Len(q) >= 1 /\ Len(Tail(q)) = Len(q) - 1
         /\ \A i \in 1 .. Len(q) - 1 : Tail(q)[i] = q[i + 1]
  OBVIOUS

\* What two queues hold together
Joined(S, q, r, b) ==
  /\ b \in Seq(S) /\ Len(q) \in Nat /\ Len(r) \in Nat /\ Len(b) = Len(q) + Len(r)
  /\ \A i \in 1 .. Len(q) : b[i] = q[i]
  /\ \A i \in 1 .. Len(r) : b[Len(q) + i] = r[i]
  /\ \A i \in 1 .. Len(b) : i \in 1 .. Len(q) \/ \E j \in 1 .. Len(r) : i = Len(q) + j

\* Lines appended to a queue come after those it held.
LEMMA LinesJoined ==
  ASSUME NEW S, NEW q \in Seq(S), NEW r \in Seq(S)
  PROVE  Joined(S, q, r, q \o r)
  <1>1. /\ q \o r \in Seq(S) /\ Len(q) \in Nat /\ Len(r) \in Nat /\ Len(q \o r) = Len(q) + Len(r)
    OBVIOUS
  <1>2. \A i \in 1 .. Len(q) : (q \o r)[i] = q[i]
    OBVIOUS
  <1>3. \A i \in 1 .. Len(r) : (q \o r)[Len(q) + i] = r[i]
    OBVIOUS
  <1>4. \A i \in 1 .. Len(q \o r) : i \in 1 .. Len(q) \/ \E j \in 1 .. Len(r) : i = Len(q) + j
    <2>1. \A m, n \in Nat : \A i \in 1 .. m + n : i \in 1 .. m \/ \E j \in 1 .. n : i = m + j
      <3> TAKE m, n \in Nat
      <3> TAKE i \in 1 .. m + n
      <3>1. CASE i > m
        <4>1. i - m \in 1 .. n /\ i = m + (i - m)
          BY <3>1
        <4> QED
          BY <4>1
      <3> QED
        BY <3>1
    <2>2. \A i \in 1 .. Len(q) + Len(r) : i \in 1 .. Len(q) \/ \E j \in 1 .. Len(r) : i = Len(q) + j
      BY <2>1, <1>1, Zenon
    <2> QED
      BY <2>2, <1>1, Zenon
  <1> QED
    BY <1>1, <1>2, <1>3, <1>4, Zenon DEF Joined

\* The acceptor reads a line of its queue.
LEMMA InStepAgrees ==
  ASSUME LinkConstants,
         NEW o, NEW s \in [st : Link!InStates, init : {FALSE}, pc9x : BOOLEAN],
         NEW ti \in Seq(LinesIn), NEW to, ti # <<>>, s.st \in {"login", "init", "up"},
         Agreed(o, s, ti, to)
  PROVE  /\ Link!InHandshake(s, Head(ti)) \in [st : Link!InStates, init : {FALSE}, pc9x : BOOLEAN]
         /\ Agreed(o, Link!InHandshake(s, Head(ti)), Tail(ti), to)
  <1> DEFINE n == Link!InHandshake(s, Head(ti))
             q == Tail(ti)
  <1>0. /\ Head(ti) = ti[1] /\ q \in Seq(LinesIn) /\ Len(ti) \in Nat /\ Len(ti) >= 1 /\ Len(q) = Len(ti) - 1
        /\ \A i \in 1 .. Len(ti) - 1 : q[i] = ti[i + 1]
    BY LinesLeft
  <1>1. n \in [st : Link!InStates, init : {FALSE}, pc9x : BOOLEAN]
    BY Zenon DEF Link!InHandshake, Link!InStates
  <1>2. \A i \in 1 .. Len(q) : q[i] # Denies
    BY <1>0 DEF Agreed
  <1>3. n.st = "up" => n.pc9x = PreferPC9x
    <2>1. CASE s.st = "init" /\ Head(ti) = "PC20"
      <3>1. n.pc9x = s.pc9x
        BY <2>1 DEF Link!InHandshake
      <3>2. 1 \in 1 .. Len(ti) /\ ti[1] = "PC20" /\ ~\E j \in 1 .. 1 - 1 : TRUE
        BY <1>0, <2>1
      <3> QED
        BY <3>1, <3>2, <2>1 DEF Agreed
    <2>2. CASE s.st = "up"
      BY <2>2 DEF Link!InHandshake, Agreed
    <2>3. CASE s.st = "login" \/ (s.st = "init" /\ Head(ti) # "PC20")
      BY <2>3 DEF Link!InHandshake
    <2> QED
      BY <2>1, <2>2, <2>3
  <1>4. n.st # "login"
    BY DEF Link!InHandshake
  <1>5. n.st = "init" /\ PreferPC9x => n.pc9x
    <2>1. ti[1] # Denies
      BY <1>0 DEF Agreed
    <2> QED
      BY <1>0, <2>1 DEF Link!InHandshake, Agreed, Denies
  <1>6. ASSUME n.st = "init", n.pc9x # PreferPC9x, NEW i \in 1 .. Len(q), q[i] = "PC20"
        PROVE  \E j \in 1 .. i - 1 : q[j] = Tells
    <2>1. s.st \in {"login", "init"} /\ ti[1] # "PC20"
      BY <1>6, <1>0 DEF Link!InHandshake, Agreed
    <2>2. s.pc9x # PreferPC9x
      <3>1. ~PreferPC9x /\ n.pc9x
        BY <1>1, <1>5, <1>6 DEF LinkConstants
      <3>2. ti[1] # "PC92"
        BY <1>0, <3>1 DEF Agreed, Denies
      <3>3. n.pc9x = s.pc9x \/ n.pc9x = FALSE
        BY <3>2, <1>0 DEF Link!InHandshake
      <3> QED
        BY <3>1, <3>3, <1>6
    <2>3. PICK k \in 1 .. (i + 1) - 1 : ti[k] = Tells
      BY <1>6, <1>0, <2>1, <2>2 DEF Agreed
    <2>4. k # 1
      <3>1. SUFFICES ti[1] # Tells
        BY <2>3
      <3>2. CASE s.st = "login"
        BY <3>2 DEF Agreed, Tells
      <3>3. CASE s.st = "init"
        BY <3>3, <1>6, <1>0, <2>2, Zenon DEF Link!InHandshake, Tells, LinkConstants
      <3> QED
        BY <3>2, <3>3, <2>1
    <2> QED
      BY <2>3, <2>4, <1>0
  <1> HIDE DEF n, q
  <1>7. Agreed(o, n, q, to)
    BY <1>2, <1>3, <1>4, <1>5, <1>6 DEF Agreed
  <1> QED
    BY <1>1, <1>7, Zenon DEF n, q

\* The dialer sends lines: an init that tells its protocol before the PC20, or a spot.
LEMMA SentAgrees ==
  ASSUME NEW o, NEW s, NEW ti \in Seq(LinesIn), NEW to, NEW r \in Seq(LinesIn),
         Agreed(o, s, ti, to),
         \A i \in 1 .. Len(r) : r[i] # Denies,
         \A i \in 1 .. Len(r) : r[i] = "PC20" => \E j \in 1 .. i - 1 : r[j] = Tells
  PROVE  ti \o r \in Seq(LinesIn) /\ Agreed(o, s, ti \o r, to)
  <1> DEFINE q == ti \o r
  <1>j. Joined(LinesIn, ti, r, q)
    BY LinesJoined
  <1> HIDE DEF q
  <1>0. /\ q \in Seq(LinesIn) /\ Len(ti) \in Nat /\ Len(r) \in Nat /\ Len(q) = Len(ti) + Len(r)
        /\ \A i \in 1 .. Len(ti) : q[i] = ti[i]
        /\ \A i \in 1 .. Len(r) : q[Len(ti) + i] = r[i]
        /\ \A i \in 1 .. Len(q) : i \in 1 .. Len(ti) \/ \E j \in 1 .. Len(r) : i = Len(ti) + j
    BY <1>j, Zenon DEF Joined
  <1>1. \A i \in 1 .. Len(q) : q[i] # Denies
    <2>1. \A i \in 1 .. Len(ti) : ti[i] # Denies
      BY DEF Agreed
    <2> TAKE i \in 1 .. Len(q)
    <2>2. CASE i \in 1 .. Len(ti)
      BY <1>0, <2>1, <2>2, Zenon
    <2>3. ASSUME NEW j \in 1 .. Len(r), i = Len(ti) + j
          PROVE  q[i] # Denies
      <3>1. q[i] = r[j]
        BY <1>0, <2>3, Zenon
      <3> QED
        BY <3>1, Zenon
    <2>4. i \in 1 .. Len(ti) \/ \E j \in 1 .. Len(r) : i = Len(ti) + j
      BY <1>0, Zenon
    <2> QED
      BY <2>2, <2>3, <2>4, Zenon
  <1>2. ASSUME s.st \in {"login", "init"}, s.pc9x # PreferPC9x, NEW i \in 1 .. Len(q), q[i] = "PC20"
        PROVE  \E j \in 1 .. i - 1 : q[j] = Tells
    <2>1. CASE i \in 1 .. Len(ti)
      <3>1. PICK j \in 1 .. i - 1 : ti[j] = Tells
        BY <1>0, <1>2, <2>1 DEF Agreed
      <3>2. j \in 1 .. Len(ti)
        BY <1>0, <2>1
      <3> QED
        BY <1>0, <3>1, <3>2, SMTT(30)
    <2>2. ASSUME NEW k \in 1 .. Len(r), i = Len(ti) + k
          PROVE  \E j \in 1 .. i - 1 : q[j] = Tells
      <3>1. PICK j \in 1 .. k - 1 : r[j] = Tells
        BY <1>0, <1>2, <2>2, Zenon
      <3>2. j \in 1 .. Len(r) /\ Len(ti) + j \in 1 .. i - 1
        BY <1>0, <2>2
      <3> QED
        BY <1>0, <3>1, <3>2
    <2> QED
      BY <1>0, <2>1, <2>2
  <1>3. s.st = "login" => q # <<>> /\ q[1] = "call"
    <2> SUFFICES ASSUME s.st = "login" PROVE q # <<>> /\ q[1] = "call"
      OBVIOUS
    <2>1. ti # <<>> /\ ti[1] = "call"
      BY DEF Agreed
    <2>2. Len(ti) > 0
      BY <2>1
    <2> QED
      BY <1>0, <2>1, <2>2
  <1>4. Agreed(o, s, q, to)
    BY <1>1, <1>2, <1>3 DEF Agreed
  <1> QED
    BY <1>0, <1>4 DEF q

\* The acceptor sends lines: a PC61 only when that is the dialer's protocol.
LEMMA RepliedAgrees ==
  ASSUME NEW o, NEW s, NEW ti, NEW to \in Seq(LinesOut), NEW r \in Seq(LinesOut),
         Agreed(o, s, ti, to),
         \A i \in 1 .. Len(r) : r[i] = "PC61" => PreferPC9x
  PROVE  to \o r \in Seq(LinesOut) /\ Agreed(o, s, ti, to \o r)
  <1> DEFINE q == to \o r
  <1>j. Joined(LinesOut, to, r, q)
    BY LinesJoined
  <1> HIDE DEF q
  <1>0. /\ q \in Seq(LinesOut) /\ Len(to) \in Nat /\ Len(r) \in Nat /\ Len(q) = Len(to) + Len(r)
        /\ \A i \in 1 .. Len(to) : q[i] = to[i]
        /\ \A i \in 1 .. Len(r) : q[Len(to) + i] = r[i]
        /\ \A i \in 1 .. Len(q) : i \in 1 .. Len(to) \/ \E j \in 1 .. Len(r) : i = Len(to) + j
    BY <1>j, Zenon DEF Joined
  <1>1. \A i \in 1 .. Len(q) : q[i] = "PC61" => PreferPC9x
    <2>1. \A i \in 1 .. Len(to) : to[i] = "PC61" => PreferPC9x
      BY DEF Agreed
    <2> TAKE i \in 1 .. Len(q)
    <2>2. CASE i \in 1 .. Len(to)
      BY <1>0, <2>1, <2>2, Zenon
    <2>3. ASSUME NEW j \in 1 .. Len(r), i = Len(to) + j
          PROVE  q[i] = "PC61" => PreferPC9x
      <3>1. q[i] = r[j]
        BY <1>0, <2>3, Zenon
      <3> QED
        BY <3>1, Zenon
    <2>4. i \in 1 .. Len(to) \/ \E j \in 1 .. Len(r) : i = Len(to) + j
      BY <1>0, Zenon
    <2> QED
      BY <2>2, <2>3, <2>4, Zenon
  <1>2. Agreed(o, s, ti, q)
    BY <1>1 DEF Agreed
  <1> QED
    BY <1>0, <1>2 DEF q

\* The dialer reads a line of its queue.
LEMMA OutStepAgrees ==
  ASSUME LinkConstants,
         NEW o \in [st : Link!OutStates, init : BOOLEAN, pc9x : BOOLEAN], NEW s, NEW ti,
         NEW to \in Seq(LinesOut), to # <<>>, o.st \in {"handshake", "up"},
         Agreed(o, s, ti, to)
  PROVE  /\ Tail(to) \in Seq(LinesOut) /\ Agreed(o, s, ti, Tail(to))
         /\ Link!OutHandshake(o, Head(to)) \in [st : Link!OutStates, init : BOOLEAN, pc9x : BOOLEAN]
         /\ o.st = "handshake" => Agreed(Link!OutHandshake(o, Head(to)), s, ti, Tail(to))
  <1> DEFINE n == Link!OutHandshake(o, Head(to))
             q == Tail(to)
  <1>0. /\ Head(to) = to[1] /\ q \in Seq(LinesOut) /\ Len(to) \in Nat /\ Len(to) >= 1 /\ Len(q) = Len(to) - 1
        /\ \A i \in 1 .. Len(to) - 1 : q[i] = to[i + 1]
    BY LinesLeft
  <1>1. n \in [st : Link!OutStates, init : BOOLEAN, pc9x : BOOLEAN]
    BY Zenon DEF Link!OutHandshake, Link!OutStates, LinkConstants
  <1>2. \A i \in 1 .. Len(q) : q[i] = "PC61" => PreferPC9x
    BY <1>0 DEF Agreed
  <1>3. Agreed(o, s, ti, q)
    BY <1>2 DEF Agreed
  <1>4. ASSUME o.st = "handshake"
        PROVE  /\ n.init => n.pc9x = PreferPC9x
               /\ n.st \in {"handshake", "up"}
               /\ n.st = "up" => n.init
    <2>1. Head(to) = "PC61" => PreferPC9x
      BY <1>0 DEF Agreed
    <2>2. o.init => o.pc9x = PreferPC9x
      BY DEF Agreed
    <2> QED
      BY <1>4, <2>1, <2>2 DEF Link!OutHandshake, LinkConstants
  <1> HIDE DEF n, q
  <1>5. o.st = "handshake" => Agreed(n, s, ti, q)
    BY <1>3, <1>4 DEF Agreed
  <1> QED
    BY <1>0, <1>1, <1>3, <1>5 DEF n, q

\* The init frames of the dialer tell its protocol, and only then end.
LEMMA InitTells ==
  ASSUME LinkConstants
  PROVE  /\ Link!InitLines(PreferPC9x) \in Seq(LinesIn)
         /\ \A i \in 1 .. Len(Link!InitLines(PreferPC9x)) : Link!InitLines(PreferPC9x)[i] # Denies
         /\ \A i \in 1 .. Len(Link!InitLines(PreferPC9x)) :
              Link!InitLines(PreferPC9x)[i] = "PC20" => \E j \in 1 .. i - 1 : Link!InitLines(PreferPC9x)[j] = Tells
  <1>1. CASE PreferPC9x
    BY <1>1 DEF Link!InitLines, LinesIn, Denies, Tells
  <1>2. CASE ~PreferPC9x
    BY <1>2 DEF Link!InitLines, LinesIn, Denies, Tells
  <1> QED
    BY <1>1, <1>2

\* What the acceptor answers names no spot.
LEMMA ReplyNoSpot ==
  ASSUME NEW old, NEW s
  PROVE  /\ Link!InReply(old, s) \in Seq(LinesOut)
         /\ \A i \in 1 .. Len(Link!InReply(old, s)) : Link!InReply(old, s)[i] # "PC61"
  <1>1. CASE Link!InReply(old, s) = <<"PC18">>
    BY <1>1 DEF LinesOut
  <1>2. CASE Link!InReply(old, s) = <<>>
    BY <1>2
  <1>3. CASE Link!InReply(old, s) = Append(Link!InitLines(TRUE), "PC22")
    BY <1>3 DEF LinesOut, Link!InitLines
  <1>4. CASE Link!InReply(old, s) = Append(Link!InitLines(FALSE), "PC22")
    BY <1>4 DEF LinesOut, Link!InitLines
  <1> QED
    BY <1>1, <1>2, <1>3, <1>4 DEF Link!InReply, Link!InitLines

\* A step keeps the invariant when it does so for the connection it is about.
LEMMA OneLink ==
  ASSUME LinkInv, LinkTypes', conns' = conns, NEW c \in Link!Conns, c <= conns,
         \A d \in Link!Conns \ {c} : out'[d] = out[d] /\ in'[d] = in[d] /\ toIn'[d] = toIn[d] /\ toOut'[d] = toOut[d],
         Agreed(out'[c], in'[c], toIn'[c], toOut'[c])
  PROVE  LinkInv'
  <1>1. \A d \in Link!Conns : d > conns => d # c
    BY DEF Link!Conns, LinkInv, LinkTypes
  <1> QED
    BY <1>1, Zenon DEF LinkInv

\* A session that has begun is of a connection made so far.
LEMMA LinkMade ==
  ASSUME LinkConstants, LinkInv, NEW c \in Link!Conns, out[c].st # "none" \/ in[c].st # "none"
  PROVE  c <= conns
  BY DEF LinkInv, LinkTypes, LinkConstants, Link!Conns, Link!Fresh

\* The first lines of a connection
LEMMA FirstLinesAgree ==
  ASSUME NEW o, NEW s, NEW ti \in {<<"call", "password">>, <<"call">>}, NEW to, to = <<"login:">>,
         o.st = "handshake", ~o.init, s.st = "login", s.pc9x = TRUE
  PROVE  Agreed(o, s, ti, to)
  <1>1. ti # <<>> /\ ti[1] = "call" /\ \A i \in 1 .. Len(ti) : ti[i] \in {"call", "password"}
    OBVIOUS
  <1>2. \A i \in 1 .. Len(to) : to[i] = "login:"
    OBVIOUS
  <1>3. Denies \in {"PC19", "PC92"}
    BY DEF Denies
  <1> QED
    BY <1>1, <1>2, <1>3, Zenon DEF Agreed

\* Every step keeps the invariant.
LEMMA LinkNext ==
  ASSUME LinkConstants, LinkInv, [Link!Next]_(Link!vars)
  PROVE  LinkInv'
  <1>0. /\ LinkTypes /\ conns \in 0 .. MaxConns
        /\ \A c \in Link!Conns : c > conns => out[c] = Link!Fresh /\ in[c] = Link!Fresh
        /\ \A c \in Link!Conns : Agreed(out[c], in[c], toIn[c], toOut[c])
    BY Zenon DEF LinkInv, LinkTypes
  <1>s. ASSUME UNCHANGED <<conns, out, in, Link!lines>>
        PROVE  LinkInv'
    BY <1>s, <1>0, Zenon DEF LinkInv, LinkTypes, Link!lines
  <1>1. CASE Link!DialFails
    BY <1>1, <1>s DEF Link!DialFails, Link!lines
  <1>2. CASE Link!Connect
    <2> DEFINE c == conns + 1
    <2>1. /\ c \in Link!Conns /\ conns' = c /\ c > conns
          /\ out' = [out EXCEPT ![c].st = "handshake"]
          /\ in' = [in EXCEPT ![c].st = "login", ![c].pc9x = TRUE]
          /\ toIn' = [toIn EXCEPT ![c] = IF Password THEN <<"call", "password">> ELSE <<"call">>]
          /\ toOut' = [toOut EXCEPT ![c] = <<"login:">>]
      BY <1>2, <1>0 DEF Link!Connect
    <2>2. out[c] = Link!Fresh /\ in[c] = Link!Fresh
      BY <2>1, <1>0
    <2> HIDE DEF c
    <2>3. /\ out'[c] = [Link!Fresh EXCEPT !.st = "handshake"]
          /\ in'[c] = [Link!Fresh EXCEPT !.st = "login", !.pc9x = TRUE]
      BY <2>1, <2>2, <1>0 DEF LinkTypes
    <2>4. /\ toIn'[c] \in {<<"call", "password">>, <<"call">>}
          /\ toOut'[c] = <<"login:">>
      BY <2>1, <1>0 DEF LinkTypes
    <2>5. \A d \in Link!Conns \ {c} : out'[d] = out[d] /\ in'[d] = in[d] /\ toIn'[d] = toIn[d] /\ toOut'[d] = toOut[d]
      BY <2>1, <1>0 DEF LinkTypes
    <2>6. conns' \in 0 .. MaxConns
      BY <2>1, <1>0 DEF Link!Conns, LinkConstants
    <2>7. /\ out' \in [Link!Conns -> [st : Link!OutStates, init : BOOLEAN, pc9x : BOOLEAN]]
          /\ in' \in [Link!Conns -> [st : Link!InStates, init : {FALSE}, pc9x : BOOLEAN]]
      <3>1. "handshake" \in Link!OutStates /\ "login" \in Link!InStates
        BY DEF Link!OutStates, Link!InStates
      <3>2. out' \in [Link!Conns -> [st : Link!OutStates, init : BOOLEAN, pc9x : BOOLEAN]]
        BY <2>1, <1>0, <3>1, ZenonT(30) DEF LinkTypes
      <3>3. in' \in [Link!Conns -> [st : Link!InStates, init : {FALSE}, pc9x : BOOLEAN]]
        BY <2>1, <1>0, <3>1, ZenonT(30) DEF LinkTypes
      <3> QED BY <3>2, <3>3, Zenon
    <2>8. <<"call", "password">> \in Seq(LinesIn) /\ <<"call">> \in Seq(LinesIn) /\ <<"login:">> \in Seq(LinesOut)
      BY DEF LinesIn, LinesOut
    <2>9. toIn' \in [Link!Conns -> Seq(LinesIn)] /\ toOut' \in [Link!Conns -> Seq(LinesOut)]
      BY <2>1, <2>8, <1>0 DEF LinkTypes
    <2>10. /\ out'[c].st = "handshake" /\ ~out'[c].init
           /\ in'[c].st = "login" /\ in'[c].pc9x = TRUE
      BY <2>3 DEF Link!Fresh
    <2>12. Agreed(out'[c], in'[c], toIn'[c], toOut'[c])
      BY <2>4, <2>10, FirstLinesAgree, Zenon
    <2>13. \A d \in Link!Conns : d > c => d > conns /\ d # c
      BY <2>1, <1>0 DEF Link!Conns
    <2>14. LinkTypes'
      BY <2>6, <2>7, <2>9, Zenon DEF LinkTypes
    <2> QED
      BY <2>14, <2>13, <2>12, <2>5, <2>1, <1>0, Zenon DEF LinkInv
  <1>3. CASE Link!SessionEnded
    BY <1>3, <1>s DEF Link!SessionEnded, Link!lines
  <1>4. CASE Link!Wake
    BY <1>4, <1>s DEF Link!Wake, Link!lines
  <1>5. CASE Link!Stop
    BY <1>5, <1>s DEF Link!Stop, Link!lines, Link!loopVars
  <1>6. ASSUME NEW c \in Link!Conns, Link!ReadOut(c)
        PROVE  LinkInv'
    <2> DEFINE o == Link!OutHandshake(out[c], Head(toOut[c]))
    <2>1. /\ out[c].st \in {"handshake", "up"} /\ toOut[c] # <<>>
          /\ toOut' = [toOut EXCEPT ![c] = Tail(@)]
          /\ conns' = conns /\ in' = in
      BY <1>6, SMTT(30) DEF Link!ReadOut, Link!loopVars
    <2>2. /\ Tail(toOut[c]) \in Seq(LinesOut) /\ Agreed(out[c], in[c], toIn[c], Tail(toOut[c]))
          /\ o \in [st : Link!OutStates, init : BOOLEAN, pc9x : BOOLEAN]
          /\ out[c].st = "handshake" => Agreed(o, in[c], toIn[c], Tail(toOut[c]))
      <3>1. /\ out[c] \in [st : Link!OutStates, init : BOOLEAN, pc9x : BOOLEAN] /\ toOut[c] \in Seq(LinesOut)
            /\ Agreed(out[c], in[c], toIn[c], toOut[c])
        BY <1>0 DEF LinkTypes
      <3> QED
        BY <3>1, <2>1, OutStepAgrees, ZenonT(20)
    <2>3. toOut' \in [Link!Conns -> Seq(LinesOut)] /\ toOut'[c] = Tail(toOut[c])
      BY <2>1, <2>2, <1>0 DEF LinkTypes
    <2>4. c <= conns
      BY <2>1, LinkMade
    <2>5. CASE out[c].st = "handshake"
      <3>1. /\ out' = [out EXCEPT ![c] = o]
            /\ toIn' = IF o.init /\ ~out[c].init THEN [toIn EXCEPT ![c] = @ \o Link!InitLines(o.pc9x)] ELSE toIn
        BY <2>5, <1>6, ZenonT(30) DEF Link!ReadOut
      <3> HIDE DEF o
      <3>2. out' \in [Link!Conns -> [st : Link!OutStates, init : BOOLEAN, pc9x : BOOLEAN]] /\ out'[c] = o
        BY <3>1, <2>2, <1>0 DEF LinkTypes
      <3>3. toIn[c] \in Seq(LinesIn)
        BY <1>0 DEF LinkTypes
      <3>4. CASE o.init /\ ~out[c].init
        <4>1. o.pc9x = PreferPC9x
          BY <3>4, <2>2, <2>5 DEF Agreed
        <4>2. toIn' = [toIn EXCEPT ![c] = @ \o Link!InitLines(PreferPC9x)]
          BY <4>1, <3>1, <3>4, SMTT(30)
        <4>3. /\ toIn[c] \o Link!InitLines(PreferPC9x) \in Seq(LinesIn)
              /\ Agreed(o, in[c], toIn[c] \o Link!InitLines(PreferPC9x), Tail(toOut[c]))
          BY <2>2, <2>5, <3>3, InitTells, SentAgrees, Zenon
        <4>4. toIn' \in [Link!Conns -> Seq(LinesIn)] /\ toIn'[c] = toIn[c] \o Link!InitLines(PreferPC9x)
          BY <4>2, <4>3, <1>0 DEF LinkTypes
        <4>5. LinkTypes'
          BY <1>0, <2>1, <2>3, <3>2, <4>4, ZenonT(30) DEF LinkTypes
        <4>6. \A d \in Link!Conns \ {c} : /\ out'[d] = out[d] /\ in'[d] = in[d]
                                          /\ toIn'[d] = toIn[d] /\ toOut'[d] = toOut[d]
          BY <1>0, <2>1, <3>1, <4>2, SMTT(30) DEF LinkTypes
        <4>7. Agreed(out'[c], in'[c], toIn'[c], toOut'[c])
          BY <4>3, <4>4, <3>2, <2>3, <2>1
        <4> QED
          BY <4>5, <4>6, <4>7, <2>1, <2>4, OneLink, SMTT(30)
      <3>5. CASE ~(o.init /\ ~out[c].init)
        <4>1. toIn' = toIn
          BY <3>1, <3>5, Zenon
        <4>2. LinkTypes'
          BY <1>0, <2>1, <2>3, <3>2, <4>1, ZenonT(30) DEF LinkTypes
        <4>3. \A d \in Link!Conns \ {c} : /\ out'[d] = out[d] /\ in'[d] = in[d]
                                          /\ toIn'[d] = toIn[d] /\ toOut'[d] = toOut[d]
          BY <1>0, <2>1, <3>1, <4>1 DEF LinkTypes
        <4>4. Agreed(out'[c], in'[c], toIn'[c], toOut'[c])
          BY <4>1, <3>2, <2>1, <2>2, <2>3, <2>5, ZenonT(20)
        <4> QED
          BY <4>2, <4>3, <4>4, <2>1, <2>4, OneLink
      <3> QED
        BY <3>4, <3>5, SMTT(30)
    <2>6. CASE out[c].st # "handshake"
      <3>1. out' = out /\ toIn' = toIn
        BY <2>6, <1>6, SMTT(30) DEF Link!ReadOut
      <3>2. LinkTypes'
        BY <1>0, <2>1, <2>3, <3>1, Zenon DEF LinkTypes
      <3>3. \A d \in Link!Conns \ {c} : /\ out'[d] = out[d] /\ in'[d] = in[d]
                                        /\ toIn'[d] = toIn[d] /\ toOut'[d] = toOut[d]
        BY <1>0, <2>1, <3>1, SMTT(30) DEF LinkTypes
      <3>4. Agreed(out'[c], in'[c], toIn'[c], toOut'[c])
        BY <3>1, <2>1, <2>2, <2>3
      <3> QED
        BY <3>2, <3>3, <3>4, <2>1, <2>4, OneLink
    <2> QED
      BY <2>5, <2>6, SMTT(30)
  <1>7. ASSUME NEW c \in Link!Conns, Link!ReadIn(c)
        PROVE  LinkInv'
    <2> DEFINE s == Link!InHandshake(in[c], Head(toIn[c]))
               r == Link!InReply(in[c], s)
    <2>1. /\ in[c].st \in {"login", "init", "up"} /\ toIn[c] # <<>>
          /\ toIn' = [toIn EXCEPT ![c] = Tail(@)] /\ in' = [in EXCEPT ![c] = s]
          /\ toOut' = [toOut EXCEPT ![c] = @ \o r]
          /\ conns' = conns /\ out' = out
      BY <1>7, SMTT(30) DEF Link!ReadIn, Link!loopVars
    <2>2. /\ in[c] \in [st : Link!InStates, init : {FALSE}, pc9x : BOOLEAN]
          /\ toIn[c] \in Seq(LinesIn) /\ toOut[c] \in Seq(LinesOut)
          /\ Agreed(out[c], in[c], toIn[c], toOut[c])
      BY <1>0, Zenon DEF LinkTypes
    <2>3. /\ s \in [st : Link!InStates, init : {FALSE}, pc9x : BOOLEAN]
          /\ Agreed(out[c], s, Tail(toIn[c]), toOut[c]) /\ Tail(toIn[c]) \in Seq(LinesIn)
      BY <2>1, <2>2, InStepAgrees, LinesLeft, ZenonT(30)
    <2>4. r \in Seq(LinesOut) /\ \A i \in 1 .. Len(r) : r[i] # "PC61"
      BY ReplyNoSpot
    <2> HIDE DEF s, r
    <2>5. toOut[c] \o r \in Seq(LinesOut) /\ Agreed(out[c], s, Tail(toIn[c]), toOut[c] \o r)
      BY <2>2, <2>3, <2>4, RepliedAgrees, ZenonT(20)
    <2>6. /\ toIn' \in [Link!Conns -> Seq(LinesIn)] /\ toIn'[c] = Tail(toIn[c])
          /\ toOut' \in [Link!Conns -> Seq(LinesOut)] /\ toOut'[c] = toOut[c] \o r
      BY <2>1, <2>3, <2>5, <1>0, SMTT(30) DEF LinkTypes
    <2>7. in' \in [Link!Conns -> [st : Link!InStates, init : {FALSE}, pc9x : BOOLEAN]] /\ in'[c] = s
      BY <2>1, <2>3, <1>0, Zenon DEF LinkTypes
    <2>8. LinkTypes'
      BY <1>0, <2>1, <2>6, <2>7, ZenonT(30) DEF LinkTypes
    <2>9. \A d \in Link!Conns \ {c} : /\ out'[d] = out[d] /\ in'[d] = in[d]
                                      /\ toIn'[d] = toIn[d] /\ toOut'[d] = toOut[d]
      BY <1>0, <2>1 DEF LinkTypes
    <2>10. Agreed(out'[c], in'[c], toIn'[c], toOut'[c])
      BY <2>1, <2>5, <2>6, <2>7, SMTT(30)
    <2>11. c <= conns
      BY <2>1, LinkMade
    <2> QED
      BY <2>8, <2>9, <2>10, <2>11, <2>1, OneLink, ZenonT(20)
  <1>8. ASSUME NEW c \in Link!Conns, Link!Refuse(c) \/ Link!EndIn(c)
        PROVE  LinkInv'
    <2>1. /\ in[c].st # "none" /\ in' = [in EXCEPT ![c].st = "ended"]
          /\ conns' = conns /\ out' = out /\ toIn' = toIn /\ toOut' = toOut
      BY <1>8 DEF Link!Refuse, Link!EndIn, Link!loopVars, Link!lines
    <2>2. /\ in' \in [Link!Conns -> [st : Link!InStates, init : {FALSE}, pc9x : BOOLEAN]]
          /\ in'[c] = [in[c] EXCEPT !.st = "ended"] /\ in[c] \in [st : Link!InStates, init : {FALSE}, pc9x : BOOLEAN]
      BY <2>1, <1>0, Zenon DEF LinkTypes, Link!InStates
    <2>3. LinkTypes'
      BY <1>0, <2>1, <2>2, Zenon DEF LinkTypes
    <2>4. \A d \in Link!Conns \ {c} : /\ out'[d] = out[d] /\ in'[d] = in[d]
                                      /\ toIn'[d] = toIn[d] /\ toOut'[d] = toOut[d]
      BY <1>0, <2>1 DEF LinkTypes
    <2>5. in'[c].st = "ended"
      BY <2>2
    <2>6. Agreed(out'[c], in'[c], toIn'[c], toOut'[c])
      BY <1>0, <2>1, <2>5 DEF Agreed
    <2>7. c <= conns
      BY <2>1, LinkMade
    <2> QED
      BY <2>1, <2>3, <2>4, <2>6, <2>7, OneLink, SMTT(30)
  <1>9. ASSUME NEW c \in Link!Conns, Link!EndOut(c)
        PROVE  LinkInv'
    <2>1. /\ out[c].st # "none" /\ out' = [out EXCEPT ![c].st = "ended"]
          /\ conns' = conns /\ in' = in /\ toIn' = toIn /\ toOut' = toOut
      BY <1>9 DEF Link!EndOut, Link!loopVars, Link!lines
    <2>2. /\ out' \in [Link!Conns -> [st : Link!OutStates, init : BOOLEAN, pc9x : BOOLEAN]]
          /\ out'[c] = [out[c] EXCEPT !.st = "ended"] /\ out[c] \in [st : Link!OutStates, init : BOOLEAN, pc9x : BOOLEAN]
      BY <2>1, <1>0, Zenon DEF LinkTypes, Link!OutStates
    <2>3. LinkTypes'
      BY <1>0, <2>1, <2>2, Zenon DEF LinkTypes
    <2>4. \A d \in Link!Conns \ {c} : /\ out'[d] = out[d] /\ in'[d] = in[d]
                                      /\ toIn'[d] = toIn[d] /\ toOut'[d] = toOut[d]
      BY <1>0, <2>1 DEF LinkTypes
    <2>5. out'[c].st = "ended" /\ out'[c].init = out[c].init /\ out'[c].pc9x = out[c].pc9x
      BY <2>2
    <2>6. Agreed(out'[c], in'[c], toIn'[c], toOut'[c])
      BY <1>0, <2>1, <2>5 DEF Agreed
    <2>7. c <= conns
      BY <2>1, LinkMade
    <2> QED
      BY <2>1, <2>3, <2>4, <2>6, <2>7, OneLink, SMTT(30)
  <1>10. ASSUME NEW c \in Link!Conns, Link!Broadcast(c)
         PROVE  LinkInv'
    <2> DEFINE line == IF out[c].pc9x THEN "PC61" ELSE "PC11"
    <2>1. /\ out[c].st = "up" /\ conns' = conns /\ in' = in /\ out' = out /\ toOut' = toOut
          /\ toIn' = IF stopped THEN toIn ELSE [toIn EXCEPT ![c] = Append(@, line)]
      BY <1>10 DEF Link!Broadcast, Link!loopVars
    <2>2. CASE stopped
      BY <2>1, <2>2, <1>s, ZenonT(20) DEF Link!lines
    <2>3. CASE ~stopped
      <3>1. <<line>> \in Seq(LinesIn) /\ toIn[c] \in Seq(LinesIn) /\ Agreed(out[c], in[c], toIn[c], toOut[c])
        BY <1>0 DEF LinesIn, LinkTypes
      <3>2. \A i \in 1 .. Len(<<line>>) : <<line>>[i] \in {"PC61", "PC11"}
        OBVIOUS
      <3>3. Denies \in {"PC19", "PC92"}
        BY ZenonT(20) DEF Denies
      <3>4. Append(toIn[c], line) = toIn[c] \o <<line>>
        BY <3>1
      <3> HIDE DEF line
      <3>5. \A i \in 1 .. Len(<<line>>) : <<line>>[i] # Denies /\ <<line>>[i] # "PC20"
        BY <3>2, <3>3, SMTT(30)
      <3>6. toIn[c] \o <<line>> \in Seq(LinesIn) /\ Agreed(out[c], in[c], toIn[c] \o <<line>>, toOut[c])
        BY <3>1, <3>5, SentAgrees, Zenon
      <3>7. toIn' \in [Link!Conns -> Seq(LinesIn)] /\ toIn'[c] = toIn[c] \o <<line>>
        BY <3>4, <3>6, <2>1, <2>3, <1>0 DEF LinkTypes
      <3>8. LinkTypes'
        BY <1>0, <2>1, <3>7, Zenon DEF LinkTypes
      <3>9. \A d \in Link!Conns \ {c} : /\ out'[d] = out[d] /\ in'[d] = in[d]
                                        /\ toIn'[d] = toIn[d] /\ toOut'[d] = toOut[d]
        BY <1>0, <2>1, <2>3 DEF LinkTypes
      <3>10. Agreed(out'[c], in'[c], toIn'[c], toOut'[c])
        BY <2>1, <3>6, <3>7, ZenonT(30)
      <3>11. c <= conns
        BY <2>1, LinkMade, SMTT(30)
      <3> QED
        BY <3>8, <3>9, <3>10, <3>11, <2>1, OneLink, ZenonT(20)
    <2> QED
      BY <2>2, <2>3, SMTT(30)
  <1>11. ASSUME NEW c \in Link!Conns, Link!BroadcastIn(c)
         PROVE  LinkInv'
    <2> DEFINE line == IF in[c].pc9x THEN "PC61" ELSE "PC11"
    <2>1. /\ in[c].st = "up" /\ conns' = conns /\ in' = in /\ out' = out /\ toIn' = toIn
          /\ toOut' = [toOut EXCEPT ![c] = Append(@, line)]
      BY <1>11, SMTT(30) DEF Link!BroadcastIn, Link!loopVars
    <2>2. <<line>> \in Seq(LinesOut) /\ toOut[c] \in Seq(LinesOut) /\ Agreed(out[c], in[c], toIn[c], toOut[c])
      BY <1>0, SMTT(30) DEF LinesOut, LinkTypes
    <2>3. line = "PC61" => PreferPC9x
      BY <2>1, <2>2, SMTT(30) DEF Agreed
    <2>4. Append(toOut[c], line) = toOut[c] \o <<line>>
      BY <2>2
    <2> HIDE DEF line
    <2>5. \A i \in 1 .. Len(<<line>>) : <<line>>[i] = "PC61" => PreferPC9x
      BY <2>3
    <2>6. toOut[c] \o <<line>> \in Seq(LinesOut) /\ Agreed(out[c], in[c], toIn[c], toOut[c] \o <<line>>)
      BY <2>2, <2>5, RepliedAgrees, Zenon
    <2>7. toOut' \in [Link!Conns -> Seq(LinesOut)] /\ toOut'[c] = toOut[c] \o <<line>>
      BY <2>1, <2>4, <2>6, <1>0 DEF LinkTypes
    <2>8. LinkTypes'
      BY <1>0, <2>1, <2>7, Zenon DEF LinkTypes
    <2>9. \A d \in Link!Conns \ {c} : /\ out'[d] = out[d] /\ in'[d] = in[d]
                                      /\ toIn'[d] = toIn[d] /\ toOut'[d] = toOut[d]
      BY <1>0, <2>1 DEF LinkTypes
    <2>10. Agreed(out'[c], in'[c], toIn'[c], toOut'[c])
      BY <2>1, <2>6, <2>7, Zenon
    <2>11. c <= conns
      BY <2>1, LinkMade
    <2> QED
      BY <2>8, <2>9, <2>10, <2>11, <2>1, OneLink, SMTT(30)
  <1>12. CASE UNCHANGED Link!vars
    BY <1>12, <1>s DEF Link!vars, Link!loopVars, Link!lines
  <1> QED
    BY <1>1, <1>2, <1>3, <1>4, <1>5, <1>6, <1>7, <1>8, <1>9, <1>10, <1>11, <1>12, SMTT(30) DEF Link!Next

\* Both sides of an established connection speak the protocol the dialer is configured
\* for, whatever faults, refusals, spots and restarts there are (runOutboundHandshake,
\* runInboundHandshake).
THEOREM LinkSpeaksOneProtocol ==
  ASSUME LinkConstants
  PROVE  Link!Spec => []Link!SameProtocol
  <1>1. LinkInv => Link!SameProtocol
    BY DEF LinkInv, Agreed, Link!SameProtocol
  <1>2. Link!Init => LinkInv
    BY LinkInit
  <1>3. LinkInv /\ [Link!Next]_(Link!vars) => LinkInv'
    BY LinkNext
  <1> QED
    BY <1>1, <1>2, <1>3, PTL DEF Link!Spec

-----------------------------------------------------------------------------
(* The primary deduplicator *)
CONSTANTS Calls, Reports, ClusterWindow, PreferStronger, Minute, NumShards, ShardFor,
  CompactMinPeak, InCap, OutCap, MaxLate, LastTick, Offers, NoEntry

VARIABLES dClock, inputChan, outputChan, cache, peak, processed, duplicates, running, sweeping,
  shutdown, sweepPc, sweepShard, sweepNow, toDelete, last, offered

Dedup == INSTANCE Deduplicator WITH Window <- ClusterWindow, MaxTime <- LastTick, MaxSpots <-
  Offers, clock <- dClock, input <- inputChan, output <- outputChan

\* The inductive invariant: an entry in the cache is the one of the last accepted spot with its
\* hash, though cleanup deletes what it collected under an earlier lock.
DedupInv ==
  /\ inputChan \in Seq(Dedup!Spots) /\ duplicates \in Nat
  /\ cache \in [Dedup!Hashes -> Dedup!Entries \cup {NoEntry}]
  /\ last \in [Dedup!Hashes -> Dedup!Entries \cup {NoEntry}]
  /\ \A h \in Dedup!Hashes : cache[h] # NoEntry => last[h] = cache[h]

\* What SuppressionJustified demands of a step
Justified ==
  \A s \in Dedup!Spots :
     inputChan # <<>> /\ s = Head(inputChan) /\ duplicates' = duplicates + 1
     => LET e == last[Dedup!Hash32(s)]
        IN  /\ e # NoEntry
            /\ s.time - e.when < ClusterWindow /\ e.when - s.time < ClusterWindow
            /\ e.hasReport \/ ~s.hasReport
            /\ PreferStronger => e.snr >= s.report

\* Hash and entry of a spot are well formed (Hash32).
LEMMA SpotHash ==
  ASSUME Dedup!DedupConstants, NEW s \in Dedup!Spots
  PROVE  Dedup!Hash32(s) \in Dedup!Hashes /\ Dedup!EntryOf(s) \in Dedup!Entries /\ s.time \in Nat /\ s.report \in Int
  <1>1. s.time \in 0 .. LastTick /\ s.call \in Calls /\ s.report \in Reports /\ s.hasReport \in BOOLEAN
    BY DEF Dedup!Spots, Dedup!Times
  <1>2. s.time \div Minute \in 0 .. (LastTick \div Minute)
    <2> DEFINE m == Minute  t == s.time  n == LastTick
    <2>1. m \in Nat \ {0} /\ t \in Nat /\ n \in Nat /\ t <= n
      BY <1>1 DEF Dedup!DedupConstants
    <2> HIDE DEF m, t, n
    <2>2. t \div m \in Nat /\ n \div m \in Nat /\ t \div m <= n \div m
      BY <2>1
    <2> QED BY <2>2 DEF m, t, n
  <1>3. Dedup!Hash32(s) \in Dedup!Hashes
    BY <1>1, <1>2, SMTT(30) DEF Dedup!Hash32, Dedup!Hashes
  <1>4. Dedup!EntryOf(s) \in Dedup!Entries
    BY <1>1 DEF Dedup!EntryOf, Dedup!Entries, Dedup!Times
  <1>5. LastTick \in Nat /\ Reports \subseteq Int
    BY Zenon DEF Dedup!DedupConstants
  <1>6. s.report \in Int
    BY <1>1, <1>5, Zenon
  <1>7. s.time \in Nat
    BY <1>1, <1>5, SMTT(30)
  <1> QED BY <1>3, <1>4, <1>6, <1>7, SMTT(30)

\* The step of the goroutine that decides
LEMMA ProcessKeeps == ASSUME Dedup!DedupConstants, DedupInv, Dedup!processSpot PROVE DedupInv' /\ Justified
  <1> DEFINE s == Head(inputChan)
             h == Dedup!Hash32(s)
  <1>1. inputChan # <<>> /\ inputChan' = Tail(inputChan)
        /\ \/ /\ Dedup!isDuplicate(cache[h], s.time) /\ ~Dedup!Replaces(s, cache[h])
              /\ duplicates' = duplicates + 1 /\ UNCHANGED <<cache, last>>
           \/ /\ Dedup!Remember(h, Dedup!EntryOf(s)) /\ last' = [last EXCEPT ![h] = Dedup!EntryOf(s)]
              /\ duplicates' = duplicates
    BY Zenon DEF Dedup!processSpot
  <1>2. s \in Dedup!Spots /\ inputChan' \in Seq(Dedup!Spots)
    BY <1>1 DEF DedupInv
  <1> HIDE DEF s
  <1>3. h \in Dedup!Hashes /\ Dedup!EntryOf(s) \in Dedup!Entries /\ s.time \in Nat /\ s.report \in Int
    BY <1>2, SpotHash
  <1>4. CASE /\ Dedup!isDuplicate(cache[h], s.time) /\ ~Dedup!Replaces(s, cache[h])
             /\ duplicates' = duplicates + 1 /\ UNCHANGED <<cache, last>>
    <2>1. DedupInv'
      BY <1>2, <1>4 DEF DedupInv
    <2>2. cache[h] # NoEntry /\ Dedup!Abs(s.time - cache[h].when) < ClusterWindow
      BY <1>4, Zenon DEF Dedup!isDuplicate
    <2>3. last[h] = cache[h] /\ cache[h] \in Dedup!Entries
      BY <1>3, <2>2, SMTT(30) DEF DedupInv
    <2>4. last[h].when \in Nat /\ last[h].snr \in Int
      <3>1. LastTick \in Nat /\ Reports \subseteq Int
        BY ZenonT(30) DEF Dedup!DedupConstants
      <3>2. last[h].when \in 0 .. LastTick /\ last[h].snr \in Reports
        BY <2>3 DEF Dedup!Entries, Dedup!Times
      <3>3. last[h].snr \in Int
        BY <3>1, <3>2, Zenon
      <3>4. last[h].when \in Nat
        BY <3>1, <3>2, SMTT(30)
      <3> QED BY <3>3, <3>4
    <2>5. s.time - last[h].when < ClusterWindow /\ last[h].when - s.time < ClusterWindow
      BY <1>3, <2>2, <2>3, <2>4 DEF Dedup!Abs, Dedup!DedupConstants
    <2>6. ~(s.hasReport /\ ~last[h].hasReport) /\ ~(PreferStronger /\ s.report > last[h].snr)
      BY <1>4, <2>3, ZenonT(30) DEF Dedup!Replaces
    <2>7. PreferStronger => last[h].snr >= s.report
      BY <1>3, <2>4, <2>6
    <2> HIDE DEF h
    <2>8. Justified
      BY <2>2, <2>3, <2>5, <2>6, <2>7, Zenon DEF Justified, h, s
    <2> QED BY <2>1, <2>8, SMTT(30)
  <1>5. CASE /\ Dedup!Remember(h, Dedup!EntryOf(s)) /\ last' = [last EXCEPT ![h] = Dedup!EntryOf(s)]
             /\ duplicates' = duplicates
    <2>1. cache' = [cache EXCEPT ![h] = Dedup!EntryOf(s)]
      BY <1>5, Zenon DEF Dedup!Remember
    <2> HIDE DEF h
    <2>2. DedupInv'
      BY <1>2, <1>3, <1>5, <2>1, SMTT(30) DEF DedupInv
    <2>3. duplicates' # duplicates + 1
      BY <1>5 DEF DedupInv
    <2> QED BY <2>2, <2>3, Zenon DEF Justified
  <1> QED BY <1>1, <1>4, <1>5

\* A step that decides nothing at most deletes entries (cleanup).
LEMMA OtherSteps ==
  ASSUME Dedup!DedupConstants, DedupInv, inputChan' \in Seq(Dedup!Spots), UNCHANGED <<duplicates, last>>,
         \A h \in Dedup!Hashes : cache'[h] \in {cache[h], NoEntry},
         cache' \in [Dedup!Hashes -> Dedup!Entries \cup {NoEntry}]
  PROVE  DedupInv' /\ Justified
  <1>1. duplicates' # duplicates + 1
    BY DEF DedupInv
  <1>2. DedupInv'
    BY DEF DedupInv
  <1> QED BY <1>1, <1>2, Zenon DEF Justified

\* Every step (processSpot, cleanup, Stop).
LEMMA DedupStep == ASSUME Dedup!DedupConstants, DedupInv, [Dedup!Next]_(Dedup!vars) PROVE DedupInv' /\ Justified
  <1>1. CASE UNCHANGED <<cache, duplicates, last>> /\ inputChan' \in Seq(Dedup!Spots)
    <2>1. \A h \in Dedup!Hashes : cache'[h] \in {cache[h], NoEntry}
      BY <1>1, SMTT(30)
    <2> QED BY <1>1, <2>1, OtherSteps DEF DedupInv
  <1>2. ASSUME NEW s \in Dedup!Spots, Dedup!Offer(s) PROVE DedupInv' /\ Justified
    <2>1. /\ UNCHANGED <<cache, duplicates, last>>
          /\ inputChan' = inputChan \/ inputChan' = Append(inputChan, s)
      BY <1>2, Zenon DEF Dedup!Offer, Dedup!counters
    <2>2. inputChan' \in Seq(Dedup!Spots)
      BY <2>1, SMTT(30) DEF DedupInv
    <2> QED BY <1>1, <2>1, <2>2
  <1>3. CASE Dedup!DeleteCollected
    <2>1. cache' = [h \in Dedup!Hashes |-> IF h \in toDelete THEN NoEntry ELSE cache[h]]
          /\ UNCHANGED <<inputChan, duplicates, last>>
      BY <1>3 DEF Dedup!DeleteCollected, Dedup!queues, Dedup!counters
    <2>2. /\ \A h \in Dedup!Hashes : cache'[h] \in {cache[h], NoEntry}
          /\ cache' \in [Dedup!Hashes -> Dedup!Entries \cup {NoEntry}]
      BY <2>1, SMTT(30) DEF DedupInv
    <2> QED BY <2>1, <2>2, OtherSteps, SMTT(30) DEF DedupInv
  <1>4. CASE \/ Dedup!Tick \/ Dedup!Consume \/ Dedup!CleanupStart \/ Dedup!CollectExpired \/ Dedup!Stop
             \/ Dedup!ProcessReturns \/ Dedup!CleanupReturns \/ UNCHANGED Dedup!vars
    <2>1. UNCHANGED <<inputChan, cache, duplicates, last>>
      BY <1>4, Zenon DEF Dedup!Tick, Dedup!Consume, Dedup!CleanupStart, Dedup!CollectExpired, Dedup!Stop,
        Dedup!ProcessReturns, Dedup!CleanupReturns, Dedup!vars, Dedup!queues, Dedup!counters
    <2> QED BY <1>1, <2>1 DEF DedupInv
  <1> QED BY <1>2, <1>3, <1>4, ProcessKeeps, ZenonT(30) DEF Dedup!Next

\* An entry in the cache is the one of the last accepted spot with its hash (isDuplicate).
THEOREM DedupInvariant == ASSUME Dedup!DedupConstants PROVE Dedup!Spec => []DedupInv
  <1>1. Dedup!Init => DedupInv
    BY DEF Dedup!Init, DedupInv
  <1>2. DedupInv /\ [Dedup!Next]_(Dedup!vars) => DedupInv'
    BY DedupStep
  <1> QED BY <1>1, <1>2, PTL DEF Dedup!Spec

\* A spot is suppressed only if one that is as good was accepted within the window
\* (isDuplicate, with cleanup at any time).
THEOREM SuppressionsJustified == ASSUME Dedup!DedupConstants PROVE Dedup!Spec => Dedup!SuppressionJustified
  <1>1. DedupInv /\ [Dedup!Next]_(Dedup!vars) => [Justified]_(Dedup!vars)
    BY DedupStep
  <1>2. Dedup!SuppressionJustified <=> [][Justified]_(Dedup!vars)
    BY ZenonT(20) DEF Dedup!SuppressionJustified, Justified
  <1> QED BY <1>1, <1>2, DedupInvariant, PTL DEF Dedup!Spec

-----------------------------------------------------------------------------
(* Validation and licence gate *)
CONSTANTS Received, Base, Countries, Licences, Allowlist, Malformed, RequireCTY, DedupBuffer,
  MaxReceived

VARIABLES gCty, licences, input, dedup, output, aired, received

Gate == INSTANCE IngestGate WITH Spots <- Received, MaxSpots <- MaxReceived, cty <- gCty

\* What the first c country files and l licence databases say of a call
VettedBy(c, l, call) == \E v \in 1 .. l, d \in 1 .. c : Gate!MayTransmit(d, v, call)
Metadatas(c, call) == {Gate!lookupCTY(d, call) : d \in 1 .. c}

\* The spotter was vetted, and the metadata is missing or of the call that was spotted.
Checked(s, adif, c, l) ==
  /\ ~RequireCTY \/ s.test \/ VettedBy(c, l, s.de)
  /\ adif = Gate!Unknown \/ adif \in Metadatas(c, s.dx)

\* What the deduplicator may hold
Adifs(c) == {Gate!Unknown} \cup {Gate!lookupCTY(p[1], p[2].dx) : p \in (1 .. c) \X Received}
Waiting(c, l) == {e \in [spot : Received, adif : Adifs(c)] : Checked(e.spot, e.adif, c, l)}

\* In the output pipeline: the call may be another one, and is then marked.
InOutput(o, c, l) ==
  /\ o.db \in 0 .. c
  /\ Checked(o.spot, o.adif, c, l)
  /\ o.confidence = "C" \/ o.dx = o.spot.dx

\* What is broadcast was vetted with the calls it names.
Aired(a, c, l) ==
  LET exempt == a.spot.beacon \/ a.db = 0
  IN  /\ exempt \/ VettedBy(c, l, a.dx)
      /\ ~RequireCTY \/ a.spot.test \/ VettedBy(c, l, a.spot.de)
      /\ exempt \/ a.adif \in Metadatas(c, a.dx)

\* The inductive invariant: what waits was vetted with a file that was in use by then.
GateInv ==
  /\ gCty \in Nat /\ licences \in Nat \ {0}
  /\ input \in Seq(Received) /\ dedup \in Seq(Waiting(gCty, licences))
  /\ output = <<>> \/ \E o : output = <<o>> /\ InOutput(o, gCty, licences)
  /\ aired = Gate!Nothing \/ Aired(aired, gCty, licences)

\* Later files only add to what could be vetted with.
LEMMA MoreFiles ==
  ASSUME NEW c \in Nat, NEW l \in Nat, NEW c2 \in Nat, NEW l2 \in Nat, c <= c2, l <= l2
  PROVE  /\ \A call : VettedBy(c, l, call) => VettedBy(c2, l2, call)
         /\ \A call : Metadatas(c, call) \subseteq Metadatas(c2, call)
         /\ \A s, adif : Checked(s, adif, c, l) => Checked(s, adif, c2, l2)
         /\ Waiting(c, l) \subseteq Waiting(c2, l2)
         /\ \A o : InOutput(o, c, l) => InOutput(o, c2, l2)
         /\ \A a : Aired(a, c, l) => Aired(a, c2, l2)
  <1>1. 1 .. c \subseteq 1 .. c2 /\ 1 .. l \subseteq 1 .. l2 /\ 0 .. c \subseteq 0 .. c2
    OBVIOUS
  <1>2. \A call : VettedBy(c, l, call) => VettedBy(c2, l2, call)
    BY <1>1, Zenon DEF VettedBy
  <1>3. \A call : Metadatas(c, call) \subseteq Metadatas(c2, call)
    BY <1>1, Zenon DEF Metadatas
  <1>4. \A s, adif : Checked(s, adif, c, l) => Checked(s, adif, c2, l2)
    BY <1>2, <1>3, Zenon DEF Checked
  <1>5. Adifs(c) \subseteq Adifs(c2)
    BY <1>1, Zenon DEF Adifs
  <1>6. Waiting(c, l) \subseteq Waiting(c2, l2)
    BY <1>4, <1>5, Zenon DEF Waiting
  <1>7. \A o : InOutput(o, c, l) => InOutput(o, c2, l2)
    BY <1>1, <1>4, Zenon DEF InOutput
  <1>8. \A a : Aired(a, c, l) => Aired(a, c2, l2)
    BY <1>2, <1>3, ZenonT(30) DEF Aired
  <1> QED BY <1>2, <1>3, <1>4, <1>6, <1>7, <1>8, ZenonT(20)

\* Replacing a country file or a licence database keeps it (LoadCTY, RefreshLicences).
LEMMA LoadKeeps ==
  ASSUME GateInv, gCty' \in Nat, licences' \in Nat, gCty <= gCty', licences <= licences',
         UNCHANGED <<input, dedup, output, aired>>
  PROVE  GateInv'
  <1>1. /\ Waiting(gCty, licences) \subseteq Waiting(gCty', licences')
        /\ \A o : InOutput(o, gCty, licences) => InOutput(o, gCty', licences')
        /\ \A a : Aired(a, gCty, licences) => Aired(a, gCty', licences')
    BY MoreFiles, ZenonT(20) DEF GateInv
  <1>2. dedup \in Seq(Waiting(gCty', licences'))
    BY <1>1, SMTT(30) DEF GateInv
  <1>3. licences' \in Nat \ {0}
    BY DEF GateInv
  <1> QED BY <1>1, <1>2, <1>3, ZenonT(20) DEF GateInv

\* The spotter is vetted before a spot waits (validateSpot).
LEMMA ValidateKeeps == ASSUME GateInv, Gate!Validate PROVE GateInv'
  <1> DEFINE s == Head(input)
             e == [spot |-> s, adif |-> Gate!lookupCTY(gCty, s.dx)]
  <1>1. /\ input # <<>> /\ input' = Tail(input) /\ (gCty # 0 \/ ~RequireCTY)
        /\ dedup' = IF Gate!Valid(s) /\ Len(dedup) < DedupBuffer THEN Append(dedup, e) ELSE dedup
        /\ UNCHANGED <<gCty, licences, output, aired>>
    BY Zenon DEF Gate!Validate
  <1>2. s \in Received /\ input' \in Seq(Received)
    BY <1>1, SMTT(30) DEF GateInv
  <1> HIDE DEF s
  <1>3. CASE dedup' = dedup
    BY <1>1, <1>2, <1>3, ZenonT(20) DEF GateInv
  <1>4. CASE Gate!Valid(s) /\ dedup' = Append(dedup, e)
    <2>1. ~RequireCTY \/ s.test \/ VettedBy(gCty, licences, s.de)
      <3>1. CASE gCty = 0
        BY <1>1, <3>1
      <3>2. CASE gCty # 0
        <4>1. s.test \/ Gate!MayTransmit(gCty, licences, s.de)
          BY <1>4, <3>2, Zenon DEF Gate!Valid
        <4>2. gCty \in 1 .. gCty /\ licences \in 1 .. licences
          BY <3>2, SMTT(30) DEF GateInv
        <4> QED BY <4>1, <4>2, Zenon DEF VettedBy
      <3> QED BY <3>1, <3>2, ZenonT(20)
    <2>2. Gate!lookupCTY(gCty, s.dx) = Gate!Unknown \/ (gCty \in 1 .. gCty /\ Gate!lookupCTY(gCty, s.dx) \in Metadatas(gCty, s.dx))
      <3>1. CASE gCty = 0
        BY <3>1, Zenon DEF Gate!lookupCTY
      <3>2. CASE gCty # 0
        <4>1. gCty \in 1 .. gCty
          BY <3>2, SMTT(30) DEF GateInv
        <4> QED BY <4>1, Zenon DEF Metadatas
      <3> QED BY <3>1, <3>2
    <2>3. Gate!lookupCTY(gCty, s.dx) \in Adifs(gCty)
      <3>1. CASE Gate!lookupCTY(gCty, s.dx) = Gate!Unknown
        BY <3>1, Zenon DEF Adifs
      <3>2. CASE gCty \in 1 .. gCty
        <4>1. <<gCty, s>> \in (1 .. gCty) \X Received /\ <<gCty, s>>[1] = gCty /\ <<gCty, s>>[2] = s
          BY <1>2, <3>2
        <4> QED BY <4>1, Zenon DEF Adifs
      <3> QED BY <2>2, <3>1, <3>2, SMTT(30)
    <2>4. e \in Waiting(gCty, licences)
      <3>1. e.spot = s /\ e.adif = Gate!lookupCTY(gCty, s.dx)
        BY Zenon
      <3>2. e \in [spot : Received, adif : Adifs(gCty)]
        BY <1>2, <2>3
      <3>3. Checked(e.spot, e.adif, gCty, licences)
        BY <2>1, <2>2, <3>1, ZenonT(30) DEF Checked
      <3> QED BY <3>2, <3>3, Zenon DEF Waiting
    <2> HIDE DEF e
    <2>5. dedup' \in Seq(Waiting(gCty, licences))
      BY <1>4, <2>4 DEF GateInv
    <2> QED BY <1>1, <1>2, <2>5, ZenonT(20) DEF GateInv
  <1> QED BY <1>1, <1>3, <1>4, Zenon

\* A call that correction puts in place is marked (maybeApplyCallCorrection).
LEMMA CorrectKeeps == ASSUME GateInv, Gate!Correct PROVE GateInv'
  <1> DEFINE e == Head(dedup)
             dx == IF e.spot.beacon THEN e.spot.dx ELSE e.spot.fixed
             mark == IF dx # e.spot.dx THEN "C" ELSE ""
             o == [spot |-> e.spot, db |-> gCty, dx |-> dx, adif |-> e.adif, confidence |-> mark]
  <1>1. /\ dedup # <<>> /\ dedup' = Tail(dedup) /\ output' = <<o>>
        /\ UNCHANGED <<gCty, licences, input, aired>>
    BY Zenon DEF Gate!Correct
  <1>2. e \in Waiting(gCty, licences) /\ dedup' \in Seq(Waiting(gCty, licences))
    <2>1. dedup # <<>> /\ dedup' = Tail(dedup) /\ dedup \in Seq(Waiting(gCty, licences))
      BY <1>1, Zenon DEF GateInv
    <2> QED BY <2>1
  <1>3. mark = "C" \/ dx = e.spot.dx
    BY Zenon
  <1>4. Checked(e.spot, e.adif, gCty, licences)
    BY <1>2, Zenon DEF Waiting
  <1> HIDE DEF e, dx, mark
  <1>5. o.spot = e.spot /\ o.db = gCty /\ o.dx = dx /\ o.adif = e.adif /\ o.confidence = mark
    BY Zenon
  <1>6. gCty \in 0 .. gCty
    BY DEF GateInv
  <1>7. InOutput(o, gCty, licences)
    BY <1>3, <1>4, <1>5, <1>6, ZenonT(30) DEF InOutput
  <1> HIDE DEF o
  <1> QED BY <1>1, <1>2, <1>7, Zenon DEF GateInv

\* The gate looks a marked call up again (applyLicenseGate).
LEMMA GateKeeps == ASSUME GateInv, Gate!applyLicenseGate PROVE GateInv'
  <1> DEFINE o == output[1]
             passes == o.spot.beacon \/ o.db = 0
             adif == IF passes THEN o.adif ELSE Gate!Metadata(o)
             a == [spot |-> o.spot, dx |-> o.dx, adif |-> adif, db |-> o.db]
  <1>1. /\ output # <<>> /\ output' = <<>> /\ UNCHANGED <<gCty, licences, input, dedup>>
        /\ \/ aired' = aired
           \/ (passes \/ Gate!MayTransmit(o.db, licences, o.dx)) /\ aired' = a
    BY Zenon DEF Gate!applyLicenseGate
  <1>2. CASE aired' = aired
    BY <1>1, <1>2, Zenon DEF GateInv
  <1>3. CASE (passes \/ Gate!MayTransmit(o.db, licences, o.dx)) /\ aired' = a
    <2>1. InOutput(o, gCty, licences)
      <3>1. PICK p : output = <<p>> /\ InOutput(p, gCty, licences)
        BY <1>1, Zenon DEF GateInv
      <3>2. o = p
        BY <3>1
      <3> QED BY <3>1, <3>2, SMTT(30)
    <2>2. a.spot = o.spot /\ a.dx = o.dx /\ a.adif = adif /\ a.db = o.db
      BY Zenon
    <2>3. ~passes => o.db \in 1 .. gCty /\ licences \in 1 .. licences
      <3>1. o.db \in 0 .. gCty /\ gCty \in Nat /\ licences \in Nat \ {0}
        BY <2>1, Zenon DEF InOutput, GateInv
      <3> QED BY <3>1
    <2>4. passes \/ VettedBy(gCty, licences, o.dx)
      BY <1>3, <2>3, ZenonT(30) DEF VettedBy
    <2>5. passes \/ adif \in Metadatas(gCty, o.dx)
      <3> SUFFICES ASSUME ~passes PROVE adif \in Metadatas(gCty, o.dx)
        OBVIOUS
      <3>1. adif = Gate!Metadata(o)
        BY Zenon
      <3>2. CASE o.adif = Gate!Unknown \/ o.confidence = "C"
        BY <2>3, <3>1, <3>2, Zenon DEF Gate!Metadata, Metadatas
      <3>3. CASE ~(o.adif = Gate!Unknown \/ o.confidence = "C")
        <4>1. adif = o.adif
          BY <3>1, <3>3, Zenon DEF Gate!Metadata
        <4> HIDE DEF o, adif
        <4> QED BY <2>1, <3>3, <4>1, Zenon DEF InOutput, Checked
      <3> QED BY <3>2, <3>3, ZenonT(20)
    <2>6. ~RequireCTY \/ o.spot.test \/ VettedBy(gCty, licences, o.spot.de)
      BY <2>1, Zenon DEF InOutput, Checked
    <2> HIDE DEF a, adif, o
    <2>7. Aired(a, gCty, licences)
      BY <2>2, <2>4, <2>5, <2>6, ZenonT(30) DEF Aired
    <2> QED BY <1>1, <1>3, <2>7, Zenon DEF GateInv
  <1> QED BY <1>1, <1>2, <1>3, Zenon

\* The invariant holds, however files are replaced between the two checks (validateSpot,
\* applyLicenseGate).
THEOREM GateInvariant == Gate!Spec => []GateInv
  <1>1. Gate!Init => GateInv
    BY DEF Gate!Init, GateInv
  <1>2. ASSUME GateInv, [Gate!Next]_(Gate!vars) PROVE GateInv'
    <2>1. CASE Gate!LoadCTY \/ Gate!RefreshLicences
      <3>1. gCty' \in Nat /\ licences' \in Nat /\ gCty <= gCty' /\ licences <= licences'
            /\ UNCHANGED <<input, dedup, output, aired>>
        BY <1>2, <2>1, SMTT(30) DEF Gate!LoadCTY, Gate!RefreshLicences, GateInv
      <3> QED BY <1>2, <3>1, LoadKeeps, SMTT(30)
    <2>2. ASSUME NEW s \in Received, Gate!Receive(s) PROVE GateInv'
      BY <1>2, <2>2, SMTT(30) DEF Gate!Receive, GateInv
    <2>3. CASE UNCHANGED Gate!vars
      BY <1>2, <2>3 DEF Gate!vars, GateInv
    <2> QED BY <1>2, <2>1, <2>2, <2>3, ValidateKeeps, CorrectKeeps, GateKeeps, ZenonT(20) DEF Gate!Next
  <1> QED BY <1>1, <1>2, PTL DEF Gate!Spec

\* What is broadcast was vetted with the call it finally names, and carries the metadata of
\* that call (applyLicenseGate).
THEOREM BroadcastsVetted == Gate!Spec => []Gate!AiredIsVetted
  <1>1. GateInv => Gate!AiredIsVetted
    BY Zenon DEF GateInv, Gate!AiredIsVetted, Aired, Gate!Vetted, VettedBy, Metadatas
  <1> QED BY <1>1, GateInvariant, PTL
=============================================================================
