--------------------------- MODULE DeliveryProofs ---------------------------
(***************************************************************************)
(* The writer of one session, for every queue capacity and any number of   *)
(* messages and spots: at most one spot overtakes a control message, and   *)
(* nothing follows a farewell.                                             *)
(*                                                                         *)
(* The fan-out, for any clients, shards, workers, batch size and number of *)
(* spots: a client is offered no spot twice, and what one worker offers it *)
(* is in the order of the pipeline, though logins reshuffle the shards.    *)
(*                                                                         *)
(* Peers, for any nodes, links and hops: a node passes a spot on once,     *)
(* though it comes back over other links, since its mark outlives it.      *)
(***************************************************************************)
EXTENDS ClientWriter, Integers, TLAPS

\* A message gets its number when it is offered; nothing has passed one that was
\* not offered yet, nor one that waits while the writer is at its select.
NotPassedYet ==
  /\ \A m \in ControlIds : m > nControl => passed[m] = 0
  /\ \A m \in ControlIds : Waiting(m) => m <= nControl
  /\ pc = "select" => \A m \in ControlIds : Waiting(m) => passed[m] = 0

\* Once a farewell is written the client is closed.
FarewellCloses ==
  \A i \in 1 .. Len(written) :
     written[i][1] = "control" /\ written[i][2] \in Farewells => i = Len(written) /\ closed

\* The inductive invariant
WriterInv == TypeOK /\ OvertakenAtMostOnce /\ NotPassedYet /\ FarewellCloses

\* At first nothing is queued, written or passed.
LEMMA WriterInit ==
  ASSUME WriterConstants, Init
  PROVE  WriterInv
  <1>1. TypeOK
    <2>1. /\ 0 \in 0 .. MaxControl /\ 0 \in 0 .. MaxSpots
          /\ 0 <= ControlCap /\ 0 <= SpotCap
      BY DEF WriterConstants
    <2>2. \A S : <<>> \in Seq(S)
      OBVIOUS
    <2>3. Len(<<>>) = 0
      OBVIOUS
    <2>4. passed \in [ControlIds -> Nat]
      BY DEF Init
    <2> QED
      BY <2>1, <2>2, <2>3, <2>4, Zenon DEF Init, TypeOK
  <1>2. OvertakenAtMostOnce
    BY DEF Init, OvertakenAtMostOnce
  <1>3. Len(control) = 0 /\ Len(written) = 0
    BY DEF Init
  <1>4. NotPassedYet /\ FarewellCloses
    BY <1>3 DEF Init, NotPassedYet, FarewellCloses, Waiting
  <1> QED
    BY <1>1, <1>2, <1>4 DEF WriterInv

\* What waits in the queue after a message is taken was waiting before.
LEMMA TakeKeepsWaiting ==
  ASSUME TypeOK, TakeControl
  PROVE  /\ control' \in Seq(ControlIds) /\ Len(control') < Len(control)
         /\ Head(control) \in ControlIds
         /\ \A m \in ControlIds : Waiting(m)' => Waiting(m)
  <1>1. control \in Seq(ControlIds) /\ control # <<>>
    BY DEF TypeOK, TakeControl
  <1>2. /\ Head(control) \in ControlIds /\ Tail(control) \in Seq(ControlIds)
        /\ Len(Tail(control)) = Len(control) - 1
        /\ \A i \in 1 .. Len(Tail(control)) : Tail(control)[i] = control[i + 1]
    BY <1>1
  <1>3. Len(control) \in Nat
    BY <1>1
  <1> QED
    BY <1>1, <1>2, <1>3 DEF TakeControl, Waiting

\* A control message is taken by a drain or by a select.
LEMMA TakeControlInv ==
  ASSUME WriterConstants, WriterInv, pc \in {"drain", "select"}, TakeControl
  PROVE  WriterInv'
  <1>0. TypeOK
    BY DEF WriterInv
  <1>1. /\ control' \in Seq(ControlIds) /\ Len(control') < Len(control)
        /\ Head(control) \in ControlIds
        /\ \A m \in ControlIds : Waiting(m)' => Waiting(m)
    BY <1>0, TakeKeepsWaiting
  <1>2. Len(control') \in Nat /\ Len(control) \in Nat
    BY <1>0, <1>1, SMTT(30) DEF TypeOK
  <1>3. TypeOK'
    BY <1>0, <1>1, <1>2, SMTT(30) DEF WriterConstants, TypeOK, TakeControl, offered
  <1>4. OvertakenAtMostOnce' /\ NotPassedYet'
    BY <1>1 DEF WriterInv, OvertakenAtMostOnce, NotPassedYet, TakeControl,
           offered
  <1>5. FarewellCloses'
    BY DEF WriterInv, FarewellCloses, TakeControl
  <1> QED
    BY <1>3, <1>4, <1>5 DEF WriterInv

\* A control message is queued, or finds the queue full and closes the client.
LEMMA EnqueueControlInv ==
  ASSUME WriterConstants, WriterInv, enqueueControl
  PROVE  WriterInv'
  <1>0. TypeOK /\ nControl + 1 \in ControlIds
    <2>1. TypeOK
      BY Zenon DEF WriterInv
    <2>2. nControl \in Nat /\ nControl < MaxControl /\ MaxControl \in Nat
      BY <2>1, SMTT(30) DEF WriterConstants, TypeOK, enqueueControl
    <2> QED BY <2>1, <2>2 DEF ControlIds
  <1>1. CASE UNCHANGED control /\ closed' \in BOOLEAN /\ (closed => closed')
    <2>1. TypeOK'
      BY <1>0, <1>1, SMTT(30) DEF WriterConstants, TypeOK, enqueueControl, ControlIds
    <2>2. \A m : Waiting(m)' <=> Waiting(m)
      BY <1>1 DEF Waiting
    <2>3. OvertakenAtMostOnce' /\ NotPassedYet' /\ FarewellCloses'
      BY <1>0, <1>1, <2>2
      DEF WriterInv, TypeOK, OvertakenAtMostOnce, NotPassedYet, FarewellCloses,
          enqueueControl, ControlIds
    <2> QED
      BY <2>1, <2>3 DEF WriterInv
  <1>2. CASE Len(control) < ControlCap /\ control' = Append(control, nControl + 1) /\ UNCHANGED closed
    <2>0. control \in Seq(ControlIds) /\ Len(control) \in Nat
      BY <1>0 DEF TypeOK
    <2>1. /\ control' \in Seq(ControlIds) /\ Len(control') = Len(control) + 1
          /\ \A i \in 1 .. Len(control) : control'[i] = control[i]
          /\ control'[Len(control) + 1] = nControl + 1
      BY <1>0, <1>2, <2>0
    <2>2. \A m \in ControlIds : Waiting(m)' => Waiting(m) \/ m = nControl + 1
      BY <2>0, <2>1 DEF Waiting
    <2>3. TypeOK'
      BY <1>0, <1>2, <2>0, <2>1, SMTT(30) DEF WriterConstants, TypeOK, enqueueControl, ControlIds
    <2>4. OvertakenAtMostOnce' /\ NotPassedYet' /\ FarewellCloses'
      BY <1>0, <1>2, <2>2
      DEF WriterInv, TypeOK, OvertakenAtMostOnce, NotPassedYet, FarewellCloses,
          enqueueControl, ControlIds
    <2> QED
      BY <2>3, <2>4 DEF WriterInv
  <1> QED
    BY <1>0, <1>1, <1>2, Zenon DEF enqueueControl, ControlFull, TypeOK

\* A spot is queued or dropped, and too many drops close the client.
LEMMA EnqueueSpotInv ==
  ASSUME WriterConstants, WriterInv, enqueueSpot
  PROVE  WriterInv'
  <1>1. TypeOK /\ nSpots + 1 \in SpotIds /\ nSpots' \in 0 .. MaxSpots
    BY DEF WriterConstants, WriterInv, TypeOK, enqueueSpot, SpotIds
  <1>2. spots' \in Seq(SpotIds) /\ Len(spots') <= SpotCap
    <2>1. spots \in Seq(SpotIds) /\ Len(spots) \in Nat /\ Len(spots) <= SpotCap
      BY <1>1 DEF TypeOK
    <2>2. Append(spots, nSpots + 1) \in Seq(SpotIds) /\ Len(Append(spots, nSpots + 1)) = Len(spots) + 1
      BY <1>1, <2>1
    <2>3. Len(spots) < SpotCap => Len(spots) + 1 <= SpotCap
      BY <2>1 DEF WriterConstants
    <2>4. spots' = spots \/ (Len(spots) < SpotCap /\ spots' = Append(spots, nSpots + 1))
      BY Zenon DEF enqueueSpot, SpotQueued
    <2> QED
      BY <2>1, <2>2, <2>3, <2>4
  <1>3. closed' \in BOOLEAN /\ (closed => closed')
    BY <1>1, Zenon DEF TypeOK, enqueueSpot
  <1>4. \A m : Waiting(m)' <=> Waiting(m)
    BY DEF enqueueSpot, Waiting
  <1>5. TypeOK'
    BY <1>1, <1>2, <1>3, SMTT(30) DEF TypeOK, enqueueSpot
  <1>6. OvertakenAtMostOnce' /\ NotPassedYet' /\ FarewellCloses'
    BY <1>3, <1>4 DEF WriterInv, OvertakenAtMostOnce, NotPassedYet, FarewellCloses, enqueueSpot
  <1> QED
    BY <1>5, <1>6 DEF WriterInv

\* Only a select that finds no control message at its drain takes a spot, so what
\* waits then has not been passed before.
LEMMA SelectSpotInv ==
  ASSUME WriterConstants, WriterInv, SelectSpot
  PROVE  WriterInv'
  <1>1. TypeOK /\ spots \in Seq(SpotIds) /\ spots # <<>>
    BY DEF WriterInv, TypeOK, SelectSpot
  <1>2. Head(spots) \in SpotIds /\ Tail(spots) \in Seq(SpotIds) /\ Len(Tail(spots)) = Len(spots) - 1
    BY <1>1
  <1>3. \A m : Waiting(m)' <=> Waiting(m)
    BY DEF SelectSpot, Waiting
  <1>4. TypeOK'
    BY <1>1, <1>2, SMTT(30) DEF WriterConstants, TypeOK, SelectSpot, offered
  <1>5. \A m \in ControlIds : passed[m] \in Nat /\ (Waiting(m) => passed[m] = 0 /\ m <= nControl)
    BY <1>1 DEF WriterInv, TypeOK, NotPassedYet, SelectSpot
  <1>6. \A m \in ControlIds : passed'[m] = IF Waiting(m) THEN passed[m] + 1 ELSE passed[m]
    BY DEF SelectSpot
  <1>7. OvertakenAtMostOnce'
    BY <1>5, <1>6 DEF WriterInv, OvertakenAtMostOnce
  <1>8. nControl \in Nat /\ \A m \in ControlIds : m \in Nat
    BY <1>1 DEF WriterConstants, TypeOK, ControlIds
  <1>9. NotPassedYet'
    BY <1>3, <1>5, <1>6, <1>8 DEF WriterInv, NotPassedYet, SelectSpot, offered
  <1>10. FarewellCloses'
    BY DEF WriterInv, FarewellCloses, SelectSpot
  <1> QED
    BY <1>4, <1>7, <1>9, <1>10 DEF WriterInv

\* What was taken is written, and a farewell closes the client.
LEMMA WrittenInv ==
  ASSUME WriterConstants, WriterInv, Written
  PROVE  WriterInv'
  <1>1. TypeOK /\ ~closed /\ msg \in Nat /\ pc \in {"control", "spot"}
    <2>1. TypeOK /\ ~closed /\ pc \in {"control", "spot"}
      BY DEF WriterInv, Written
    <2>2. ControlIds \subseteq Nat /\ SpotIds \subseteq Nat
      BY DEF WriterConstants, ControlIds, SpotIds
    <2>3. msg \in ControlIds \cup SpotIds \cup {0}
      BY <2>1 DEF TypeOK
    <2> QED
      BY <2>1, <2>2, <2>3
  <1>2. written \in Seq({"control", "spot"} \X Nat) /\ <<pc, msg>> \in {"control", "spot"} \X Nat
    BY <1>1 DEF TypeOK
  <1>3. /\ written' \in Seq({"control", "spot"} \X Nat) /\ Len(written') = Len(written) + 1
        /\ \A i \in 1 .. Len(written) : written'[i] = written[i]
        /\ written'[Len(written) + 1] = <<pc, msg>>
    BY <1>2 DEF Written
  <1>4. Len(written) \in Nat
    BY <1>2
  <1>5. TypeOK'
    BY <1>1, <1>3, Zenon DEF TypeOK, Written, AfterWrite, offered
  <1>6. \A m : Waiting(m)' <=> Waiting(m)
    BY DEF Written, Waiting
  <1>7. OvertakenAtMostOnce' /\ NotPassedYet'
    BY <1>1, <1>6 DEF WriterInv, OvertakenAtMostOnce, NotPassedYet, Written, AfterWrite,
      offered
  <1>8. FarewellCloses'
    <2>1. \A i \in 1 .. Len(written) : ~ (written[i][1] = "control" /\ written[i][2] \in Farewells)
      BY <1>1 DEF WriterInv, FarewellCloses
    <2>2. <<pc, msg>>[1] = "control" /\ <<pc, msg>>[2] \in Farewells => closed'
      BY DEF Written, AfterWrite
    <2>3. ASSUME NEW i \in 1 .. Len(written'), written'[i][1] = "control", written'[i][2] \in Farewells
          PROVE  i = Len(written') /\ closed'
      <3>1. CASE i \in 1 .. Len(written)
        <4>1. written'[i] = written[i]
          BY <1>3, <3>1, ZenonT(20)
        <4> QED
          BY <2>1, <2>3, <3>1, <4>1
      <3>2. CASE i = Len(written) + 1
        <4>1. written'[i] = <<pc, msg>>
          BY <1>3, <3>2
        <4>2. closed'
          BY <2>2, <2>3, <4>1
        <4> QED
          BY <1>3, <3>2, <4>2
      <3> QED
        BY <1>3, <1>4, <3>1, <3>2
    <2> QED
      BY <2>3 DEF FarewellCloses
  <1> QED
    BY <1>5, <1>7, <1>8 DEF WriterInv

\* Every step keeps the invariant.
LEMMA WriterNext ==
  ASSUME WriterConstants, WriterInv, [Next]_vars
  PROVE  WriterInv'
  <1> USE DEF WriterInv, TypeOK, OvertakenAtMostOnce, NotPassedYet, FarewellCloses, Waiting,
         offered
  <1>1. CASE UNCHANGED vars
    BY <1>1, Zenon DEF vars
  <1>2. CASE Close
    BY <1>2, SMTT(30) DEF Close
  <1>3. CASE pc = "drain" /\ Drained
    BY <1>3, SMTT(30) DEF Drained
  <1>4. CASE Return
    BY <1>4 DEF Return
  <1>5. CASE WriteFails
    BY <1>5 DEF WriteFails
  <1> HIDE DEF WriterInv, TypeOK, OvertakenAtMostOnce, NotPassedYet, FarewellCloses, Waiting,
         offered
  <1> QED
    BY <1>1, <1>2, <1>3, <1>4, <1>5, EnqueueControlInv, EnqueueSpotInv, TakeControlInv,
       SelectSpotInv, WrittenInv, SMTT(30)
    DEF Next, Drain, SelectControl

\* The inductive invariant holds in every reachable state (writerLoop).
THEOREM WriterInvariance ==
  ASSUME WriterConstants
  PROVE  Spec => []WriterInv
  <1>1. Init => WriterInv
    BY WriterInit
  <1>2. WriterInv /\ [Next]_vars => WriterInv'
    BY WriterNext
  <1> QED
    BY <1>1, <1>2, PTL DEF Spec

\* Queues stay within their capacities and hold what was offered.
THEOREM WriterTypes ==
  ASSUME WriterConstants
  PROVE  Spec => []TypeOK
  <1>1. WriterInv => TypeOK
    BY DEF WriterInv
  <1> QED
    BY <1>1, WriterInvariance, PTL

\* writerLoop lets at most one spot overtake a waiting control message.
THEOREM BoundedOvertaking ==
  ASSUME WriterConstants
  PROVE  Spec => []OvertakenAtMostOnce
  <1>1. WriterInv => OvertakenAtMostOnce
    BY DEF WriterInv
  <1> QED
    BY <1>1, WriterInvariance, PTL

\* Nothing is written after a message with closeAfter.
THEOREM FarewellEnds ==
  ASSUME WriterConstants
  PROVE  Spec => []FarewellIsLast
  <1>1. WriterInv => FarewellIsLast
    BY DEF WriterInv, FarewellCloses, FarewellIsLast
  <1> QED
    BY <1>1, WriterInvariance, PTL

-----------------------------------------------------------------------------
(* The fan-out to the clients *)
CONSTANTS Clients, NumWorkers, BroadcastCap, QueueCap, BatchMax, Kinds, AllSettings, FanSpots,
  MaxChurn, NoCall

VARIABLES settings, clients, shardsDirty, clientShards, broadcast, workerQueues, batch, flushing,
  shutdown, running, kind, churn, received, lost

Fan == INSTANCE TelnetFanout WITH MaxSpots <- FanSpots

\* What the constants of the model are
FanConstants == NumWorkers \in Nat \ {0} /\ FanSpots \in Nat

\* What a client is offered, and by whom
Entries == [by : Fan!Workers \cup {Fan!Pipeline}, spot : Fan!SpotIds]

\* Clients, shards, queues and what was offered
FanTypes ==
  /\ clients \subseteq Clients
  /\ clientShards = <<>> \/ clientShards \in [Fan!Workers -> SUBSET Clients]
  /\ broadcast \in Seq(Fan!SpotIds)
  /\ workerQueues \in [Fan!Workers -> Seq(Fan!Jobs)] /\ batch \in [Fan!Workers -> Seq(Fan!Jobs)]
  /\ received \in [Clients -> Seq(Entries)]
  /\ kind \in Seq(Kinds) /\ Len(kind) <= FanSpots

\* The jobs of a queue, which a worker takes in the order of their spots
JobsOf(q) == {q[i] : i \in 1 .. Len(q)}
Increasing(q) == \A i, j \in 1 .. Len(q) : i < j => q[i].spot < q[j].spot
Pending(w) == JobsOf(batch[w]) \cup JobsOf(workerQueues[w])

\* Spots move on in their order: those still to be dispatched are newer than those that
\* the workers have, and of these the waiting ones newer than the ones taken.
InOrder ==
  /\ \A i, j \in 1 .. Len(broadcast) : i < j => broadcast[i] < broadcast[j]
  /\ \A i \in 1 .. Len(broadcast) : broadcast[i] <= Len(kind)
  /\ \A w \in Fan!Workers :
       /\ Increasing(batch[w]) /\ Increasing(workerQueues[w])
       /\ \A p \in JobsOf(batch[w]), q \in JobsOf(workerQueues[w]) : p.spot < q.spot
       /\ \A p \in Pending(w) : /\ p.spot <= Len(kind)
                                /\ \A i \in 1 .. Len(broadcast) : p.spot < broadcast[i]

\* A client is in one shard of a spot.
Disjoint(P, Q) == \A p \in P, q \in Q : p.spot = q.spot => p.clients \cap q.clients = {}
Split ==
  /\ clientShards # <<>> =>
       \A v, w \in Fan!Workers : v # w => clientShards[v] \cap clientShards[w] = {}
  /\ \A v, w \in Fan!Workers : v # w => Disjoint(Pending(v), Pending(w))

\* What client c has been offered, the entry e, is neither among the spots b to be dispatched
\* nor among its jobs P of a worker w, and is older than those of the worker that offered it.
Undispatched(e, b) ==
  \A k \in 1 .. Len(b) : e.spot # b[k] /\ (e.by \in Fan!Workers => e.spot < b[k])
Undelivered(c, e, w, P) ==
  \A p \in P : c \in p.clients => e.spot # p.spot /\ (e.by = w => e.spot < p.spot)
Behind ==
  \A c \in Clients : \A i \in 1 .. Len(received[c]) :
    /\ received[c][i].spot <= Len(kind)
    /\ Undispatched(received[c][i], broadcast)
    /\ \A w \in Fan!Workers : Undelivered(c, received[c][i], w, Pending(w))

\* The inductive invariant
FanInv == FanTypes /\ InOrder /\ Split /\ Behind /\ Fan!DeliveredInOrder

\* What taking the first job leaves
LEMMA JobTaken ==
  ASSUME NEW q \in Seq(Fan!Jobs), q # <<>>, Increasing(q)
  PROVE  /\ Head(q) \in Fan!Jobs /\ Head(q) \in JobsOf(q)
         /\ Tail(q) \in Seq(Fan!Jobs) /\ Increasing(Tail(q)) /\ JobsOf(Tail(q)) \subseteq JobsOf(q)
         /\ \A p \in JobsOf(Tail(q)) : Head(q).spot < p.spot
  <1>1. /\ Head(q) = q[1] /\ q[1] \in Fan!Jobs /\ Tail(q) \in Seq(Fan!Jobs) /\ Len(q) \in Nat /\ Len(q) >= 1
        /\ Len(Tail(q)) = Len(q) - 1 /\ \A i \in 1 .. Len(q) - 1 : Tail(q)[i] = q[i + 1]
    OBVIOUS
  <1>2. Increasing(Tail(q))
    BY <1>1 DEF Increasing
  <1>3. ASSUME NEW p \in JobsOf(Tail(q))
        PROVE  p \in JobsOf(q) /\ Head(q).spot < p.spot
    <2>1. PICK i \in 1 .. Len(q) - 1 : p = q[i + 1]
      BY <1>1 DEF JobsOf
    <2>2. i + 1 \in 1 .. Len(q) /\ 1 \in 1 .. Len(q) /\ 1 < i + 1
      BY <1>1
    <2> QED
      BY <1>1, <2>1, <2>2 DEF JobsOf, Increasing
  <1>4. Head(q) \in JobsOf(q)
    BY <1>1 DEF JobsOf
  <1> QED
    BY <1>1, <1>2, <1>3, <1>4

\* A newer job at the end
LEMMA JobAppended ==
  ASSUME NEW q \in Seq(Fan!Jobs), NEW j \in Fan!Jobs, Increasing(q), \A p \in JobsOf(q) : p.spot < j.spot
  PROVE  /\ Append(q, j) \in Seq(Fan!Jobs) /\ Increasing(Append(q, j))
         /\ JobsOf(Append(q, j)) = JobsOf(q) \cup {j}
  <1> DEFINE r == Append(q, j)
  <1>1. /\ r \in Seq(Fan!Jobs) /\ Len(q) \in Nat /\ Len(r) = Len(q) + 1
        /\ \A i \in 1 .. Len(q) : r[i] = q[i]
        /\ r[Len(q) + 1] = j
    OBVIOUS
  <1> HIDE DEF r
  <1>2. \A i \in 1 .. Len(r) : i \in 1 .. Len(q) \/ i = Len(q) + 1
    BY <1>1
  <1>3. Len(q) + 1 \in 1 .. Len(r) /\ \A i \in 1 .. Len(q) : i \in 1 .. Len(r)
    BY <1>1
  <1>4. JobsOf(r) = JobsOf(q) \cup {j}
    <2>1. \A p \in JobsOf(r) : p \in JobsOf(q) \/ p = j
      BY <1>1, <1>2 DEF JobsOf
    <2>2. \A p \in JobsOf(q) : p \in JobsOf(r)
      BY <1>1, <1>3, SMTT(30) DEF JobsOf
    <2>3. j \in JobsOf(r)
      BY <1>1, <1>3 DEF JobsOf
    <2> QED
      BY <2>1, <2>2, <2>3
  <1>5. ASSUME NEW i \in 1 .. Len(r), NEW k \in 1 .. Len(r), i < k
        PROVE  r[i].spot < r[k].spot
    <2>1. i \in 1 .. Len(q)
      BY <1>1, <1>5
    <2>2. q[i] \in JobsOf(q)
      BY <2>1 DEF JobsOf
    <2>3. CASE k \in 1 .. Len(q)
      BY <1>1, <1>5, <2>1, <2>3 DEF Increasing
    <2>4. CASE k = Len(q) + 1
      BY <1>1, <2>1, <2>2, <2>4
    <2> QED
      BY <1>2, <2>3, <2>4
  <1> QED
    BY <1>1, <1>4, <1>5 DEF r, Increasing

\* An older job in front
LEMMA JobInFront ==
  ASSUME NEW q \in Seq(Fan!Jobs), NEW j \in Fan!Jobs, Increasing(q), \A p \in JobsOf(q) : j.spot < p.spot
  PROVE  /\ <<j>> \o q \in Seq(Fan!Jobs) /\ Increasing(<<j>> \o q)
         /\ JobsOf(<<j>> \o q) = JobsOf(q) \cup {j}
  <1> DEFINE r == <<j>> \o q
  <1>1. /\ r \in Seq(Fan!Jobs) /\ Len(q) \in Nat /\ Len(r) = Len(q) + 1
        /\ \A i \in 1 .. Len(q) : r[i + 1] = q[i]
        /\ r[1] = j
    OBVIOUS
  <1> HIDE DEF r
  <1>2. \A i \in 1 .. Len(r) : i = 1 \/ (i - 1 \in 1 .. Len(q) /\ r[i] = q[i - 1])
    <2> TAKE i \in 1 .. Len(r)
    <2>1. CASE i # 1
      <3>1. i - 1 \in 1 .. Len(q) /\ (i - 1) + 1 = i
        BY <1>1, <2>1
      <3> QED
        BY <1>1, <3>1
    <2> QED
      BY <2>1
  <1>3. 1 \in 1 .. Len(r) /\ \A i \in 1 .. Len(q) : i + 1 \in 1 .. Len(r)
    BY <1>1
  <1>4. JobsOf(r) = JobsOf(q) \cup {j}
    <2>1. \A p \in JobsOf(r) : p \in JobsOf(q) \/ p = j
      BY <1>1, <1>2 DEF JobsOf
    <2>2. \A p \in JobsOf(q) : p \in JobsOf(r)
      BY <1>1, <1>3 DEF JobsOf
    <2>3. j \in JobsOf(r)
      BY <1>1, <1>3 DEF JobsOf
    <2> QED
      BY <2>1, <2>2, <2>3
  <1>5. ASSUME NEW i \in 1 .. Len(r), NEW k \in 1 .. Len(r), i < k
        PROVE  r[i].spot < r[k].spot
    <2>1. k # 1 /\ k - 1 \in 1 .. Len(q) /\ r[k] = q[k - 1]
      BY <1>1, <1>2, <1>5
    <2>2. q[k - 1] \in JobsOf(q)
      BY <2>1 DEF JobsOf
    <2>3. CASE i = 1
      BY <1>1, <2>1, <2>2, <2>3
    <2>4. CASE i # 1
      <3>1. i - 1 \in 1 .. Len(q) /\ r[i] = q[i - 1] /\ i - 1 < k - 1
        BY <1>1, <1>2, <1>5, <2>4
      <3> QED
        BY <2>1, <3>1 DEF Increasing
    <2> QED
      BY <2>3, <2>4
  <1> QED
    BY <1>1, <1>4, <1>5 DEF r, Increasing

\* At first nothing waits and nothing was offered.
LEMMA FanInit ==
  ASSUME FanConstants, Fan!Init
  PROVE  FanInv
  <1>1. FanTypes
    BY DEF Fan!Init, FanConstants, FanTypes
  <1>2. \A w \in Fan!Workers : batch[w] = <<>> /\ workerQueues[w] = <<>>
    BY DEF Fan!Init
  <1>3. Len(<<>>) = 0 /\ JobsOf(<<>>) = {} /\ Increasing(<<>>)
    BY DEF JobsOf, Increasing
  <1>4. \A w \in Fan!Workers : Pending(w) = {}
    BY <1>2, <1>3 DEF Pending
  <1>5. \A c \in Clients : received[c] = <<>>
    BY DEF Fan!Init
  <1>6. 1 .. 0 = {} /\ broadcast = <<>> /\ clientShards = <<>>
    BY DEF Fan!Init
  <1>7. InOrder
    BY <1>2, <1>3, <1>4, <1>6, Zenon DEF InOrder
  <1>8. Split
    BY <1>4, <1>6, Zenon DEF Split, Disjoint
  <1>9. Behind /\ Fan!DeliveredInOrder
    BY <1>3, <1>5, <1>6, Zenon DEF Behind, Fan!DeliveredInOrder
  <1> QED
    BY <1>1, <1>7, <1>8, <1>9 DEF FanInv

\* What was offered stays in order when nothing is offered.
LEMMA SameOrder ==
  ASSUME Fan!DeliveredInOrder, UNCHANGED received
  PROVE  Fan!DeliveredInOrder'
  BY DEF Fan!DeliveredInOrder

\* A step that changes neither queues, shards nor what was offered
LEMMA FanQuiet ==
  ASSUME FanInv, clients' \subseteq Clients,
         UNCHANGED <<clientShards, broadcast, workerQueues, batch, received, kind>>
  PROVE  FanInv'
  <1>1. FanTypes'
    BY DEF FanInv, FanTypes
  <1>2. \A w \in Fan!Workers : Pending(w)' = Pending(w)
    BY DEF Pending
  <1>3. InOrder'
    BY <1>2, Zenon DEF FanInv, InOrder
  <1>4. Split' /\ Behind'
    BY <1>2, Zenon DEF FanInv, Split, Behind
  <1>5. Fan!DeliveredInOrder'
    BY SameOrder, Zenon DEF FanInv
  <1> QED
    BY <1>1, <1>3, <1>4, <1>5 DEF FanInv

\* The jobs a worker has are jobs, for spots that there are.
LEMMA SpotKnown ==
  ASSUME FanTypes, NEW w \in Fan!Workers, NEW p \in Pending(w)
  PROVE  p \in Fan!Jobs /\ p.spot \in Fan!SpotIds /\ p.clients \subseteq Clients
  <1>1. batch[w] \in Seq(Fan!Jobs) /\ workerQueues[w] \in Seq(Fan!Jobs)
    BY DEF FanTypes
  <1>2. \A q \in Seq(Fan!Jobs) : \A r \in JobsOf(q) : r \in Fan!Jobs
    BY DEF JobsOf
  <1>3. p \in Fan!Jobs
    BY <1>1, <1>2, Zenon DEF Pending
  <1> QED
    BY <1>3 DEF Fan!Jobs

\* The entry e is appended to what client c has been offered.
OneMore(c, e) ==
  /\ received' \in [Clients -> Seq(Entries)]
  /\ \A d \in Clients : \A i \in 1 .. Len(received'[d]) :
       \/ i \in 1 .. Len(received[d]) /\ received'[d][i] = received[d][i]
       \/ d = c /\ received'[d][i] = e

\* A client is offered a spot that it was not offered before, and that is newer than those
\* the same one offered it.
LEMMA OfferInOrder ==
  ASSUME FanTypes, Fan!DeliveredInOrder, NEW c \in Clients, NEW by, NEW n, [by |-> by, spot |-> n] \in Entries,
         received' = Fan!Offered(c, by, n),
         \A i \in 1 .. Len(received[c]) : /\ received[c][i].spot # n
                                          /\ received[c][i].by = by => received[c][i].spot < n
  PROVE  OneMore(c, [by |-> by, spot |-> n]) /\ Fan!DeliveredInOrder'
  <1> DEFINE e == [by |-> by, spot |-> n]
             r == Append(received[c], e)
  <1>1. received' = [received EXCEPT ![c] = r] /\ e.spot = n /\ e.by = by /\ e \in Entries
    BY DEF Fan!Offered
  <1> HIDE DEF e
  <1>2. /\ received[c] \in Seq(Entries) /\ r \in Seq(Entries) /\ Len(received[c]) \in Nat
        /\ Len(r) = Len(received[c]) + 1 /\ r[Len(received[c]) + 1] = e
        /\ \A i \in 1 .. Len(received[c]) : r[i] = received[c][i]
    BY <1>1 DEF FanTypes
  <1> HIDE DEF r
  <1>3. /\ received' \in [Clients -> Seq(Entries)] /\ received'[c] = r
        /\ \A d \in Clients \ {c} : received'[d] = received[d]
    BY <1>1, <1>2 DEF FanTypes
  <1>4. \A i \in 1 .. Len(r) : i \in 1 .. Len(received[c]) \/ i = Len(received[c]) + 1
    BY <1>2
  <1>5. ASSUME NEW i \in 1 .. Len(r), NEW j \in 1 .. Len(r), i < j
        PROVE  r[i].spot # r[j].spot /\ (r[i].by = r[j].by => r[i].spot < r[j].spot)
    <2>1. i \in 1 .. Len(received[c]) /\ r[i] = received[c][i]
      BY <1>2, <1>5, SMTT(30)
    <2>2. CASE j \in 1 .. Len(received[c])
      BY <1>2, <1>5, <2>1, <2>2, SMTT(30) DEF Fan!DeliveredInOrder
    <2>3. CASE j = Len(received[c]) + 1
      BY <1>1, <1>2, <2>1, <2>3, ZenonT(20)
    <2> QED
      BY <1>4, <2>2, <2>3
  <1>6. Fan!DeliveredInOrder'
    <2> SUFFICES ASSUME NEW d \in Clients, NEW i \in 1 .. Len(received'[d]), NEW j \in 1 .. Len(received'[d]), i < j
                 PROVE  /\ received'[d][i].spot # received'[d][j].spot
                        /\ received'[d][i].by = received'[d][j].by => received'[d][i].spot < received'[d][j].spot
      BY Zenon DEF Fan!DeliveredInOrder
    <2>1. CASE d = c
      BY <2>1, <1>3, <1>5, SMTT(30)
    <2>2. CASE d # c
      BY <2>2, <1>3, SMTT(30) DEF Fan!DeliveredInOrder
    <2> QED
      BY <2>1, <2>2
  <1>7. \A i \in 1 .. Len(r) : (i \in 1 .. Len(received[c]) /\ r[i] = received[c][i]) \/ r[i] = e
    BY <1>2, <1>4
  <1>8. OneMore(c, e)
    BY <1>3, <1>7 DEF OneMore
  <1> QED
    BY <1>6, <1>8 DEF e

\* The pipeline outputs a spot.
LEMMA FanOutput ==
  ASSUME FanConstants, FanInv, NEW k \in Kinds, Fan!Output(k)
  PROVE  FanInv'
  <1> DEFINE n == Len(kind) + 1
  <1>0. FanTypes /\ InOrder /\ Split /\ Behind /\ Fan!DeliveredInOrder
    BY DEF FanInv
  <1>1. /\ kind' = Append(kind, k) /\ n <= FanSpots
        /\ UNCHANGED <<clients, clientShards, workerQueues, batch>>
        /\ IF k.allow = {} THEN Fan!DeliverSelfSpot(n, k) ELSE Fan!BroadcastSpot(n)
    BY DEF Fan!Output, Fan!registry, Fan!pool
  <1>2. /\ kind' \in Seq(Kinds) /\ Len(kind') = n /\ n \in Fan!SpotIds /\ Len(kind) \in Nat /\ n \in Nat
        /\ Len(kind') <= FanSpots
    BY <1>0, <1>1 DEF FanTypes, Fan!SpotIds, FanConstants
  <1>3. \A w \in Fan!Workers : Pending(w)' = Pending(w)
    BY <1>1 DEF Pending
  <1>4. Split'
    BY <1>0, <1>1, <1>3, Zenon DEF Split
  <1>5. \A m \in Fan!SpotIds : m <= Len(kind) => m < n /\ m # n /\ m <= n
    BY <1>2 DEF Fan!SpotIds
  <1> HIDE DEF n
  <1>6. \A i \in 1 .. Len(broadcast) : broadcast[i] < n /\ broadcast[i] # n /\ broadcast[i] <= Len(kind')
    <2> TAKE i \in 1 .. Len(broadcast)
    <2>1. broadcast[i] \in Fan!SpotIds
      BY <1>0 DEF FanTypes
    <2>2. broadcast[i] <= Len(kind)
      BY <1>0, Zenon DEF InOrder
    <2> QED
      BY <1>2, <1>5, <2>1, <2>2, Zenon
  <1>7. \A w \in Fan!Workers : \A p \in Pending(w) : p.spot < n /\ p.spot # n /\ p.spot <= Len(kind')
    <2> TAKE w \in Fan!Workers
    <2> TAKE p \in Pending(w)
    <2>1. p.spot \in Fan!SpotIds
      BY <1>0, SpotKnown
    <2>2. p.spot <= Len(kind)
      BY <1>0, Zenon DEF InOrder
    <2> QED
      BY <1>2, <1>5, <2>1, <2>2, Zenon
  <1>8. \A c \in Clients : \A i \in 1 .. Len(received[c]) :
          received[c][i].spot < n /\ received[c][i].spot # n /\ received[c][i].spot <= Len(kind')
    <2> TAKE c \in Clients
    <2> TAKE i \in 1 .. Len(received[c])
    <2>1. received[c] \in Seq(Entries)
      BY <1>0 DEF FanTypes
    <2>3. received[c][i] \in Entries
      BY <2>1
    <2>4. received[c][i].spot \in Fan!SpotIds
      BY <2>3 DEF Entries
    <2>2. received[c][i].spot <= Len(kind)
      BY <1>0, Zenon DEF Behind
    <2> QED
      BY <1>2, <1>5, <2>4, <2>2, Zenon
  <1>9. CASE UNCHANGED <<broadcast, received>>
    <2>1. FanTypes'
      BY <1>0, <1>1, <1>2, <1>9 DEF FanTypes
    <2>2. InOrder'
      BY <1>0, <1>1, <1>3, <1>6, <1>7, <1>9, Zenon DEF InOrder
    <2>3. Behind'
      BY <1>0, <1>1, <1>3, <1>8, <1>9, Zenon DEF Behind
    <2>4. Fan!DeliveredInOrder'
      BY <1>0, <1>9, SameOrder
    <2> QED
      BY <1>4, <2>1, <2>2, <2>3, <2>4 DEF FanInv
  <1>10. CASE broadcast' = Append(broadcast, n) /\ UNCHANGED received
    <2>1. /\ broadcast \in Seq(Fan!SpotIds) /\ broadcast' \in Seq(Fan!SpotIds) /\ Len(broadcast) \in Nat
          /\ Len(broadcast') = Len(broadcast) + 1 /\ broadcast'[Len(broadcast) + 1] = n
          /\ \A i \in 1 .. Len(broadcast) : broadcast'[i] = broadcast[i]
      BY <1>0, <1>2, <1>10 DEF FanTypes
    <2>2. \A i \in 1 .. Len(broadcast') : \/ i \in 1 .. Len(broadcast) /\ broadcast'[i] = broadcast[i]
                                          \/ broadcast'[i] = n
      BY <2>1
    <2>4. FanTypes'
      BY <1>0, <1>1, <1>2, <1>10, <2>1 DEF FanTypes
    <2>5. \A i, j \in 1 .. Len(broadcast') : i < j => broadcast'[i] < broadcast'[j]
      <3> SUFFICES ASSUME NEW i \in 1 .. Len(broadcast'), NEW j \in 1 .. Len(broadcast'), i < j
                   PROVE  broadcast'[i] < broadcast'[j]
        OBVIOUS
      <3>1. i \in 1 .. Len(broadcast) /\ broadcast'[i] = broadcast[i]
        BY <2>1
      <3>2. CASE j \in 1 .. Len(broadcast) /\ broadcast'[j] = broadcast[j]
        BY <3>1, <3>2, <1>0 DEF InOrder
      <3>3. CASE broadcast'[j] = n
        BY <3>1, <3>3, <1>6
      <3> QED
        BY <2>2, <3>2, <3>3
    <2>6. \A i \in 1 .. Len(broadcast') : broadcast'[i] <= Len(kind')
      BY <1>2, <1>6, <2>2
    <2>7. \A w \in Fan!Workers : \A p \in Pending(w) : \A i \in 1 .. Len(broadcast') : p.spot < broadcast'[i]
      <3> TAKE w \in Fan!Workers
      <3> TAKE p \in Pending(w)
      <3>2. \A i \in 1 .. Len(broadcast) : p.spot < broadcast[i]
        BY <1>0, Zenon DEF InOrder
      <3> QED
        BY <1>7, <2>2, <3>2, Zenon
    <2>8. InOrder'
      BY <1>0, <1>1, <1>3, <1>7, <2>5, <2>6, <2>7, Zenon DEF InOrder
    <2>9. \A c \in Clients : \A i \in 1 .. Len(received[c]) : Undispatched(received[c][i], broadcast')
      <3> TAKE c \in Clients
      <3> TAKE i \in 1 .. Len(received[c])
      <3>1. received[c][i].spot < n /\ received[c][i].spot # n
        BY <1>8, Zenon
      <3>2. Undispatched(received[c][i], broadcast)
        BY <1>0, Zenon DEF Behind
      <3> QED
        BY <2>2, <3>1, <3>2, Zenon DEF Undispatched
    <2>10. Behind'
      BY <1>0, <1>1, <1>3, <1>8, <1>10, <2>9, Zenon DEF Behind
    <2>11. Fan!DeliveredInOrder'
      BY <1>0, <1>10, SameOrder
    <2> QED
      BY <1>4, <2>4, <2>8, <2>10, <2>11 DEF FanInv
  <1>11. ASSUME NEW c \in Clients, received' = Fan!Offered(c, Fan!Pipeline, n), UNCHANGED broadcast
         PROVE  FanInv'
    <2> DEFINE e == [by |-> Fan!Pipeline, spot |-> n]
    <2>1. e \in Entries /\ e.by \notin Fan!Workers /\ e.spot = n
      BY <1>2 DEF Entries, Fan!Pipeline, Fan!Workers, FanConstants
    <2>2. OneMore(c, e) /\ Fan!DeliveredInOrder'
      BY <1>0, <1>8, <1>11, <2>1, OfferInOrder, Zenon
    <2> HIDE DEF e
    <2>3. FanTypes'
      BY <1>0, <1>1, <1>2, <1>11, <2>2 DEF FanTypes, OneMore
    <2>4. InOrder'
      BY <1>0, <1>1, <1>3, <1>6, <1>7, <1>11, Zenon DEF InOrder
    <2>5. Undispatched(e, broadcast)
      BY <1>6, <2>1, Zenon DEF Undispatched
    <2>6. \A w \in Fan!Workers : Undelivered(c, e, w, Pending(w))
      BY <1>7, <2>1, Zenon DEF Undelivered
    <2>7. e.spot <= Len(kind')
      BY <1>2, <2>1
    <2>8. ASSUME NEW d \in Clients, NEW i \in 1 .. Len(received'[d])
          PROVE  /\ received'[d][i].spot <= Len(kind')
                 /\ Undispatched(received'[d][i], broadcast)
                 /\ \A w \in Fan!Workers : Undelivered(d, received'[d][i], w, Pending(w))
      <3>1. CASE i \in 1 .. Len(received[d]) /\ received'[d][i] = received[d][i]
        BY <3>1, <1>8, <1>0, Zenon DEF Behind
      <3>2. CASE d = c /\ received'[d][i] = e
        BY <3>2, <2>5, <2>6, <2>7, Zenon
      <3> QED
        BY <2>2, <3>1, <3>2, Zenon DEF OneMore
    <2>9. Behind'
      BY <1>1, <1>3, <1>11, <2>8, Zenon DEF Behind
    <2> QED
      BY <1>4, <2>2, <2>3, <2>4, <2>9 DEF FanInv
  <1> QED
    <2>1. clients \subseteq Clients
      BY <1>0 DEF FanTypes
    <2> QED
      BY <1>1, <1>9, <1>10, <1>11, <2>1, Zenon DEF Fan!BroadcastSpot, Fan!DeliverSelfSpot

\* Each job of P was one of Q, perhaps with more clients.
Contained(P, Q) == \A p \in P : \E q \in Q : p.spot = q.spot /\ p.clients \subseteq q.clients

\* Spots before everything that is still to be dispatched
Past(P) == \A p \in P : /\ p.spot <= Len(kind)
                        /\ \A i \in 1 .. Len(broadcast) : p.spot < broadcast[i]

\* The workers' jobs only become fewer.
LEMMA FanShrunk ==
  ASSUME FanInv, UNCHANGED <<clientShards, broadcast, kind>>,
         \A v \in Fan!Workers : Contained(Pending(v)', Pending(v))
  PROVE  /\ Split' /\ \A v \in Fan!Workers : Past(Pending(v)')
         /\ \A c \in Clients : \A i \in 1 .. Len(received[c]) : \A v \in Fan!Workers :
              Undelivered(c, received[c][i], v, Pending(v)')
  <1>0. FanTypes /\ InOrder /\ Split /\ Behind
    BY ZenonT(20) DEF FanInv
  <1>1. ASSUME NEW v \in Fan!Workers, NEW w \in Fan!Workers, v # w
        PROVE  Disjoint(Pending(v)', Pending(w)')
    <2> SUFFICES ASSUME NEW p \in Pending(v)', NEW q \in Pending(w)', p.spot = q.spot
                 PROVE  p.clients \cap q.clients = {}
      BY Zenon DEF Disjoint
    <2>0. Contained(Pending(v)', Pending(v)) /\ Contained(Pending(w)', Pending(w))
      OBVIOUS
    <2>1. PICK pp \in Pending(v) : p.spot = pp.spot /\ p.clients \subseteq pp.clients
      BY <2>0, Zenon DEF Contained
    <2>2. PICK qq \in Pending(w) : q.spot = qq.spot /\ q.clients \subseteq qq.clients
      BY <2>0, Zenon DEF Contained
    <2>3. Disjoint(Pending(v), Pending(w))
      BY <1>0, <1>1, Zenon DEF Split
    <2>4. pp.clients \cap qq.clients = {}
      BY <2>1, <2>2, <2>3, Zenon DEF Disjoint
    <2> QED
      BY <2>1, <2>2, <2>4
  <1>2. Split'
    BY <1>0, <1>1, Zenon DEF Split
  <1>3. ASSUME NEW v \in Fan!Workers
        PROVE  Past(Pending(v)')
    <2> SUFFICES ASSUME NEW p \in Pending(v)'
                 PROVE  p.spot <= Len(kind) /\ \A i \in 1 .. Len(broadcast) : p.spot < broadcast[i]
      BY Zenon DEF Past
    <2>1. PICK pp \in Pending(v) : p.spot = pp.spot
      BY Zenon DEF Contained
    <2> QED
      BY <1>0, <2>1, Zenon DEF InOrder
  <1>4. ASSUME NEW c \in Clients, NEW i \in 1 .. Len(received[c]), NEW v \in Fan!Workers
        PROVE  Undelivered(c, received[c][i], v, Pending(v)')
    <2> DEFINE e == received[c][i]
    <2>1. Undelivered(c, e, v, Pending(v))
      BY <1>0, Zenon DEF Behind
    <2> HIDE DEF e
    <2>2. ASSUME NEW p \in Pending(v)', c \in p.clients
          PROVE  e.spot # p.spot /\ (e.by = v => e.spot < p.spot)
      <3>1. PICK pp \in Pending(v) : p.spot = pp.spot /\ p.clients \subseteq pp.clients
        BY <2>2, Zenon DEF Contained
      <3>2. c \in pp.clients
        BY <2>2, <3>1, SMTT(30)
      <3> QED
        BY <2>1, <3>1, <3>2, Zenon DEF Undelivered
    <2> QED
      BY <2>2, Zenon DEF Undelivered, e
  <1> QED
    BY <1>2, <1>3, <1>4, Zenon

\* A worker takes a job.
LEMMA FanTake ==
  ASSUME FanConstants, FanInv, NEW w \in Fan!Workers, Fan!TakeJob(w)
  PROVE  FanInv'
  <1> DEFINE b == batch[w]  q == workerQueues[w]  j == Head(q)
  <1>0. FanTypes /\ InOrder /\ Split /\ Behind /\ Fan!DeliveredInOrder
    BY DEF FanInv
  <1>1. /\ q # <<>> /\ batch' = [batch EXCEPT ![w] = Append(b, j)]
        /\ workerQueues' = [workerQueues EXCEPT ![w] = Tail(q)]
        /\ UNCHANGED <<clients, clientShards, broadcast, received, kind>>
    BY DEF Fan!TakeJob, Fan!Taken, Fan!registry, Fan!input
  <1>2. /\ b \in Seq(Fan!Jobs) /\ q \in Seq(Fan!Jobs) /\ Increasing(b) /\ Increasing(q)
        /\ \A p \in JobsOf(b), r \in JobsOf(q) : p.spot < r.spot
    <2>1. b \in Seq(Fan!Jobs) /\ q \in Seq(Fan!Jobs)
      BY <1>0 DEF FanTypes
    <2> QED
      BY <1>0, <2>1, Zenon DEF InOrder
  <1>14. Pending(w) = JobsOf(b) \cup JobsOf(q)
    BY DEF Pending
  <1> HIDE DEF b, q
  <1>3. /\ j \in Fan!Jobs /\ j \in JobsOf(q)
        /\ Tail(q) \in Seq(Fan!Jobs) /\ Increasing(Tail(q)) /\ JobsOf(Tail(q)) \subseteq JobsOf(q)
        /\ \A p \in JobsOf(Tail(q)) : j.spot < p.spot
    BY <1>1, <1>2, JobTaken
  <1> HIDE DEF j
  <1>4. \A p \in JobsOf(b) : p.spot < j.spot
    BY <1>2, <1>3, Zenon
  <1>5. Append(b, j) \in Seq(Fan!Jobs) /\ Increasing(Append(b, j)) /\ JobsOf(Append(b, j)) = JobsOf(b) \cup {j}
    BY <1>2, <1>3, <1>4, JobAppended
  <1>6. /\ batch' \in [Fan!Workers -> Seq(Fan!Jobs)] /\ workerQueues' \in [Fan!Workers -> Seq(Fan!Jobs)]
        /\ batch'[w] = Append(b, j) /\ workerQueues'[w] = Tail(q)
        /\ \A v \in Fan!Workers \ {w} : batch'[v] = batch[v] /\ workerQueues'[v] = workerQueues[v]
    BY <1>0, <1>1, <1>3, <1>5 DEF FanTypes
  <1>7. FanTypes'
    BY <1>0, <1>1, <1>6 DEF FanTypes
  <1>8. \A v \in Fan!Workers : Contained(Pending(v)', Pending(v))
    <2> TAKE v \in Fan!Workers
    <2>1. CASE v = w
      <3>1. Pending(v)' = JobsOf(Append(b, j)) \cup JobsOf(Tail(q))
        BY <1>6, <2>1, Zenon DEF Pending
      <3>2. Pending(v)' \subseteq Pending(v)
        BY <1>14, <1>3, <1>5, <2>1, <3>1
      <3> QED
        BY <3>2, SMTT(30) DEF Contained
    <2>2. CASE v # w
      <3>1. Pending(v)' = Pending(v)
        BY <1>6, <2>2 DEF Pending
      <3> QED
        BY <3>1 DEF Contained
    <2> QED
      BY <2>1, <2>2
  <1>9. /\ Split' /\ \A v \in Fan!Workers : Past(Pending(v)')
        /\ \A c \in Clients : \A i \in 1 .. Len(received[c]) : \A v \in Fan!Workers :
             Undelivered(c, received[c][i], v, Pending(v)')
    BY <1>1, <1>8, FanShrunk, Zenon
  <1>10. \A v \in Fan!Workers :
           /\ Increasing(batch'[v]) /\ Increasing(workerQueues'[v])
           /\ \A p \in JobsOf(batch'[v]), r \in JobsOf(workerQueues'[v]) : p.spot < r.spot
    <2> TAKE v \in Fan!Workers
    <2>1. CASE v = w
      <3>1. \A p \in JobsOf(b) \cup {j}, r \in JobsOf(Tail(q)) : p.spot < r.spot
        BY <1>2, <1>3
      <3> QED
        BY <1>3, <1>5, <1>6, <2>1, <3>1, Zenon
    <2>2. CASE v # w
      BY <1>0, <1>6, <2>2, Zenon DEF InOrder
    <2> QED
      BY <2>1, <2>2
  <1>11. InOrder'
    BY <1>0, <1>1, <1>9, <1>10, Zenon DEF InOrder, Past
  <1>12. Behind'
    BY <1>0, <1>1, <1>9, Zenon DEF Behind
  <1>13. Fan!DeliveredInOrder'
    BY <1>0, <1>1, SameOrder
  <1> QED
    BY <1>7, <1>9, <1>11, <1>12, <1>13 DEF FanInv

\* The shards of a spot are disjoint sets of clients.
LEMMA ShardsApart ==
  ASSUME FanTypes, Split, Fan!cachedClientShards
  PROVE  /\ clientShards' \in [Fan!Workers -> SUBSET Clients]
         /\ \A v, w \in Fan!Workers : v # w => clientShards'[v] \cap clientShards'[w] = {}
  <1>1. CASE Fan!Stale
    <2>1. PICK f \in [clients -> Fan!Workers] : clientShards' = [w \in Fan!Workers |-> {c \in clients : f[c] = w}]
      BY <1>1 DEF Fan!cachedClientShards, Fan!Dealt
    <2> QED
      BY <2>1 DEF FanTypes
  <1>2. CASE ~Fan!Stale
    BY <1>2 DEF Fan!cachedClientShards, Fan!Stale, FanTypes, Split
  <1> QED
    BY <1>1, <1>2

\* handleBroadcasts hands the next spot to the workers.
LEMMA FanDispatch ==
  ASSUME FanConstants, FanInv, Fan!Dispatch
  PROVE  FanInv'
  <1> DEFINE n == Head(broadcast)
             job(w) == [spot |-> n, clients |-> clientShards'[w]]
  <1>0. FanTypes /\ InOrder /\ Split /\ Behind /\ Fan!DeliveredInOrder
    BY DEF FanInv
  <1>1. /\ broadcast # <<>> /\ broadcast' = Tail(broadcast) /\ Fan!cachedClientShards
        /\ workerQueues' = [w \in Fan!Workers |-> IF clientShards'[w] = {} THEN workerQueues[w]
                                                   ELSE Fan!Queued(w, job(w))]
        /\ UNCHANGED <<clients, batch, received, kind>>
    BY ZenonT(20) DEF Fan!Dispatch, Fan!input
  <1>2. /\ clientShards' \in [Fan!Workers -> SUBSET Clients]
        /\ \A v, w \in Fan!Workers : v # w => clientShards'[v] \cap clientShards'[w] = {}
    BY <1>0, <1>1, ShardsApart, ZenonT(20)
  <1>3. /\ broadcast \in Seq(Fan!SpotIds) /\ broadcast' \in Seq(Fan!SpotIds) /\ Len(broadcast) \in Nat
        /\ Len(broadcast) >= 1 /\ n = broadcast[1] /\ n \in Fan!SpotIds
        /\ Len(broadcast') = Len(broadcast) - 1
        /\ \A i \in 1 .. Len(broadcast) - 1 : broadcast'[i] = broadcast[i + 1]
    BY <1>0, <1>1, SMTT(30) DEF FanTypes
  <1>4. \A w \in Fan!Workers : job(w) \in Fan!Jobs /\ job(w).spot = n /\ job(w).clients = clientShards'[w]
    BY <1>2, <1>3 DEF Fan!Jobs
  <1>5. 1 \in 1 .. Len(broadcast) /\ \A i \in 1 .. Len(broadcast') :
           i + 1 \in 1 .. Len(broadcast) /\ 1 < i + 1 /\ broadcast'[i] = broadcast[i + 1]
    BY <1>3, SMTT(30)
  <1>6. \A w \in Fan!Workers : \/ workerQueues'[w] = workerQueues[w]
                               \/ workerQueues'[w] = Append(workerQueues[w], job(w))
    BY <1>1 DEF Fan!Queued
  <1> HIDE DEF n, job
  <1>7. /\ n <= Len(kind) /\ \A i \in 1 .. Len(broadcast') : n < broadcast'[i] /\ broadcast'[i] <= Len(kind)
    BY <1>0, <1>3, <1>5, Zenon DEF InOrder
  <1>8. \A i, k \in 1 .. Len(broadcast') : i < k => broadcast'[i] < broadcast'[k]
    <2> SUFFICES ASSUME NEW i \in 1 .. Len(broadcast'), NEW k \in 1 .. Len(broadcast'), i < k
                 PROVE  broadcast'[i] < broadcast'[k]
      OBVIOUS
    <2>1. i + 1 < k + 1
      BY <1>3
    <2> QED
      BY <1>0, <1>5, <2>1, Zenon DEF InOrder
  <1>9. \A w \in Fan!Workers : \A p \in Pending(w) :
          /\ p.spot <= Len(kind) /\ p.spot < n
          /\ \A i \in 1 .. Len(broadcast') : p.spot < broadcast'[i]
    BY <1>0, <1>3, <1>5, Zenon DEF InOrder
  <1>10. \A w \in Fan!Workers : \A p \in Pending(w) : p.spot # n
    <2> TAKE w \in Fan!Workers
    <2> TAKE p \in Pending(w)
    <2>1. p.spot \in Fan!SpotIds
      BY <1>0, SpotKnown, ZenonT(20)
    <2> QED
      BY <1>3, <1>9, <2>1 DEF Fan!SpotIds
  <1>11. ASSUME NEW w \in Fan!Workers
         PROVE  /\ workerQueues'[w] \in Seq(Fan!Jobs) /\ Increasing(workerQueues'[w])
                /\ JobsOf(workerQueues'[w]) \subseteq JobsOf(workerQueues[w]) \cup {job(w)}
    <2>1. workerQueues[w] \in Seq(Fan!Jobs)
      BY <1>0 DEF FanTypes
    <2>2. Increasing(workerQueues[w])
      BY <1>0, Zenon DEF InOrder
    <2>3. \A p \in JobsOf(workerQueues[w]) : p.spot < job(w).spot
      BY <1>4, <1>9 DEF Pending
    <2>4. CASE workerQueues'[w] = workerQueues[w]
      BY <2>1, <2>2, <2>4, ZenonT(20)
    <2>5. CASE workerQueues'[w] = Append(workerQueues[w], job(w))
      <3>1. /\ Append(workerQueues[w], job(w)) \in Seq(Fan!Jobs) /\ Increasing(Append(workerQueues[w], job(w)))
            /\ JobsOf(Append(workerQueues[w], job(w))) = JobsOf(workerQueues[w]) \cup {job(w)}
        BY <1>4, <2>1, <2>2, <2>3, JobAppended, ZenonT(20)
      <3> QED
        BY <2>5, <3>1, ZenonT(20)
    <2> QED
      BY <1>6, <2>4, <2>5, SMTT(30)
  <1>12. \A w \in Fan!Workers : \A p \in Pending(w)' : p \in Pending(w) \/ p = job(w)
    <2> TAKE w \in Fan!Workers
    <2> TAKE p \in Pending(w)'
    <2>1. p \in JobsOf(batch[w]) \/ p \in JobsOf(workerQueues'[w])
      BY <1>1, SMTT(30) DEF Pending
    <2> QED
      BY <1>11, <2>1 DEF Pending
  <1>13. FanTypes'
    <2>1. workerQueues' \in [Fan!Workers -> Seq(Fan!Jobs)]
      BY <1>1, <1>11, Zenon
    <2> QED
      BY <1>0, <1>1, <1>2, <1>3, <2>1, SMTT(30) DEF FanTypes
  <1>14. InOrder'
    <2>1. \A w \in Fan!Workers : \A p \in JobsOf(batch[w]), r \in JobsOf(workerQueues'[w]) : p.spot < r.spot
      <3> TAKE w \in Fan!Workers
      <3> TAKE p \in JobsOf(batch[w]), r \in JobsOf(workerQueues'[w])
      <3>1. CASE r \in JobsOf(workerQueues[w])
        BY <1>0, <3>1, Zenon DEF InOrder
      <3>2. CASE r = job(w)
        <4>1. p \in Pending(w)
          BY DEF Pending
        <4> QED
          BY <1>4, <1>9, <3>2, <4>1, SMTT(30)
      <3> QED
        BY <1>11, <3>1, <3>2, ZenonT(20)
    <2>2. \A w \in Fan!Workers : \A p \in Pending(w)' :
            p.spot <= Len(kind) /\ \A i \in 1 .. Len(broadcast') : p.spot < broadcast'[i]
      BY <1>4, <1>7, <1>9, <1>12, Zenon
    <2> QED
      BY <1>0, <1>1, <1>7, <1>8, <1>11, <2>1, <2>2, Zenon DEF InOrder
  <1>15. Split'
    <2>1. ASSUME NEW v \in Fan!Workers, NEW w \in Fan!Workers, v # w
          PROVE  Disjoint(Pending(v)', Pending(w)')
      <3> SUFFICES ASSUME NEW p \in Pending(v)', NEW q \in Pending(w)', p.spot = q.spot
                   PROVE  p.clients \cap q.clients = {}
        BY Zenon DEF Disjoint
      <3>1. CASE p \in Pending(v) /\ q \in Pending(w)
        BY <1>0, <2>1, <3>1, Zenon DEF Split, Disjoint
      <3>2. CASE p = job(v) /\ q = job(w)
        BY <1>2, <1>4, <2>1, <3>2
      <3> QED
        BY <1>4, <1>10, <1>12, <3>1, <3>2, Zenon
    <2> QED
      BY <1>2, <2>1, Zenon DEF Split
  <1>16. Behind'
    <2>1. ASSUME NEW c \in Clients, NEW i \in 1 .. Len(received[c])
          PROVE  /\ Undispatched(received[c][i], broadcast')
                 /\ \A w \in Fan!Workers : Undelivered(c, received[c][i], w, Pending(w)')
      <3> DEFINE e == received[c][i]
      <3>1. Undispatched(e, broadcast) /\ \A w \in Fan!Workers : Undelivered(c, e, w, Pending(w))
        BY <1>0, Zenon DEF Behind
      <3> HIDE DEF e
      <3>2. Undispatched(e, broadcast')
        BY <1>5, <3>1, Zenon DEF Undispatched
      <3>3. e.spot # n /\ (e.by \in Fan!Workers => e.spot < n)
        BY <1>3, <1>5, <3>1, Zenon DEF Undispatched
      <3>4. \A w \in Fan!Workers : Undelivered(c, e, w, Pending(w)')
        BY <1>4, <1>12, <3>1, <3>3, Zenon DEF Undelivered
      <3> QED
        BY <3>2, <3>4 DEF e
    <2> QED
      BY <1>0, <1>1, <2>1, Zenon DEF Behind
  <1>17. Fan!DeliveredInOrder'
    BY <1>0, <1>1, SameOrder, SMTT(30)
  <1> QED
    BY <1>13, <1>14, <1>15, <1>16, <1>17 DEF FanInv

\* What is left of a batch once client c was offered its first job
LEMMA RestOfBatch ==
  ASSUME FanInv, NEW w \in Fan!Workers, batch[w] # <<>>, NEW c \in Head(batch[w]).clients
  PROVE  /\ Fan!Rest(w, c) \in Seq(Fan!Jobs) /\ Increasing(Fan!Rest(w, c))
         /\ \A p \in JobsOf(Fan!Rest(w, c)) :
              \/ p \in JobsOf(batch[w]) /\ Head(batch[w]).spot < p.spot
              \/ /\ p.spot = Head(batch[w]).spot /\ p.clients \subseteq Head(batch[w]).clients
                 /\ c \notin p.clients
  <1> DEFINE b == batch[w]  j == Head(b)  r == [j EXCEPT !.clients = @ \ {c}]
  <1>1. b \in Seq(Fan!Jobs) /\ b # <<>>
    BY DEF FanInv, FanTypes
  <1>2. Increasing(b)
    BY Zenon DEF FanInv, InOrder
  <1>3. Fan!Rest(w, c) = Tail(b) \/ Fan!Rest(w, c) = <<r>> \o Tail(b)
    BY SMTT(30) DEF Fan!Rest
  <1> HIDE DEF b
  <1>4. /\ j \in Fan!Jobs /\ Tail(b) \in Seq(Fan!Jobs) /\ Increasing(Tail(b)) /\ JobsOf(Tail(b)) \subseteq JobsOf(b)
        /\ \A p \in JobsOf(Tail(b)) : j.spot < p.spot
    BY <1>1, <1>2, JobTaken
  <1>5. r \in Fan!Jobs /\ r.spot = j.spot /\ r.clients = j.clients \ {c}
    BY <1>4 DEF Fan!Jobs
  <1> HIDE DEF r
  <1>6. /\ <<r>> \o Tail(b) \in Seq(Fan!Jobs) /\ Increasing(<<r>> \o Tail(b))
        /\ JobsOf(<<r>> \o Tail(b)) = JobsOf(Tail(b)) \cup {r}
    <2>1. \A p \in JobsOf(Tail(b)) : r.spot < p.spot
      BY <1>4, <1>5
    <2> QED
      BY <1>4, <1>5, <2>1, JobInFront, Zenon
  <1>7. \A p \in JobsOf(Fan!Rest(w, c)) : p \in JobsOf(Tail(b)) \/ p = r
    BY <1>3, <1>6, Zenon
  <1>8. Fan!Rest(w, c) \in Seq(Fan!Jobs) /\ Increasing(Fan!Rest(w, c))
    BY <1>3, <1>4, <1>6, ZenonT(30)
  <1>9. ASSUME NEW p \in JobsOf(Fan!Rest(w, c))
        PROVE  \/ p \in JobsOf(b) /\ j.spot < p.spot
               \/ p.spot = j.spot /\ p.clients \subseteq j.clients /\ c \notin p.clients
    BY <1>4, <1>5, <1>7
  <1> QED
    BY <1>8, <1>9 DEF b

\* A worker offers the first job of its batch to a client, or finds that it is not for it.
LEMMA FanDeliver ==
  ASSUME FanConstants, FanInv, NEW w \in Fan!Workers, Fan!Deliver(w)
  PROVE  FanInv'
  <1> DEFINE j == Head(batch[w])
  <1>0. FanTypes /\ InOrder /\ Split /\ Behind /\ Fan!DeliveredInOrder
    BY DEF FanInv
  <1>1. batch[w] # <<>> /\ UNCHANGED <<clients, clientShards, broadcast, workerQueues, kind>>
    BY SMTT(30) DEF Fan!Deliver, Fan!registry, Fan!input
  <1>2. PICK c \in j.clients : /\ received' = received \/ received' = Fan!Offered(c, w, j.spot)
                               /\ batch' = [batch EXCEPT ![w] = Fan!Rest(w, c)]
    BY ZenonT(30) DEF Fan!Deliver
  <1>3. /\ Fan!Rest(w, c) \in Seq(Fan!Jobs) /\ Increasing(Fan!Rest(w, c))
        /\ \A p \in JobsOf(Fan!Rest(w, c)) :
              \/ p \in JobsOf(batch[w]) /\ j.spot < p.spot
              \/ p.spot = j.spot /\ p.clients \subseteq j.clients /\ c \notin p.clients
    BY <1>1, <1>2, RestOfBatch
  <1>4. j \in Fan!Jobs /\ j \in JobsOf(batch[w])
    <2>1. batch[w] \in Seq(Fan!Jobs)
      BY <1>0 DEF FanTypes
    <2>2. Increasing(batch[w])
      BY <1>0, Zenon DEF InOrder
    <2> QED
      BY <1>1, <2>1, <2>2, JobTaken, SMTT(30)
  <1> HIDE DEF j
  <1>5. j \in Pending(w) /\ j.spot \in Fan!SpotIds /\ c \in Clients
    BY <1>2, <1>4, ZenonT(20) DEF Pending, Fan!Jobs
  <1>6. /\ batch' \in [Fan!Workers -> Seq(Fan!Jobs)] /\ batch'[w] = Fan!Rest(w, c)
        /\ \A v \in Fan!Workers \ {w} : batch'[v] = batch[v]
    BY <1>0, <1>2, <1>3, ZenonT(20) DEF FanTypes
  <1>7. \A v \in Fan!Workers \ {w} : Pending(v)' = Pending(v)
    BY <1>1, <1>6 DEF Pending
  <1>8. \A p \in JobsOf(batch[w]), q \in JobsOf(workerQueues[w]) : p.spot < q.spot
    BY <1>0, Zenon DEF InOrder
  <1>9. ASSUME NEW p \in Pending(w)'
        PROVE  \/ p \in Pending(w) /\ j.spot < p.spot
               \/ p.spot = j.spot /\ p.clients \subseteq j.clients /\ c \notin p.clients
    <2>1. p \in JobsOf(Fan!Rest(w, c)) \/ p \in JobsOf(workerQueues[w])
      BY <1>1, <1>6, ZenonT(20) DEF Pending
    <2>2. CASE p \in JobsOf(Fan!Rest(w, c))
      BY <1>3, <2>2, ZenonT(20) DEF Pending
    <2>3. CASE p \in JobsOf(workerQueues[w])
      BY <1>4, <1>8, <2>3, SMTT(30) DEF Pending
    <2> QED
      BY <2>1, <2>2, <2>3, ZenonT(20)
  <1>10. \A v \in Fan!Workers : Contained(Pending(v)', Pending(v))
    <2> TAKE v \in Fan!Workers
    <2>1. CASE v = w
      <3> SUFFICES ASSUME NEW p \in Pending(w)'
                   PROVE  \E q \in Pending(w) : p.spot = q.spot /\ p.clients \subseteq q.clients
        BY <2>1, Zenon DEF Contained
      <3>1. CASE p \in Pending(w)
        BY <3>1
      <3>2. CASE p.spot = j.spot /\ p.clients \subseteq j.clients
        BY <3>2, <1>5
      <3> QED
        BY <1>9, <3>1, <3>2
    <2>2. CASE v # w
      BY <1>7, <2>2 DEF Contained
    <2> QED
      BY <2>1, <2>2, SMTT(30)
  <1>11. /\ Split' /\ \A v \in Fan!Workers : Past(Pending(v)')
         /\ \A d \in Clients : \A i \in 1 .. Len(received[d]) : \A v \in Fan!Workers :
              Undelivered(d, received[d][i], v, Pending(v)')
    BY <1>1, <1>10, FanShrunk, Zenon
  <1>12. \A v \in Fan!Workers :
           /\ Increasing(batch'[v]) /\ Increasing(workerQueues'[v])
           /\ \A p \in JobsOf(batch'[v]), r \in JobsOf(workerQueues'[v]) : p.spot < r.spot
    <2> TAKE v \in Fan!Workers
    <2>1. CASE v = w
      <3>1. ASSUME NEW p \in JobsOf(Fan!Rest(w, c)), NEW r \in JobsOf(workerQueues[w])
            PROVE  p.spot < r.spot
        BY <1>3, <1>4, <1>8
      <3>2. Increasing(workerQueues[w])
        BY <1>0, Zenon DEF InOrder
      <3> QED
        BY <1>1, <1>3, <1>6, <2>1, <3>1, <3>2, ZenonT(30)
    <2>2. CASE v # w
      BY <1>0, <1>1, <1>6, <2>2, Zenon DEF InOrder
    <2> QED
      BY <2>1, <2>2, ZenonT(20)
  <1>13. InOrder'
    BY <1>0, <1>1, <1>11, <1>12, Zenon DEF InOrder, Past
  <1>14. CASE received' = received
    <2>1. FanTypes'
      BY <1>0, <1>1, <1>6, <1>14 DEF FanTypes
    <2>2. Behind'
      BY <1>0, <1>1, <1>11, <1>14, Zenon DEF Behind
    <2>3. Fan!DeliveredInOrder'
      BY <1>0, <1>14, SameOrder
    <2> QED
      BY <1>11, <1>13, <2>1, <2>2, <2>3, ZenonT(20) DEF FanInv
  <1>15. CASE received' = Fan!Offered(c, w, j.spot)
    <2> DEFINE e == [by |-> w, spot |-> j.spot]
    <2>1. e \in Entries /\ e.by = w /\ e.spot = j.spot
      BY <1>5 DEF Entries
    <2>2. \A i \in 1 .. Len(received[c]) : /\ received[c][i].spot # j.spot
                                           /\ received[c][i].by = w => received[c][i].spot < j.spot
      BY <1>0, <1>2, <1>5, ZenonT(30) DEF Behind, Undelivered
    <2>3. OneMore(c, e) /\ Fan!DeliveredInOrder'
      BY <1>0, <1>5, <1>15, <2>1, <2>2, OfferInOrder, SMTT(30)
    <2> HIDE DEF e
    <2>4. FanTypes'
      BY <1>0, <1>1, <1>6, <2>3, Zenon DEF FanTypes, OneMore
    <2>5. e.spot <= Len(kind) /\ \A i \in 1 .. Len(broadcast) : e.spot < broadcast[i]
      BY <1>0, <1>5, <2>1, ZenonT(30) DEF InOrder
    <2>6. Undispatched(e, broadcast)
      <3>1. \A i \in 1 .. Len(broadcast) : broadcast[i] \in Fan!SpotIds
        BY <1>0, SMTT(30) DEF FanTypes
      <3> QED
        BY <1>5, <2>1, <2>5, <3>1, SMTT(30) DEF Undispatched, Fan!SpotIds
    <2>7. ASSUME NEW v \in Fan!Workers, NEW p \in Pending(v)', c \in p.clients
          PROVE  e.spot # p.spot /\ (e.by = v => e.spot < p.spot)
      <3>1. CASE v = w
        <4>1. p \in Pending(w) /\ j.spot < p.spot
          BY <1>9, <2>7, <3>1, ZenonT(20)
        <4>2. p.spot \in Fan!SpotIds
          BY <1>0, <4>1, SpotKnown, ZenonT(20)
        <4> QED
          BY <1>5, <2>1, <4>1, <4>2, SMTT(30) DEF Fan!SpotIds
      <3>2. CASE v # w
        <4>1. p \in Pending(v) /\ Disjoint(Pending(v), Pending(w))
          BY <1>0, <1>7, <2>7, <3>2, Zenon DEF Split
        <4>2. p.spot = j.spot => p.clients \cap j.clients = {}
          BY <1>5, <4>1, Zenon DEF Disjoint
        <4> QED
          BY <1>2, <2>1, <2>7, <3>2, <4>2
      <3> QED
        BY <3>1, <3>2, SMTT(30)
    <2>8. \A v \in Fan!Workers : Undelivered(c, e, v, Pending(v)')
      BY <2>7, Zenon DEF Undelivered
    <2>9. ASSUME NEW d \in Clients, NEW i \in 1 .. Len(received'[d])
          PROVE  /\ received'[d][i].spot <= Len(kind) /\ Undispatched(received'[d][i], broadcast)
                 /\ \A v \in Fan!Workers : Undelivered(d, received'[d][i], v, Pending(v)')
      <3>1. CASE i \in 1 .. Len(received[d]) /\ received'[d][i] = received[d][i]
        BY <3>1, <1>0, <1>11, Zenon DEF Behind
      <3>2. CASE d = c /\ received'[d][i] = e
        BY <3>2, <2>5, <2>6, <2>8, Zenon
      <3> QED
        BY <2>3, <3>1, <3>2, Zenon DEF OneMore
    <2>10. Behind'
      BY <1>1, <2>9, Zenon DEF Behind
    <2> QED
      BY <1>11, <1>13, <2>3, <2>4, <2>10, Zenon DEF FanInv
  <1> QED
    BY <1>2, <1>14, <1>15, SMTT(30)

\* No step of the fan-out breaks the order.
LEMMA FanNext ==
  ASSUME FanConstants, FanInv, [Fan!Next]_(Fan!vars)
  PROVE  FanInv'
  <1>0. clients \subseteq Clients
    BY DEF FanInv, FanTypes
  <1>1. ASSUME NEW c \in Clients, Fan!Churn(c)
        PROVE  FanInv'
    <2>1. clients' \subseteq Clients
      BY <1>0, <1>1 DEF Fan!Churn
    <2>2. UNCHANGED <<clientShards, broadcast, workerQueues, batch, received, kind>>
      BY <1>1 DEF Fan!Churn, Fan!pool
    <2> QED
      BY <2>1, <2>2, FanQuiet
  <1>2. ASSUME NEW w \in Fan!Workers, Fan!Flush(w) \/ Fan!Return(w)
        PROVE  FanInv'
    <2>1. UNCHANGED <<clients, clientShards, broadcast, workerQueues, batch, received, kind>>
      BY <1>2 DEF Fan!Flush, Fan!Return, Fan!registry, Fan!input
    <2> QED
      BY <1>0, <2>1, FanQuiet, ZenonT(20)
  <1>3. CASE Fan!Stop \/ UNCHANGED Fan!vars
    <2>1. UNCHANGED <<clients, clientShards, broadcast, workerQueues, batch, received, kind>>
      BY <1>3 DEF Fan!Stop, Fan!vars, Fan!registry, Fan!input, Fan!pool
    <2> QED
      BY <1>0, <2>1, FanQuiet, ZenonT(20)
  <1> QED
    BY <1>1, <1>2, <1>3, FanOutput, FanDispatch, FanTake, FanDeliver, Zenon DEF Fan!Next

\* No client is offered a spot twice, and what one worker offers it comes in the order of the
\* pipeline, however logins reshuffle the shards between two spots and whatever the workers'
\* queues still hold (dispatchSpotToWorkers, broadcastWorker, deliverJob).
THEOREM FanoutInOrder ==
  ASSUME FanConstants
  PROVE  Fan!Spec => []Fan!DeliveredInOrder
  <1>1. Fan!Init => FanInv
    BY FanInit
  <1>2. FanInv /\ [Fan!Next]_(Fan!vars) => FanInv'
    BY FanNext
  <1>3. FanInv => Fan!DeliveredInOrder
    BY ZenonT(20) DEF FanInv
  <1> QED
    BY <1>1, <1>2, <1>3, PTL DEF Fan!Spec

-----------------------------------------------------------------------------
(* Peers that pass spots on *)
CONSTANTS Nodes, Links, Legacy, Origins, HopCount, MaxAge, TTL, Lossy

VARIABLES sent, age, net, seen, ingested, forwarded

Mesh == INSTANCE PeerMesh

\* The keys of a spot in its two forms
SpotKeys == {[type |-> t, hop |-> 0] : t \in {"PC61", "PC11"}}

\* A node that has passed the spot on still has its mark, or the spot is stale by now.
MarkOutlives(marks, counts, old) ==
  /\ counts \in {0, 1}
  /\ counts = 1 => old > MaxAge \/ marks # Mesh!Unseen
  /\ old <= MaxAge => marks <= old

\* The age of a mark, or Unseen
Marks == Nat \cup {-1}

\* The inductive invariant: the marks of a spot outlive it.
MeshInv ==
  /\ age \in Nat
  /\ seen \in [Nodes -> [Mesh!Keys -> Marks]] /\ forwarded \in [Nodes -> [Mesh!Keys -> Nat]]
  /\ \A n \in Nodes, k \in SpotKeys : MarkOutlives(seen[n][k], forwarded[n][k], age)

\* The keys of a spot are keys of the cache (dxKey).
LEMMA SpotKeysAreKeys == SpotKeys \subseteq Mesh!Keys
  BY DEF SpotKeys, Mesh!Keys, Mesh!SpotTypes

\* Where a spot goes stale before its marks are pruned, a node that has passed it on keeps the
\* mark for as long as the spot can come back (HandleFrame, dedupeCache.prune).
THEOREM MeshInvariant == ASSUME Mesh!MeshConstants, 0 < MaxAge, MaxAge <= TTL PROVE Mesh!Spec => []MeshInv
  <1> USE DEF Mesh!MeshConstants
  <1>1. Mesh!Init => MeshInv
    BY SpotKeysAreKeys DEF Mesh!Init, MeshInv, MarkOutlives, Marks, Mesh!Unseen
  <1>2. ASSUME MeshInv, [Mesh!Next]_(Mesh!vars) PROVE MeshInv'
    <2>1. CASE UNCHANGED <<age, seen, forwarded>>
      BY <1>2, <2>1 DEF MeshInv
    <2>2. ASSUME NEW o \in Origins, Mesh!Publish(o[1], o[2]) PROVE MeshInv'
      BY <2>1, <2>2 DEF Mesh!Publish
    <2>3. ASSUME NEW l \in Links, Mesh!HandleFrame(l) PROVE MeshInv'
      <3> DEFINE n == l[2]
                 k == Mesh!Key(Head(net[l]))
      <3>1. age' = age
        BY <2>3 DEF Mesh!HandleFrame
      <3>2. CASE UNCHANGED <<seen, forwarded>>
        BY <2>1, <3>1, <3>2, ZenonT(20)
      <3>3. CASE /\ Mesh!New(n, Head(net[l])) /\ Mesh!Mark(n, k)
                 /\ \/ forwarded' = forwarded
                    \/ /\ ~(Mesh!Stale /\ Head(net[l]).type # "PC26")
                       /\ forwarded' = [forwarded EXCEPT ![n][k] = IF @ < 2 THEN @ + 1 ELSE @]
        <4>1. seen' = [seen EXCEPT ![n][k] = 0]
          BY <3>3, ZenonT(20) DEF Mesh!Mark
        <4>2. seen[n][k] = Mesh!Unseen
          BY <3>3, ZenonT(20) DEF Mesh!New
        <4>3. Head(net[l]).type = "PC26" => k \notin SpotKeys
          BY DEF Mesh!Key, SpotKeys, Mesh!SpotTypes
        <4> HIDE DEF n, k
        <4>4. age > MaxAge => Mesh!Stale
          BY DEF Mesh!Stale
        <4>5. seen' \in [Nodes -> [Mesh!Keys -> Marks]] /\ forwarded' \in [Nodes -> [Mesh!Keys -> Nat]]
          <5>1. seen' \in [Nodes -> [Mesh!Keys -> Marks]]
            BY <1>2, <4>1, Zenon DEF MeshInv, Marks
          <5>2. CASE forwarded' = forwarded
            BY <1>2, <5>1, <5>2, SMTT(30) DEF MeshInv
          <5>3. CASE forwarded' = [forwarded EXCEPT ![n][k] = IF @ < 2 THEN @ + 1 ELSE @]
            <6>1. ASSUME n \in Nodes, k \in Mesh!Keys
                  PROVE  (IF forwarded[n][k] < 2 THEN forwarded[n][k] + 1 ELSE forwarded[n][k]) \in Nat
              BY <1>2, <6>1, SMTT(30) DEF MeshInv
            <6> QED BY <1>2, <5>1, <5>3, <6>1, Zenon DEF MeshInv
          <5> QED BY <3>3, <5>2, <5>3
        <4>6. ASSUME NEW m \in Nodes, NEW j \in SpotKeys
              PROVE  MarkOutlives(seen'[m][j], forwarded'[m][j], age)
          <5>1. MarkOutlives(seen[m][j], forwarded[m][j], age) /\ j \in Mesh!Keys /\ age \in Nat
            BY <1>2, SpotKeysAreKeys, ZenonT(20) DEF MeshInv
          <5>2. CASE m = n /\ j = k
            <6>1. seen'[m][j] = 0 /\ seen[m][j] = Mesh!Unseen
              BY <1>2, <4>1, <4>2, <5>1, <5>2, ZenonT(20) DEF MeshInv
            <6>2. CASE forwarded' = forwarded
              BY <5>1, <6>1, <6>2, SMTT(30) DEF MarkOutlives, Marks, Mesh!Unseen
            <6>3. CASE /\ ~Mesh!Stale
                       /\ forwarded' = [forwarded EXCEPT ![n][k] = IF @ < 2 THEN @ + 1 ELSE @]
              <7>1. ~(age > MaxAge)
                BY <4>4, <6>3, ZenonT(20)
              <7>2. forwarded[m][j] = 0
                BY <5>1, <6>1, <7>1, ZenonT(20) DEF MarkOutlives
              <7>3. forwarded'[m][j] = 1
                BY <1>2, <5>1, <5>2, <6>3, <7>2, SMTT(30) DEF MeshInv
              <7> QED BY <5>1, <6>1, <7>1, <7>3, SMTT(30) DEF MarkOutlives, Marks, Mesh!Unseen
            <6> QED BY <3>3, <4>3, <5>2, <6>2, <6>3, ZenonT(20)
          <5>3. CASE ~(m = n /\ j = k)
            <6>1. seen'[m][j] = seen[m][j]
              BY <1>2, <4>1, <5>1, <5>3, ZenonT(20) DEF MeshInv
            <6>2. forwarded'[m][j] = forwarded[m][j]
              BY <1>2, <3>3, <5>1, <5>3, SMTT(30) DEF MeshInv
            <6> QED BY <5>1, <6>1, <6>2, ZenonT(20)
          <5> QED BY <5>2, <5>3, ZenonT(20)
        <4> QED BY <1>2, <3>1, <4>5, <4>6, ZenonT(20) DEF MeshInv
      <3> QED BY <2>3, <3>2, <3>3, ZenonT(30) DEF Mesh!HandleFrame
    <2>4. ASSUME NEW n \in Nodes, Mesh!Prune(n) PROVE MeshInv'
      <3>1. /\ seen' = [seen EXCEPT ![n] = [k \in Mesh!Keys |-> IF @[k] > TTL THEN Mesh!Unseen ELSE @[k]]]
            /\ age' = age /\ forwarded' = forwarded
        BY <2>4, ZenonT(20) DEF Mesh!Prune
      <3>2. ASSUME NEW m \in Nodes, NEW j \in Mesh!Keys
            PROVE  seen'[m][j] = seen[m][j] \/ (seen[m][j] > TTL /\ seen'[m][j] = Mesh!Unseen)
        BY <1>2, <3>1, ZenonT(20) DEF MeshInv
      <3>3. seen' \in [Nodes -> [Mesh!Keys -> Marks]]
        BY <1>2, <3>1, ZenonT(20) DEF MeshInv, Marks, Mesh!Unseen
      <3>4. ASSUME NEW m \in Nodes, NEW j \in SpotKeys
            PROVE  MarkOutlives(seen'[m][j], forwarded'[m][j], age')
        <4>1. MarkOutlives(seen[m][j], forwarded[m][j], age) /\ j \in Mesh!Keys /\ age \in Nat /\ seen[m][j] \in Marks
          BY <1>2, SpotKeysAreKeys, ZenonT(20) DEF MeshInv
        <4>2. CASE seen'[m][j] = seen[m][j]
          BY <3>1, <4>1, <4>2, ZenonT(20)
        <4>3. CASE seen[m][j] > TTL /\ seen'[m][j] = Mesh!Unseen
          BY <3>1, <4>1, <4>3, SMTT(30) DEF MarkOutlives, Marks, Mesh!Unseen
        <4> QED BY <3>2, <4>1, <4>2, <4>3, ZenonT(20)
      <3> QED BY <1>2, <3>1, <3>3, <3>4, ZenonT(30) DEF MeshInv
    <2>5. CASE Mesh!Tick
      <3> DEFINE older(a, bound) == IF a > bound THEN a ELSE a + 1
      <3>1. /\ age' = older(age, MaxAge) /\ forwarded' = forwarded
            /\ seen' = [n \in Nodes |-> [k \in Mesh!Keys |-> IF seen[n][k] = Mesh!Unseen THEN Mesh!Unseen ELSE older(seen[n][k], TTL)]]
        BY <2>5, Zenon DEF Mesh!Tick
      <3>2. ASSUME NEW n \in Nodes, NEW k \in Mesh!Keys
            PROVE  /\ seen[n][k] = Mesh!Unseen => seen'[n][k] = Mesh!Unseen
                   /\ seen[n][k] # Mesh!Unseen => seen'[n][k] = older(seen[n][k], TTL)
        BY <3>1, SMTT(30)
      <3>3. seen' \in [Nodes -> [Mesh!Keys -> Marks]] /\ age' \in Nat
        BY <1>2, <3>1, SMTT(30) DEF MeshInv, Marks, Mesh!Unseen
      <3>4. ASSUME NEW m \in Nodes, NEW j \in SpotKeys
            PROVE  MarkOutlives(seen'[m][j], forwarded'[m][j], age')
        <4>1. MarkOutlives(seen[m][j], forwarded[m][j], age) /\ j \in Mesh!Keys /\ age \in Nat /\ seen[m][j] \in Marks
          BY <1>2, SpotKeysAreKeys, ZenonT(20) DEF MeshInv
        <4>2. CASE seen[m][j] = Mesh!Unseen
          BY <3>1, <3>2, <4>1, <4>2, SMTT(30) DEF MarkOutlives, Marks, Mesh!Unseen
        <4>3. CASE seen[m][j] # Mesh!Unseen
          <5>1. seen'[m][j] = older(seen[m][j], TTL)
            BY <3>2, <4>1, <4>3, ZenonT(20)
          <5>2. seen'[m][j] # Mesh!Unseen \/ age > MaxAge \/ forwarded[m][j] = 0
            BY <4>1, <4>3, <5>1 DEF MarkOutlives, Marks, Mesh!Unseen
          <5> QED BY <3>1, <4>1, <4>3, <5>1, <5>2, SMTT(30) DEF MarkOutlives, Marks, Mesh!Unseen
        <4> QED BY <4>2, <4>3
      <3> QED BY <1>2, <3>1, <3>3, <3>4, ZenonT(30) DEF MeshInv
    <2> QED BY <1>2, <2>1, <2>2, <2>3, <2>4, <2>5, ZenonT(20) DEF Mesh!Next, Mesh!vars
  <1> QED BY <1>1, <1>2, PTL DEF Mesh!Spec

\* A node passes a spot on at most once, over any links and along any detours (HandleFrame,
\* markSeen).
THEOREM SpotsForwardedOnce == ASSUME Mesh!MeshConstants PROVE Mesh!Spec => []Mesh!ForwardedOnce
  <1>1. CASE ~(0 < MaxAge /\ MaxAge <= TTL)
    <2>1. Mesh!ForwardedOnce
      BY <1>1 DEF Mesh!ForwardedOnce
    <2> QED BY <2>1, PTL
  <1>2. CASE 0 < MaxAge /\ MaxAge <= TTL
    <2>1. MeshInv => Mesh!ForwardedOnce
      BY DEF MeshInv, Mesh!ForwardedOnce, SpotKeys, MarkOutlives
    <2> QED BY <1>2, <2>1, MeshInvariant, PTL
  <1> QED BY <1>1, <1>2
=============================================================================
