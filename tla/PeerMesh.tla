------------------------------ MODULE PeerMesh ------------------------------
(***************************************************************************)
(* Nodes that peer with each other and pass frames on (peer/manager.go,    *)
(* HandleFrame, with the dedupe cache of peer/dedupe.go).  A spot is       *)
(* published to all sessions as PC61 or, for a legacy session, as PC11;    *)
(* PC92 and PC26 frames are passed on as they are, to pc9x sessions only.  *)
(* A node marks what it has seen and passes a frame on with one hop less;  *)
(* bulletins and messages (PC93) stay on the node.                         *)
(*                                                                         *)
(* Time is kept as ages, counted up to the point where they stop to        *)
(* matter: the age of the spot and of each mark.                           *)
(***************************************************************************)
EXTENDS Integers, Sequences, FiniteSets

CONSTANTS
  Nodes,
  Links,        \* symmetric set of pairs of nodes
  Legacy,       \* the pairs whose session is not pc9x
  Origins,      \* pairs <<node, type>>: what is published, and where
  HopCount,
  MaxAge, TTL,  \* of a spot before it is stale (0: never), of a mark before it is pruned
  Lossy         \* whether a write queue may be full

MeshConstants == MaxAge \in Nat /\ TTL \in Nat

Types == {"PC61", "PC11", "PC26", "PC92", "PC93"}
SpotTypes == {"PC61", "PC11", "PC26"}

VARIABLES
  sent,      \* the origins that have published
  age,       \* of the spot
  net,       \* frames on each link
  seen,      \* the dedupe cache of each node: the age of each mark, or Unseen
  ingested,  \* types of frames each node has handed to its own pipeline or users
  forwarded  \* how often each node has passed on each key (up to 2)

vars == <<sent, age, net, seen, ingested, forwarded>>

Unseen == -1

\* dxKey leaves the hop out; pc92Key and pc93Key use the raw line, which has it in.
Key(f) == [type |-> f.type, hop |-> IF f.type \in SpotTypes THEN 0 ELSE f.hop]

Keys == [type : SpotTypes, hop : {0}] \cup [type : Types \ SpotTypes, hop : 1 .. HopCount]

Init ==
  /\ sent = {} /\ age = 0
  /\ net = [l \in Links |-> <<>>]
  /\ seen = [n \in Nodes |-> [k \in Keys |-> Unseen]]
  /\ ingested = [n \in Nodes |-> {}]
  /\ forwarded = [n \in Nodes |-> [k \in Keys |-> 0]]

SessionsOf(n) == {l \in Links : l[1] = n}
Stale == MaxAge > 0 /\ age > MaxAge

\* sendLine to each of the sessions; a full queue drops the line.
SendTo(frames, queues) ==
  \E full \in IF Lossy THEN SUBSET DOMAIN frames ELSE {{}} :
    net' = [l \in Links |-> IF l \in DOMAIN frames \ full THEN Append(queues[l], frames[l]) ELSE queues[l]]

\* broadcastSpot
broadcastSpot(n, hop, exclude, queues) ==
  IF Stale THEN net' = queues
  ELSE SendTo([l \in SessionsOf(n) \ exclude |-> [type |-> IF l \in Legacy THEN "PC11" ELSE "PC61", hop |-> hop]],
              queues)

\* forwardFrame with pc9xOnly
forwardFrame(n, f, hop, exclude, queues) ==
  SendTo([l \in (SessionsOf(n) \ exclude) \ Legacy |-> [f EXCEPT !.hop = hop]], queues)

\* PublishDX; for the other types, a node that starts a frame of its own
Publish(n, t) ==
  /\ <<n, t>> \in Origins \ sent
  /\ sent' = sent \cup {<<n, t>>}
  /\ IF t \in {"PC61", "PC11"} THEN broadcastSpot(n, HopCount, {}, net)
     ELSE forwardFrame(n, [type |-> t, hop |-> HopCount], HopCount, {}, net)
  /\ UNCHANGED <<age, seen, ingested, forwarded>>

Mark(n, k) == seen' = [seen EXCEPT ![n][k] = 0]

\* What HandleFrame passes on of a frame it sees for the first time
PassOn(n, f, exclude, queues) ==
  IF f.type \in {"PC92", "PC26"} THEN forwardFrame(n, f, f.hop - 1, exclude, queues)
  ELSE broadcastSpot(n, f.hop - 1, exclude, queues)

\* Whether HandleFrame gets past the hop check and markSeen; a message has no hop check.
New(n, f) == (f.hop > 1 \/ f.type = "PC93") /\ seen[n][Key(f)] = Unseen

\* The frame goes to the pipeline (ingestSpot, not if it is stale) or, a message seen
\* for the first time, to the users.
Taken(n, f) ==
  \/ f.type \in SpotTypes /\ ~Stale
  \/ f.type = "PC93" /\ New(n, f)

\* HandleFrame
HandleFrame(l) ==
  LET n == l[2]
      f == Head(net[l])
      rest == [net EXCEPT ![l] = Tail(@)]
  IN  /\ net[l] # <<>>
      /\ ingested' = IF Taken(n, f) THEN [ingested EXCEPT ![n] = @ \cup {f.type}] ELSE ingested
      /\ IF New(n, f)
         THEN /\ Mark(n, Key(f))
              /\ IF f.type = "PC93" THEN net' = rest /\ UNCHANGED forwarded
                 ELSE /\ PassOn(n, f, {<<n, l[1]>>}, rest)
                      /\ forwarded' = IF Stale /\ f.type # "PC26" THEN forwarded
                                      ELSE [forwarded EXCEPT ![n][Key(f)] = IF @ < 2 THEN @ + 1 ELSE @]
         ELSE net' = rest /\ UNCHANGED <<seen, forwarded>>
      /\ UNCHANGED <<sent, age>>

\* Mutant: a mark goes as soon as it has the age at which it may go.
MutPrune(n) ==
  /\ \E k \in Keys : seen[n][k] # Unseen
  /\ seen' = [seen EXCEPT ![n] = [k \in Keys |-> Unseen]]
  /\ UNCHANGED <<sent, age, net, ingested, forwarded>>

\* prune, by maintenanceLoop
Prune(n) ==
  /\ \E k \in Keys : seen[n][k] > TTL
  /\ seen' = [seen EXCEPT ![n] = [k \in Keys |-> IF @[k] > TTL THEN Unseen ELSE @[k]]]
  /\ UNCHANGED <<sent, age, net, ingested, forwarded>>

Tick ==
  LET older(a, bound) == IF a > bound THEN a ELSE a + 1
      grown == [n \in Nodes |-> [k \in Keys |-> IF seen[n][k] = Unseen THEN Unseen ELSE older(seen[n][k], TTL)]]
  IN  /\ sent # {}
      /\ <<older(age, MaxAge), grown>> # <<age, seen>>
      /\ age' = older(age, MaxAge) /\ seen' = grown
      /\ UNCHANGED <<sent, net, ingested, forwarded>>

Next ==
  \/ \E o \in Origins : Publish(o[1], o[2])
  \/ \E l \in Links : HandleFrame(l)
  \/ \E n \in Nodes : Prune(n)
  \/ Tick

Spec == Init /\ [][Next]_vars

\* The read loop of every session goes on.
FairSpec == Spec /\ \A l \in Links : WF_vars(HandleFrame(l))
-----------------------------------------------------------------------------
Frames == [type : Types, hop : 0 .. HopCount]

TypeOK ==
  /\ sent \subseteq Origins /\ age \in 0 .. MaxAge + 1
  /\ \A l \in Links : net[l] \in Seq(Frames) /\ \A i \in 1 .. Len(net[l]) : net[l][i].hop > 0
  /\ seen \in [Nodes -> [Keys -> Unseen .. TTL + 1]]
  /\ ingested \in [Nodes -> SUBSET Types]
  /\ forwarded \in [Nodes -> [Keys -> 0 .. 2]]

\* As long as marks outlive spots, a node passes a spot on at most once in each form,
\* however many loops the mesh has and whenever marks are pruned (markSeen, prune and
\* the age check of broadcastSpot).
ForwardedOnce ==
  \A n \in Nodes, t \in {"PC61", "PC11"} :
    0 < MaxAge /\ MaxAge <= TTL => forwarded[n][[type |-> t, hop |-> 0]] <= 1

\* Whatever is pruned meanwhile, no frame travels for ever, because each node takes a hop
\* off: it is true again and again (HandleFrame) that all are consumed.
NoFrames == \A l \in Links : net[l] = <<>>

\* At last a spot reaches every node if no queue overflows and the hop count is at least the
\* number of the other nodes, whichever copy a node sees first: the copies that markSeen
\* suppresses are not needed, even if they had more hops left.
AllReached ==
  (\E o \in sent : o[2] = "PC61")
    => \A n \in Nodes : n \in {o[1] : o \in Origins} \/ ingested[n] \cap SpotTypes # {}
=============================================================================
