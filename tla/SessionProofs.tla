--------------------------- MODULE SessionProofs ----------------------------
(***************************************************************************)
(* The registry of telnet sessions, for any number of connections and      *)
(* callsigns: it holds the newest session of a callsign until that session *)
(* leaves, and a session that was displaced is told to close.              *)
(*                                                                         *)
(* The output pipeline, for every set of policies, windows, ages and kinds *)
(* of spots: what it hands to archive, peers and clients is spaced as the  *)
(* policy in force demands, and a human spot reaches its own callsign.     *)
(*                                                                         *)
(* That two entries of a log are far enough apart does not follow from the *)
(* log alone: the second is let through by the time the policy recorded    *)
(* for the key. The invariant therefore says that this time covers all     *)
(* that was logged under the key (Covered), though spots come late and the *)
(* deduper's cleanup forgets.                                              *)
(***************************************************************************)
EXTENDS SessionRegistry, Sequences, TLAPS

\* The handler writes a record only with somewhere to go on, a session that has registered is
\* past its login, under the callsign it registered, and one that evicts has someone to evict.
Bookkeeping ==
  /\ \A s \in Sessions :
       /\ pc[s] \in {"save", "truncate", "write"} => ret[s] # "none"
       /\ pc[s] \in {"truncate", "write"} => buf[s] \in Records
       /\ pc[s] = "evict" => evicted[s] \in Sessions
  /\ \A c \in Calls : newest[c] # NoSession =>
       call[newest[c]] = c /\ pc[newest[c]] \notin {"none", "login"}

Inv == TypeOK /\ Bookkeeping /\ RegistryIsCurrent /\ DisplacedIsEvicted

\* The callsign a session serves under is one of Calls (handleClient).
LEMMA ServingHasCall ==
  ASSUME TypeOK, NEW s \in Sessions, Serving(s)
  PROVE  call[s] \in Calls
BY DEF TypeOK, Serving

\* A record that is loaded is one that can be stored (LoadUserRecord).
LEMMA LoadedRecord ==
  ASSUME TypeOK, NEW c \in Calls
  PROVE  LoadUserRecord(c) \in Records
BY RegistryConstants DEF TypeOK, LoadUserRecord, Records

\* Nobody is registered initially.
LEMMA InitInv == Init => Inv
<1> SUFFICES ASSUME Init PROVE Inv
  OBVIOUS
<1>1. disk \in [Calls -> Records \cup {NoRecord, Truncated}] /\ wanted \in [Calls -> Filters]
  <2>1. \A c \in Calls : disk[c] = NoRecord \/ disk[c] \in [filter : Filters, lastLogin : {0}]
    BY DEF Init
  <2>2. [filter : Filters, lastLogin : {0}] \subseteq Records
    BY DEF Records
  <2>3. \A c \in Calls : wanted[c] \in Filters
    BY <2>1, RegistryConstants DEF Init
  <2> QED BY <2>1, <2>2, <2>3 DEF Init
<1>2. TypeOK
  BY <1>1, RegistryConstants, Zenon DEF Init, TypeOK
<1>3. Bookkeeping /\ RegistryIsCurrent /\ DisplacedIsEvicted
  BY RegistryConstants DEF Init, Bookkeeping, RegistryIsCurrent, DisplacedIsEvicted, Serving
<1> QED BY <1>2, <1>3 DEF Inv

\* Every step keeps the invariant.
LEMMA StepInv == Inv /\ [Next]_vars => Inv'
<1> SUFFICES ASSUME Inv, [Next]_vars PROVE Inv'
  OBVIOUS
<1> USE RegistryConstants DEF Inv, local, writing, history, bounds
<1>1. CASE Stop
  <2>1. TypeOK'
    BY <1>1 DEF Stop, TypeOK
  <2>2. Bookkeeping' /\ RegistryIsCurrent'
    BY <1>1 DEF Stop, Bookkeeping, RegistryIsCurrent, Serving
  <2>3. DisplacedIsEvicted'
    BY <1>1 DEF Stop, TypeOK, DisplacedIsEvicted, Serving
  <2> QED BY <2>1, <2>2, <2>3
<1>2. ASSUME NEW s \in Sessions, Accept(s) PROVE Inv'
  <2>1. TypeOK'
    BY <1>2 DEF Accept, Goto, TypeOK, Bookkeeping
  <2>2. Bookkeeping'
    BY <1>2 DEF Accept, Goto, TypeOK, Bookkeeping
  <2>3. RegistryIsCurrent'
    BY <1>2 DEF Accept, Goto, TypeOK, Bookkeeping, RegistryIsCurrent, Serving
  <2>4. DisplacedIsEvicted'
    BY <1>2 DEF Accept, Goto, TypeOK, Bookkeeping, RegistryIsCurrent, DisplacedIsEvicted, Serving
  <2> QED BY <2>1, <2>2, <2>3, <2>4
<1>3. ASSUME NEW s \in Sessions, \E c \in Calls : LoginRead(s, c) PROVE Inv'
  <2>1. TypeOK'
    BY <1>3 DEF LoginRead, Goto, TypeOK, Bookkeeping
  <2>2. Bookkeeping'
    BY <1>3 DEF LoginRead, Goto, TypeOK, Bookkeeping
  <2>3. RegistryIsCurrent'
    BY <1>3 DEF LoginRead, Goto, TypeOK, Bookkeeping, RegistryIsCurrent, Serving
  <2>4. DisplacedIsEvicted'
    BY <1>3 DEF LoginRead, Goto, TypeOK, Bookkeeping, RegistryIsCurrent, DisplacedIsEvicted, Serving
  <2> QED BY <2>1, <2>2, <2>3, <2>4
<1>4. ASSUME NEW s \in Sessions, LoginFails(s) PROVE Inv'
  <2>1. TypeOK'
    BY <1>4 DEF LoginFails, Goto, TypeOK, Bookkeeping
  <2>2. Bookkeeping'
    BY <1>4 DEF LoginFails, Goto, TypeOK, Bookkeeping
  <2>3. RegistryIsCurrent'
    BY <1>4 DEF LoginFails, Goto, TypeOK, Bookkeeping, RegistryIsCurrent, Serving
  <2>4. DisplacedIsEvicted'
    BY <1>4 DEF LoginFails, Goto, TypeOK, Bookkeeping, RegistryIsCurrent, DisplacedIsEvicted, Serving
  <2> QED BY <2>1, <2>2, <2>3, <2>4
<1>5. ASSUME NEW s \in Sessions, TouchUserRecordLogin(s) PROVE Inv'
  <2> DEFINE record == LoadUserRecord(call[s])
  <2>1. record \in Records
    BY <1>5, LoadedRecord DEF TouchUserRecordLogin, TypeOK
  <2>2. record.filter \in Filters /\ [record EXCEPT !.lastLogin = logins + 1] \in Records
    BY <2>1 DEF TypeOK, Records
  <2> HIDE DEF record
  <2>3. /\ pc[s] = "touch" /\ call[s] \in Calls
        /\ filter' = [filter EXCEPT ![s] = record.filter]
        /\ buf' = [buf EXCEPT ![s] = [record EXCEPT !.lastLogin = logins + 1]]
        /\ ret' = [ret EXCEPT ![s] = "register"] /\ pc' = [pc EXCEPT ![s] = "truncate"]
        /\ logins' = logins + 1 /\ loggedIn' = [loggedIn EXCEPT ![call[s]] = logins + 1]
        /\ UNCHANGED <<call, closed, farewell, evicted, clients, disk, stopped, commands, newest, wanted>>
    BY <1>5 DEF TouchUserRecordLogin, StartWrite, Goto, TypeOK, record
  <2>4. TypeOK'
    BY <2>2, <2>3 DEF TypeOK
  <2>5. Bookkeeping'
    BY <2>2, <2>3 DEF TypeOK, Bookkeeping
  <2>6. RegistryIsCurrent'
    BY <2>3 DEF TypeOK, Bookkeeping, RegistryIsCurrent, Serving
  <2>7. DisplacedIsEvicted'
    BY <2>3 DEF TypeOK, Bookkeeping, DisplacedIsEvicted, Serving
  <2> QED BY <2>4, <2>5, <2>6, <2>7
<1>6. ASSUME NEW s \in Sessions, TouchFails(s) PROVE Inv'
  <2>1. TypeOK'
    BY <1>6 DEF TouchFails, Goto, TypeOK, Bookkeeping
  <2>2. Bookkeeping'
    BY <1>6 DEF TouchFails, Goto, TypeOK, Bookkeeping
  <2>3. RegistryIsCurrent'
    BY <1>6 DEF TouchFails, Goto, TypeOK, Bookkeeping, RegistryIsCurrent, Serving
  <2>4. DisplacedIsEvicted'
    BY <1>6 DEF TouchFails, Goto, TypeOK, Bookkeeping, RegistryIsCurrent, DisplacedIsEvicted, Serving
  <2> QED BY <2>1, <2>2, <2>3, <2>4
<1>7. ASSUME NEW s \in Sessions, saveFilter(s) PROVE Inv'
  <2>1. TypeOK'
    BY <1>7 DEF saveFilter, StartWrite, Goto, Records, TypeOK, Bookkeeping
  <2>2. Bookkeeping'
    BY <1>7 DEF saveFilter, StartWrite, Goto, Records, TypeOK, Bookkeeping
  <2>3. RegistryIsCurrent'
    BY <1>7, SMTT(30) DEF saveFilter, StartWrite, Goto, Records, TypeOK, Bookkeeping, RegistryIsCurrent, Serving
  <2>4. DisplacedIsEvicted'
    BY <1>7 DEF saveFilter, StartWrite, Goto, Records, TypeOK, Bookkeeping, RegistryIsCurrent,
      DisplacedIsEvicted, Serving
  <2> QED BY <2>1, <2>2, <2>3, <2>4
<1>8. ASSUME NEW s \in Sessions, Truncate(s) PROVE Inv'
  <2>1. TypeOK'
    BY <1>8 DEF Truncate, Goto, TypeOK, Bookkeeping
  <2>2. Bookkeeping'
    BY <1>8 DEF Truncate, Goto, TypeOK, Bookkeeping
  <2>3. RegistryIsCurrent'
    BY <1>8 DEF Truncate, Goto, TypeOK, Bookkeeping, RegistryIsCurrent, Serving
  <2>4. DisplacedIsEvicted'
    BY <1>8, SMTT(30) DEF Truncate, Goto, TypeOK, Bookkeeping, RegistryIsCurrent, DisplacedIsEvicted, Serving
  <2> QED BY <2>1, <2>2, <2>3, <2>4
<1>9. ASSUME NEW s \in Sessions, Write(s) PROVE Inv'
  <2>1. TypeOK'
    BY <1>9 DEF Write, Goto, TypeOK, Bookkeeping
  <2>2. Bookkeeping'
    BY <1>9 DEF Write, Goto, TypeOK, Bookkeeping
  <2>3. RegistryIsCurrent'
    BY <1>9 DEF Write, Goto, TypeOK, Bookkeeping, RegistryIsCurrent, Serving
  <2>4. DisplacedIsEvicted'
    BY <1>9, SMTT(30) DEF Write, Goto, TypeOK, Bookkeeping, RegistryIsCurrent, DisplacedIsEvicted, Serving
  <2> QED BY <2>1, <2>2, <2>3, <2>4
<1>10. ASSUME NEW s \in Sessions, registerClient(s) PROVE Inv'
  <2>1. TypeOK'
    BY <1>10 DEF registerClient, Goto, TypeOK, Bookkeeping
  <2>2. Bookkeeping'
    BY <1>10, SMTT(30) DEF registerClient, Goto, TypeOK, Bookkeeping
  <2>3. RegistryIsCurrent'
    BY <1>10, SMTT(30) DEF registerClient, Goto, TypeOK, Bookkeeping, RegistryIsCurrent, Serving
  <2>4. DisplacedIsEvicted'
    BY <1>10 DEF registerClient, Goto, TypeOK, Bookkeeping, RegistryIsCurrent, DisplacedIsEvicted, Serving
  <2> QED BY <2>1, <2>2, <2>3, <2>4
<1>11. ASSUME NEW s \in Sessions, Evict(s) PROVE Inv'
  <2>1. TypeOK'
    BY <1>11, ZenonT(30) DEF Evict, CloseEvicted, SendAndClose, close, Goto, TypeOK, Bookkeeping
  <2>2. Bookkeeping'
    BY <1>11 DEF Evict, CloseEvicted, SendAndClose, close, Goto, TypeOK, Bookkeeping
  <2>3. RegistryIsCurrent'
    BY <1>11 DEF Evict, CloseEvicted, SendAndClose, close, Goto, TypeOK, Bookkeeping, RegistryIsCurrent, Serving
  <2>4. DisplacedIsEvicted'
    BY <1>11, SMTT(30) DEF Evict, CloseEvicted, SendAndClose, close, Goto, TypeOK, Bookkeeping, RegistryIsCurrent,
      DisplacedIsEvicted, Serving
  <2> QED BY <2>1, <2>2, <2>3, <2>4
<1>12. ASSUME NEW s \in Sessions, \E f \in Filters : Command(s, f) PROVE Inv'
  <2>1. TypeOK'
    BY <1>12 DEF Command, Goto, TypeOK, Bookkeeping
  <2>2. Bookkeeping'
    BY <1>12 DEF Command, Goto, TypeOK, Bookkeeping
  <2>3. RegistryIsCurrent'
    BY <1>12, SMTT(30) DEF Command, Goto, TypeOK, Bookkeeping, RegistryIsCurrent, Serving
  <2>4. DisplacedIsEvicted'
    BY <1>12 DEF Command, Goto, TypeOK, Bookkeeping, RegistryIsCurrent, DisplacedIsEvicted, Serving
  <2> QED BY <2>1, <2>2, <2>3, <2>4
<1>13. ASSUME NEW s \in Sessions, Bye(s) PROVE Inv'
  <2>1. TypeOK'
    BY <1>13, ZenonT(30) DEF Bye, SendAndClose, close, Goto, TypeOK, Bookkeeping
  <2>2. Bookkeeping'
    BY <1>13 DEF Bye, SendAndClose, close, Goto, TypeOK, Bookkeeping
  <2>3. RegistryIsCurrent'
    BY <1>13 DEF Bye, SendAndClose, close, Goto, TypeOK, Bookkeeping, RegistryIsCurrent, Serving
  <2>4. DisplacedIsEvicted'
    BY <1>13 DEF Bye, SendAndClose, close, Goto, TypeOK, Bookkeeping, RegistryIsCurrent, DisplacedIsEvicted, Serving
  <2> QED BY <2>1, <2>2, <2>3, <2>4
<1>14. ASSUME NEW s \in Sessions, ReadFails(s) PROVE Inv'
  <2>1. TypeOK'
    BY <1>14 DEF ReadFails, close, Goto, TypeOK, Bookkeeping
  <2>2. Bookkeeping'
    BY <1>14, SMTT(30) DEF ReadFails, close, Goto, TypeOK, Bookkeeping
  <2>3. RegistryIsCurrent'
    BY <1>14 DEF ReadFails, close, Goto, TypeOK, Bookkeeping, RegistryIsCurrent, Serving
  <2>4. DisplacedIsEvicted'
    BY <1>14, SMTT(30) DEF ReadFails, close, Goto, TypeOK, Bookkeeping, RegistryIsCurrent, DisplacedIsEvicted, Serving
  <2> QED BY <2>1, <2>2, <2>3, <2>4
<1>15. ASSUME NEW s \in Sessions, unregisterClient(s) PROVE Inv'
  <2>1. TypeOK'
    BY <1>15 DEF unregisterClient, Removed, Goto, TypeOK, Bookkeeping
  <2>2. Bookkeeping'
    BY <1>15 DEF unregisterClient, Removed, Goto, TypeOK, Bookkeeping
  <2>3. RegistryIsCurrent'
    BY <1>15, SMTT(30) DEF unregisterClient, Removed, Goto, TypeOK, Bookkeeping, RegistryIsCurrent, Serving
  <2>4. DisplacedIsEvicted'
    BY <1>15, SMTT(30) DEF unregisterClient, Removed, Goto, TypeOK, Bookkeeping, RegistryIsCurrent, DisplacedIsEvicted, Serving
  <2> QED BY <2>1, <2>2, <2>3, <2>4
<1>16. ASSUME NEW s \in Sessions, WriterCloses(s) PROVE Inv'
  <2>1. TypeOK'
    BY <1>16 DEF WriterCloses, close, TypeOK, Bookkeeping
  <2>2. Bookkeeping'
    BY <1>16 DEF WriterCloses, close, TypeOK, Bookkeeping
  <2>3. RegistryIsCurrent'
    BY <1>16 DEF WriterCloses, close, TypeOK, Bookkeeping, RegistryIsCurrent, Serving
  <2>4. DisplacedIsEvicted'
    BY <1>16 DEF WriterCloses, close, TypeOK, Bookkeeping, RegistryIsCurrent, DisplacedIsEvicted, Serving
  <2> QED BY <2>1, <2>2, <2>3, <2>4
<1>17. ASSUME NEW s \in Sessions, Fault(s) PROVE Inv'
  <2>1. TypeOK'
    BY <1>17 DEF Fault, close, TypeOK, Bookkeeping
  <2>2. Bookkeeping'
    BY <1>17 DEF Fault, close, TypeOK, Bookkeeping
  <2>3. RegistryIsCurrent'
    BY <1>17, SMTT(30) DEF Fault, close, TypeOK, Bookkeeping, RegistryIsCurrent, Serving
  <2>4. DisplacedIsEvicted'
    BY <1>17, SMTT(30) DEF Fault, close, TypeOK, Bookkeeping, RegistryIsCurrent, DisplacedIsEvicted, Serving
  <2> QED BY <2>1, <2>2, <2>3, <2>4
<1>18. CASE UNCHANGED vars
  BY <1>18 DEF vars, TypeOK, Bookkeeping, RegistryIsCurrent, DisplacedIsEvicted, Serving
<1> QED BY <1>1, <1>2, <1>3, <1>4, <1>5, <1>6, <1>7, <1>8, <1>9, <1>10, <1>11, <1>12, <1>13, <1>14, <1>15,
  <1>16, <1>17, <1>18 DEF Next

\* For any number of sessions and callsigns: the state is well formed, and the registry holds
\* the newest session of a callsign exactly from its registration until it unregisters
\* (registerClient, unregisterClient).
THEOREM RegistryCorrect == Spec => []RegistryIsSound
<1>1. Inv => RegistryIsSound
  BY DEF Inv, RegistryIsSound
<1> QED BY <1>1, InitInv, StepInv, PTL DEF Spec

\* For any number of sessions and callsigns: whoever is displaced from the registry is closed
\* or has its farewell queued, or its successor is about to do so (registerClient).
THEOREM EvictionCorrect == Spec => []DisplacedIsEvicted
<1>1. Inv => DisplacedIsEvicted
  BY DEF Inv
<1> QED BY <1>1, InitInv, StepInv, PTL DEF Spec

-----------------------------------------------------------------------------
(* The output pipeline *)
CONSTANTS Kinds, Window, MaxAge, RespotSeconds, AggregateEnabled, Configs, MaxSpots, MaxTime

VARIABLES clock, enabled, spots, stage, seen, pending, lastEmit, ring, telnet, archive, peers, self,
  reached

Pipe == INSTANCE OutputPipeline

\* Every entry of a log is covered by the time policy g has recorded for its key, up to the
\* age a spot may have.
Covered(sp, recorded, time, g, log) ==
  \A a \in log :
    /\ a.id \in DOMAIN sp /\ a.at <= time
    /\ recorded[Pipe!Key(g, sp[a.id].kind)] # Pipe!Never
    /\ a.at <= recorded[Pipe!Key(g, sp[a.id].kind)] + MaxAge

\* Spaced, of the spots and the policy as they are given
Apart(sp, g, log) ==
  \A a, b \in log :
    MaxAge < Window[g] /\ a.id < b.id /\ Pipe!Key(g, sp[a.id].kind) = Pipe!Key(g, sp[b.id].kind)
      => b.at - a.at >= Window[g] - MaxAge

Follows(sp, recorded, time, g, log) == Covered(sp, recorded[g], time, g, log) /\ Apart(sp, g, log)

\* The spot that is looked at is there, and no spot is from the future.
TimesOK ==
  /\ stage # "idle" => Len(spots) > 0
  /\ \A i \in DOMAIN spots : spots[i].when <= clock
  /\ \A p \in Pipe!Policies, k \in Pipe!Keys : seen[p][k] <= clock

\* What the clients of a policy were shown follows the policy that governs it.
ClientsFollow == \A p \in Pipe!Policies : Pipe!Governs(p) \in enabled => Follows(spots, seen, clock, Pipe!Governs(p), telnet[p])

\* The inductive invariant: every log follows its policy, and with human spots only the
\* aggregator has nothing and nobody misses an own spot.
PipelineInv ==
  /\ Pipe!TypeOK /\ TimesOK
  /\ Pipe!Governs("med") \in enabled => /\ Follows(spots, seen, clock, Pipe!Governs("med"), archive)
                                       /\ Follows(spots, seen, clock, Pipe!Governs("med"), peers)
  /\ Pipe!NoSkimmers => pending = {} /\ reached \subseteq self /\ ClientsFollow

\* What the pipeline takes
Spots == [kind : Kinds, when : 0 .. MaxTime]
\* Times, and their absence
Times == Pipe!Never .. MaxTime

\* A spot has a key under every policy.
LEMMA KeyIsKey == ASSUME NEW p \in Pipe!Policies, NEW k \in Kinds PROVE Pipe!Key(p, k) \in Pipe!Keys
  BY DEF Pipe!Keys

\* A policy that is off is governed by another (processOutputSpots).
LEMMA GovernorIsPolicy == ASSUME NEW p \in Pipe!Policies PROVE Pipe!Governs(p) \in Pipe!Policies
  BY SMTT(30) DEF Pipe!Governs, Pipe!Policies

\* A spot at most one maximal age old, a window away from the last recorded time: what that
\* time covers is a window less the age before it.
LEMMA FarApart ==
  ASSUME NEW time \in Nat, NEW when \in Nat, NEW last \in Int, NEW at \in Nat,
         NEW window \in Nat, NEW age \in Nat, age < window,
         at <= last + age, last <= time, when <= time, time <= when + age,
         time - last > window \/ ~(when - last < window /\ last - when < window)
  PROVE  time - at >= window - age
  OBVIOUS

\* Numbers that are within an age
LEMMA WithinAge ==
  ASSUME NEW time \in Nat, NEW when \in Nat, NEW age \in Nat, time - when <= age
  PROVE  time <= when + age /\ \A at \in Nat : at <= time => at <= when + age
  OBVIOUS

\* The constants as numbers, and times as integers
LEMMA NumbersOfPipe ==
  ASSUME Pipe!PipelineConstants
  PROVE  /\ Times \subseteq Int /\ MaxTime \in Nat /\ MaxAge \in Nat /\ 0 .. MaxTime \subseteq Nat
         /\ \A g \in Pipe!Policies : Window[g] \in Nat
         /\ \A n \in Nat : n # Pipe!Never
  BY DEF Times, Pipe!Never, Pipe!PipelineConstants

\* The parts of a spot and of an entry
LEMMA SpotParts == ASSUME NEW s \in Spots PROVE s.kind \in Kinds /\ s.when \in 0 .. MaxTime
  BY DEF Spots
LEMMA EntryParts ==
  ASSUME Pipe!PipelineConstants, NEW a \in Pipe!Log
  PROVE  a.id \in Nat /\ a.at \in Nat
  BY DEF Pipe!Log, Pipe!Ids, Pipe!PipelineConstants

\* The spots of a sequence
LEMMA SpotOfSequence == ASSUME NEW sp \in Seq(Spots), NEW i \in DOMAIN sp PROVE sp[i] \in Spots
  OBVIOUS

\* One more entry: the last spot, at a time when the policy lets it through.
LEMMA NewEntry ==
  ASSUME Pipe!PipelineConstants, NEW sp \in Seq(Spots), NEW cur, cur = Len(sp), cur > 0,
         NEW g \in Pipe!Policies, NEW rec \in [Pipe!Keys -> Times], NEW log \in SUBSET Pipe!Log, NEW time \in 0 .. MaxTime,
         NEW last, last = rec[Pipe!Key(g, sp[cur].kind)],
         time - sp[cur].when <= MaxAge, sp[cur].when <= time, last <= time,
         Covered(sp, rec, time, g, log), Apart(sp, g, log),
         last = Pipe!Never \/ time - last > Window[g] \/ ~(sp[cur].when - last < Window[g] /\ last - sp[cur].when < Window[g]),
         NEW rec2, rec2 = [rec EXCEPT ![Pipe!Key(g, sp[cur].kind)] = sp[cur].when]
  PROVE  /\ Covered(sp, rec2, time, g, log) /\ Covered(sp, rec2, time, g, log \cup {[id |-> cur, at |-> time]})
         /\ Apart(sp, g, log \cup {[id |-> cur, at |-> time]})
  <1> DEFINE k == Pipe!Key(g, sp[cur].kind)
             when == sp[cur].when
             e == [id |-> cur, at |-> time]
  <1>1. cur \in DOMAIN sp /\ sp[cur] \in Spots
    BY SMTT(30)
  <1>2. k \in Pipe!Keys /\ when \in Nat
    BY <1>1, KeyIsKey, SpotParts, NumbersOfPipe, Zenon
  <1>3. e.id = cur /\ e.at = time /\ time \in Nat /\ MaxAge \in Nat /\ Window[g] \in Nat /\ last \in Int
    <2>1. e.id = cur /\ e.at = time
      BY Zenon
    <2>2. time \in Nat /\ MaxAge \in Nat /\ Window[g] \in Nat
      BY NumbersOfPipe, Zenon
    <2>3. rec[k] \in Times
      BY <1>2, Zenon
    <2> QED BY <2>1, <2>2, <2>3, NumbersOfPipe, Zenon
  <1>4. rec2[k] = when /\ when # Pipe!Never /\ \A x \in Pipe!Keys : x # k => rec2[x] = rec[x]
    BY <1>2, NumbersOfPipe, Zenon
  <1>5. \A a \in log : a.at \in Nat /\ a.id \in Nat /\ a.id \in DOMAIN sp /\ a.at <= time /\ Pipe!Key(g, sp[a.id].kind) \in Pipe!Keys
    <2> TAKE a \in log
    <2>1. a \in Pipe!Log /\ a.id \in DOMAIN sp /\ a.at <= time
      BY Zenon DEF Covered
    <2>2. sp[a.id] \in Spots
      BY <2>1, SpotOfSequence, Zenon
    <2> QED BY <2>1, <2>2, KeyIsKey, SpotParts, EntryParts, Zenon
  <1>6. \A a \in log : Pipe!Key(g, sp[a.id].kind) = k => last # Pipe!Never /\ a.at <= last + MaxAge
    BY Zenon DEF Covered
  <1> HIDE DEF k, when, e
  <1>7. time <= when + MaxAge /\ \A at \in Nat : at <= time => at <= when + MaxAge
    BY <1>2, <1>3, WithinAge, Zenon DEF when
  <1>8. Covered(sp, rec2, time, g, log)
    <2> SUFFICES ASSUME NEW a \in log
                 PROVE  /\ rec2[Pipe!Key(g, sp[a.id].kind)] # Pipe!Never
                        /\ a.at <= rec2[Pipe!Key(g, sp[a.id].kind)] + MaxAge
      BY <1>5, ZenonT(20) DEF Covered
    <2>1. CASE Pipe!Key(g, sp[a.id].kind) = k
      BY <1>4, <1>5, <1>7, <2>1, Zenon
    <2>2. CASE Pipe!Key(g, sp[a.id].kind) # k
      BY <1>4, <1>5, <2>2, ZenonT(20) DEF Covered
    <2> QED BY <2>1, <2>2, ZenonT(20)
  <1>9. Covered(sp, rec2, time, g, log \cup {e})
    <2>1. ASSUME NEW a \in {e}
          PROVE  /\ a.id \in DOMAIN sp /\ a.at <= time
                 /\ rec2[Pipe!Key(g, sp[a.id].kind)] # Pipe!Never
                 /\ a.at <= rec2[Pipe!Key(g, sp[a.id].kind)] + MaxAge
      <3>1. a.id = cur /\ a.at = time /\ time <= time
        BY <1>3
      <3>2. Pipe!Key(g, sp[a.id].kind) = k
        BY <3>1, Zenon DEF k
      <3> QED BY <1>1, <1>4, <1>7, <3>1, <3>2, Zenon
    <2> QED BY <1>8, <2>1, ZenonT(20) DEF Covered
  <1>10. ASSUME NEW a \in log, MaxAge < Window[g], Pipe!Key(g, sp[a.id].kind) = k
         PROVE  time - a.at >= Window[g] - MaxAge
    <2>1. last # Pipe!Never /\ a.at <= last + MaxAge /\ a.at \in Nat /\ last <= time
      BY <1>5, <1>6, <1>10, Zenon
    <2>2. time - last > Window[g] \/ ~(when - last < Window[g] /\ last - when < Window[g])
      BY <2>1, Zenon DEF when
    <2>3. when <= time
      BY Zenon DEF when
    <2> QED BY <1>2, <1>3, <1>7, <1>10, <2>1, <2>2, <2>3, FarApart, Zenon
  <1>11. Apart(sp, g, log \cup {e})
    <2> SUFFICES ASSUME NEW a \in log \cup {e}, NEW b \in log \cup {e},
                        MaxAge < Window[g], a.id < b.id, Pipe!Key(g, sp[a.id].kind) = Pipe!Key(g, sp[b.id].kind)
                 PROVE  b.at - a.at >= Window[g] - MaxAge
      BY ZenonT(20) DEF Apart
    <2>1. CASE a \in log /\ b \in log
      BY <2>1, ZenonT(20) DEF Apart
    <2>2. CASE a \in log /\ b = e
      BY <1>3, <1>10, <2>2, ZenonT(20) DEF k
    <2>3. CASE a = e
      <3>1. \A c \in log \cup {e} : c.id \in Nat /\ c.id <= cur
        <4>1. cur \in Nat /\ \A i \in DOMAIN sp : i <= cur
          BY SMTT(30)
        <4>2. cur <= cur
          BY <4>1
        <4> QED BY <1>3, <1>5, <4>1, <4>2, Zenon
      <3>2. a.id = cur /\ b.id \in Nat /\ b.id <= cur /\ cur < b.id
        BY <1>3, <2>3, <3>1, Zenon
      <3> QED BY <3>2
    <2> QED BY <2>1, <2>2, <2>3, ZenonT(20)
  <1> QED BY <1>8, <1>9, <1>11, ZenonT(20) DEF e

\* A later time leaves a log as it is.
LEMMA LaterKeeps ==
  ASSUME NEW sp, NEW rec, NEW g, NEW log \in SUBSET Pipe!Log, NEW time \in Int, NEW later \in Int, time <= later,
         MaxTime \in Nat, Follows(sp, rec, time, g, log)
  PROVE  Follows(sp, rec, later, g, log)
  <1>1. \A a \in log : a.at \in Int /\ a.at <= time
    BY DEF Follows, Covered, Pipe!Log
  <1>2. \A a \in log : a.at <= later
    BY <1>1
  <1> QED BY <1>2, ZenonT(20) DEF Follows, Covered

\* The next spot leaves the logs as they are.
LEMMA AppendKeeps ==
  ASSUME NEW sp \in Seq(Spots), NEW x \in Spots, NEW rec, NEW g, NEW log, NEW time, Follows(sp, rec, time, g, log)
  PROVE  Follows(Append(sp, x), rec, time, g, log)
  <1>1. \A a \in log : a.id \in DOMAIN sp
    BY DEF Follows, Covered
  <1>2. \A i \in DOMAIN sp : i \in DOMAIN Append(sp, x) /\ Append(sp, x)[i] = sp[i]
    BY SMTT(30)
  <1>3. Covered(Append(sp, x), rec[g], time, g, log)
    BY <1>1, <1>2 DEF Follows, Covered
  <1>4. Apart(Append(sp, x), g, log)
    <2>1. \A a \in log : Append(sp, x)[a.id] = sp[a.id]
      BY <1>1, <1>2
    <2> QED BY <2>1, Zenon DEF Follows, Apart
  <1> QED BY <1>3, <1>4, ZenonT(20) DEF Follows

\* At startup every log is empty.
LEMMA PipelineInit == ASSUME Pipe!PipelineConstants, Pipe!Init PROVE PipelineInv
  <1>1. clock = 0 /\ 0 \in 0 .. MaxTime /\ enabled \in Configs /\ spots = <<>> /\ stage = "idle"
        /\ pending = {} /\ lastEmit = Pipe!Never /\ Pipe!Never \in Times
    BY DEF Pipe!Init, Pipe!PipelineConstants, Times, Pipe!Never
  <1>2. seen = [p \in Pipe!Policies |-> [x \in Pipe!Keys |-> Pipe!Never]] /\ seen \in [Pipe!Policies -> [Pipe!Keys -> Times]]
    BY <1>1 DEF Pipe!Init
  <1>3. /\ ring = {} /\ self = {} /\ reached = {} /\ archive = {} /\ peers = {}
        /\ \A p \in Pipe!Policies : telnet[p] = {}
        /\ telnet \in [Pipe!Policies -> SUBSET Pipe!Log]
    BY DEF Pipe!Init
  <1>4. Pipe!TypeOK
    BY <1>1, <1>2, <1>3 DEF Pipe!TypeOK, Times, Pipe!PipelineConstants
  <1>5. TimesOK
    <2>1. \A p \in Pipe!Policies, k \in Pipe!Keys : seen[p][k] = Pipe!Never
      BY <1>2, SMTT(30)
    <2> QED BY <1>1, <2>1 DEF TimesOK, Pipe!Never
  <1>6. \A sp, rec, time, g : Follows(sp, rec, time, g, {})
    BY Zenon DEF Follows, Covered, Apart
  <1> QED BY <1>1, <1>3, <1>4, <1>5, <1>6, Zenon DEF PipelineInv, ClientsFollow

\* Time passing leaves the logs as they are.
LEMMA PipelineTick == ASSUME Pipe!PipelineConstants, PipelineInv, Pipe!Tick PROVE PipelineInv'
  <1>1. /\ clock \in 0 .. MaxTime /\ clock < MaxTime /\ clock' = clock + 1 /\ MaxTime \in Nat
        /\ UNCHANGED <<enabled, spots, stage, seen, pending, lastEmit, ring, telnet, archive, peers, self, reached>>
    BY DEF Pipe!Tick, PipelineInv, Pipe!TypeOK, Pipe!PipelineConstants, Pipe!agg, Pipe!sinks
  <1>2. clock' \in 0 .. MaxTime /\ clock <= clock' /\ clock \in Int /\ clock' \in Int
    BY <1>1
  <1>3. Pipe!TypeOK'
    BY <1>1, <1>2, ZenonT(20) DEF PipelineInv, Pipe!TypeOK
  <1>4. TimesOK'
    <2>1. \A i \in DOMAIN spots : spots[i].when \in Int /\ spots[i].when <= clock
      <3>1. spots \in Seq(Spots) /\ MaxTime \in Nat
        BY DEF PipelineInv, Pipe!TypeOK, Spots, Pipe!PipelineConstants
      <3>2. \A i \in DOMAIN spots : spots[i] \in Spots
        BY <3>1, SMTT(30)
      <3>3. \A i \in DOMAIN spots : spots[i].when \in Int
        BY <3>1, <3>2 DEF Spots
      <3>4. \A i \in DOMAIN spots : spots[i].when <= clock
        BY Zenon DEF PipelineInv, TimesOK
      <3> QED BY <3>3, <3>4, Zenon
    <2>2. \A p \in Pipe!Policies, k \in Pipe!Keys : seen[p][k] \in Int /\ seen[p][k] <= clock
      BY DEF PipelineInv, Pipe!TypeOK, TimesOK, Pipe!PipelineConstants, Pipe!Never
    <2>3. \A i \in DOMAIN spots : spots[i].when <= clock'
      BY <1>2, <2>1
    <2>4. \A p \in Pipe!Policies, k \in Pipe!Keys : seen[p][k] <= clock'
      BY <1>2, <2>2
    <2> QED BY <1>1, <2>3, <2>4, ZenonT(20) DEF PipelineInv, TimesOK
  <1>5. ASSUME NEW g, NEW log \in SUBSET Pipe!Log, Follows(spots, seen, clock, g, log)
        PROVE  Follows(spots, seen, clock', g, log)
    BY <1>1, <1>2, <1>5, LaterKeeps
  <1>6. \A p : Pipe!Governs(p)' = Pipe!Governs(p)
    BY <1>1 DEF Pipe!Governs
  <1>7. archive \in SUBSET Pipe!Log /\ peers \in SUBSET Pipe!Log /\ \A p \in Pipe!Policies : telnet[p] \in SUBSET Pipe!Log
    BY ZenonT(20) DEF PipelineInv, Pipe!TypeOK
  <1>8. Pipe!Governs("med")' \in enabled' => /\ Follows(spots', seen', clock', Pipe!Governs("med")', archive')
                                             /\ Follows(spots', seen', clock', Pipe!Governs("med")', peers')
    BY <1>1, <1>5, <1>6, <1>7, ZenonT(20) DEF PipelineInv
  <1>9. Pipe!NoSkimmers' => pending' = {} /\ reached' \subseteq self' /\ ClientsFollow'
    <2>1. Pipe!NoSkimmers' = Pipe!NoSkimmers /\ Pipe!Policies' = Pipe!Policies
      BY <1>1 DEF Pipe!NoSkimmers
    <2>2. Pipe!NoSkimmers => ClientsFollow'
      <3> SUFFICES ASSUME Pipe!NoSkimmers, NEW p \in Pipe!Policies, Pipe!Governs(p) \in enabled
                   PROVE  Follows(spots, seen, clock', Pipe!Governs(p), telnet[p])
        BY <1>1, <1>6, Zenon DEF ClientsFollow
      <3>1. Follows(spots, seen, clock, Pipe!Governs(p), telnet[p])
        BY Zenon DEF PipelineInv, ClientsFollow
      <3> QED BY <1>5, <1>7, <3>1, Zenon
    <2> QED BY <1>1, <2>1, <2>2, Zenon DEF PipelineInv
  <1> QED BY <1>3, <1>4, <1>8, <1>9, ZenonT(20) DEF PipelineInv

\* The last spot and its key
LEMMA CurrentSpot ==
  ASSUME Pipe!PipelineConstants, PipelineInv, stage # "idle"
  PROVE  /\ Pipe!Cur \in DOMAIN spots /\ Pipe!Cur \in Pipe!Ids /\ Pipe!S \in Spots
         /\ Pipe!S.when \in 0 .. MaxTime /\ Pipe!S.when <= clock /\ Pipe!S.kind \in Kinds
  <1>1. spots \in Seq(Spots) /\ Len(spots) <= MaxSpots /\ Len(spots) > 0 /\ MaxSpots \in Nat
    BY DEF PipelineInv, Pipe!TypeOK, TimesOK, Spots, Pipe!PipelineConstants
  <1>2. Pipe!Cur \in DOMAIN spots /\ Pipe!Cur \in Pipe!Ids
    BY <1>1 DEF Pipe!Cur, Pipe!Ids
  <1>3. Pipe!S \in Spots
    BY <1>1, <1>2, SMTT(30) DEF Pipe!S
  <1> QED BY <1>2, <1>3, ZenonT(30) DEF PipelineInv, TimesOK, Spots, Pipe!S

\* Steps that touch neither what is sent nor what the policies recorded
LEMMA QuietSteps ==
  ASSUME Pipe!PipelineConstants, PipelineInv, Pipe!TypeOK',
         UNCHANGED <<clock, enabled, spots, seen, pending, telnet, archive, peers, self, reached>>,
         stage' \in {stage, "idle"} \/ stage = "check"
  PROVE  PipelineInv'
  <1>1. \A p : Pipe!Governs(p)' = Pipe!Governs(p)
    BY ZenonT(20) DEF Pipe!Governs
  <1>2. TimesOK'
    BY DEF PipelineInv, TimesOK
  <1> QED BY <1>1, <1>2 DEF PipelineInv, Pipe!NoSkimmers, ClientsFollow

\* The checks before the ring buffer and the last guard send nothing.
LEMMA CheckKeeps ==
  ASSUME Pipe!PipelineConstants, PipelineInv, Pipe!Drop \/ Pipe!Store \/ Pipe!ReturnStale
  PROVE  PipelineInv'
  <1>1. /\ UNCHANGED <<clock, enabled, spots, seen, pending, lastEmit, telnet, archive, peers, self, reached>>
        /\ stage' \in {"idle", "fanout"} /\ ring' \in {ring, ring \cup {Pipe!Cur}} /\ stage \in {"check", "fanout"}
        /\ stage' = "idle" \/ stage = "check"
    BY DEF Pipe!Drop, Pipe!Store, Pipe!ReturnStale, Pipe!agg, Pipe!sinks
  <1>2. Pipe!Cur \in Pipe!Ids
    BY <1>1, CurrentSpot, ZenonT(20)
  <1>3. Pipe!TypeOK'
    BY <1>1, <1>2, ZenonT(20) DEF PipelineInv, Pipe!TypeOK
  <1> QED BY <1>1, <1>3, QuietSteps, ZenonT(20)

\* A bucket dropped from limbo sends nothing.
LEMMA LimboKeeps == ASSUME Pipe!PipelineConstants, PipelineInv, Pipe!Limbo PROVE PipelineInv'
  <1>1. /\ pending # {} /\ pending' = {}
        /\ UNCHANGED <<clock, enabled, spots, stage, seen, lastEmit, ring, telnet, archive, peers, self, reached>>
    BY SMTT(30) DEF Pipe!Limbo, Pipe!sinks
  <1>2. \A p : Pipe!Governs(p)' = Pipe!Governs(p)
    BY <1>1, ZenonT(20) DEF Pipe!Governs
  <1>3. Pipe!TypeOK' /\ TimesOK'
    BY <1>1, SMTT(30) DEF PipelineInv, Pipe!TypeOK, TimesOK
  <1> QED BY <1>1, <1>2, <1>3 DEF PipelineInv, Pipe!NoSkimmers, ClientsFollow

\* With human spots only, the aggregator has nothing to emit.
LEMMA EmitKeeps == ASSUME Pipe!PipelineConstants, PipelineInv, Pipe!Emit PROVE PipelineInv'
  <1>1. /\ pending # {} /\ pending' = {} /\ lastEmit' = clock /\ self' = self \cup pending
        /\ UNCHANGED <<clock, enabled, spots, stage, seen, ring, archive, peers, reached>>
    BY Zenon DEF Pipe!Emit
  <1>2. telnet' \in [Pipe!Policies -> SUBSET Pipe!Log]
    <2>1. PICK id \in pending : telnet' = [p \in Pipe!Policies |-> telnet[p] \cup {[id |-> id, at |-> clock]}]
      BY ZenonT(20) DEF Pipe!Emit
    <2>2. [id |-> id, at |-> clock] \in Pipe!Log
      BY DEF PipelineInv, Pipe!TypeOK, Pipe!Log
    <2> QED BY <2>1, <2>2, ZenonT(20) DEF PipelineInv, Pipe!TypeOK
  <1>3. clock \in Pipe!Never .. MaxTime
    BY SMTT(30) DEF PipelineInv, Pipe!TypeOK, Pipe!Never, Pipe!PipelineConstants
  <1>4. Pipe!TypeOK' /\ TimesOK'
    BY <1>1, <1>2, <1>3, Zenon DEF PipelineInv, Pipe!TypeOK, TimesOK
  <1>5. \A p : Pipe!Governs(p)' = Pipe!Governs(p)
    BY <1>1 DEF Pipe!Governs
  <1>6. ~Pipe!NoSkimmers'
    BY <1>1, SMTT(30) DEF PipelineInv, Pipe!NoSkimmers
  <1> QED BY <1>1, <1>4, <1>5, <1>6, SMTT(30) DEF PipelineInv

\* The next spot from the deduplicator is not from the future.
LEMMA TakeKeeps ==
  ASSUME Pipe!PipelineConstants, PipelineInv, NEW k \in Kinds, NEW when \in 0 .. clock, Pipe!Take(k, when)
  PROVE  PipelineInv'
  <1> DEFINE x == [kind |-> k, when |-> when]
  <1>1. /\ stage = "idle" /\ Len(spots) < MaxSpots /\ spots' = Append(spots, x) /\ stage' = "check"
        /\ UNCHANGED <<clock, enabled, seen, pending, lastEmit, ring, telnet, archive, peers, self, reached>>
    BY DEF Pipe!Take, Pipe!Cur, Pipe!agg, Pipe!sinks
  <1>2. /\ spots \in Seq(Spots) /\ Len(spots) <= MaxSpots /\ MaxSpots \in Nat /\ MaxTime \in Nat
        /\ clock \in 0 .. MaxTime
    BY DEF PipelineInv, Pipe!TypeOK, Spots, Pipe!PipelineConstants
  <1>3. x \in Spots /\ x.when = when /\ when <= clock
    BY <1>2 DEF Spots
  <1> HIDE DEF x
  <1>4. spots' \in Seq(Spots) /\ Len(spots') = Len(spots) + 1 /\ Len(spots') <= MaxSpots /\ Len(spots') > 0
    BY <1>1, <1>2, <1>3, SMTT(30)
  <1>5. Pipe!TypeOK'
    BY <1>1, <1>4, SMTT(30) DEF PipelineInv, Pipe!TypeOK, Spots
  <1>6. TimesOK'
    <2>1. ASSUME NEW i \in DOMAIN spots' PROVE spots'[i].when <= clock
      <3>1. spots'[i] = x \/ (i \in DOMAIN spots /\ spots'[i] = spots[i])
        <4>1. i \in 1 .. Len(spots) + 1 /\ DOMAIN spots = 1 .. Len(spots) /\ Len(spots) \in Nat
          BY <1>2, <1>4, SMTT(30)
        <4>2. CASE i = Len(spots) + 1
          BY <1>1, <1>2, <1>3, <4>2, SMTT(30)
        <4>3. CASE i # Len(spots) + 1
          <5>1. i \in 1 .. Len(spots)
            BY <4>1, <4>3, SMTT(30)
          <5> QED BY <1>1, <1>2, <4>1, <5>1
        <4> QED BY <4>2, <4>3
      <3> QED BY <1>3, <3>1, ZenonT(30) DEF PipelineInv, TimesOK
    <2> QED BY <1>1, <1>4, <2>1, ZenonT(30) DEF PipelineInv, TimesOK
  <1>7. \A p : Pipe!Governs(p)' = Pipe!Governs(p)
    BY <1>1, SMTT(30) DEF Pipe!Governs
  <1>8. ASSUME NEW g, NEW log, Follows(spots, seen, clock, g, log)
        PROVE  Follows(spots', seen, clock, g, log)
    BY <1>1, <1>2, <1>3, <1>8, AppendKeeps, SMTT(30)
  <1>9. Pipe!NoSkimmers' => Pipe!NoSkimmers
    <2>1. \A i \in DOMAIN spots : i \in DOMAIN spots' /\ spots'[i] = spots[i]
      BY <1>1, <1>2, <1>3, SMTT(30)
    <2> QED BY <2>1, ZenonT(20) DEF Pipe!NoSkimmers
  <1> QED BY <1>1, <1>5, <1>6, <1>7, <1>8, <1>9, SMTT(30) DEF PipelineInv, ClientsFollow

\* A spot that is not stale is as old as spots may be, and so is its time.
LEMMA NotStale ==
  ASSUME Pipe!PipelineConstants, PipelineInv, stage # "idle", ~Pipe!isStale
  PROVE  /\ clock - Pipe!S.when <= MaxAge /\ Pipe!S.when \in Times
         /\ Pipe!Cur = Len(spots) /\ Pipe!Cur > 0 /\ Pipe!S = spots[Pipe!Cur]
  <1>1. /\ Pipe!Cur \in DOMAIN spots /\ Pipe!S.when \in 0 .. MaxTime /\ spots \in Seq(Spots)
        /\ clock \in Nat /\ MaxAge \in Nat /\ MaxTime \in Nat
    <2>1. spots \in Seq(Spots) /\ clock \in 0 .. MaxTime
      BY Zenon DEF PipelineInv, Pipe!TypeOK, TimesOK, Spots
    <2>2. MaxAge \in Nat /\ MaxTime \in Nat
      BY DEF Pipe!PipelineConstants
    <2> QED BY <2>1, <2>2, CurrentSpot, SMTT(30)
  <1>2. clock - Pipe!S.when <= MaxAge
    BY <1>1, SMTT(30) DEF Pipe!isStale
  <1>3. Pipe!S.when \in Times
    BY <1>1, SMTT(30) DEF Times, Pipe!Never
  <1>4. Pipe!Cur = Len(spots) /\ Pipe!Cur > 0 /\ Pipe!S = spots[Pipe!Cur]
    BY <1>1, SMTT(30) DEF Pipe!Cur, Pipe!S
  <1> QED BY <1>2, <1>3, <1>4, SMTT(30)

\* What a policy lets through now may be logged, and what it has recorded keeps covering.
LEMMA PolicyDecides ==
  ASSUME Pipe!PipelineConstants, PipelineInv, stage = "fanout", ~Pipe!isStale, NEW p \in Pipe!Policies, NEW forgot,
         p \in forgot => Pipe!MayForget(p), NEW recs,
         recs[p] = IF p \in enabled /\ Pipe!Forwards(p, p \in forgot) THEN Pipe!Recorded(p) ELSE seen[p],
         NEW log \in SUBSET Pipe!Log, Follows(spots, seen, clock, p, log)
  PROVE  /\ recs[p] \in [Pipe!Keys -> Times] /\ \A k \in Pipe!Keys : recs[p][k] <= clock
         /\ Follows(spots, recs, clock, p, log)
         /\ p \in enabled /\ Pipe!Forwards(p, p \in forgot) =>
              Follows(spots, recs, clock, p, log \cup {[id |-> Pipe!Cur, at |-> clock]})
  <1> DEFINE rec == seen[p]
             key == Pipe!Key(p, Pipe!S.kind)
             last == rec[key]
  <1>1. /\ spots \in Seq(Spots) /\ rec \in [Pipe!Keys -> Times] /\ clock \in 0 .. MaxTime
        /\ \A k \in Pipe!Keys : rec[k] <= clock
    BY ZenonT(30) DEF PipelineInv, Pipe!TypeOK, TimesOK, Spots, Times
  <1>2. /\ Pipe!Cur \in DOMAIN spots /\ Pipe!S \in Spots /\ Pipe!S.kind \in Kinds /\ Pipe!S.when \in 0 .. MaxTime /\ Pipe!S.when <= clock
        /\ key \in Pipe!Keys
    BY CurrentSpot, KeyIsKey, ZenonT(30)
  <1>3. CASE p \in enabled /\ Pipe!Forwards(p, p \in forgot)
    <2>1. last = Pipe!Never \/ clock - last > Window[p] \/ ~(Pipe!S.when - last < Window[p] /\ last - Pipe!S.when < Window[p])
      BY <1>3, ZenonT(30) DEF Pipe!Forwards, Pipe!MayForget, Pipe!Close
    <2>2. recs[p] = [rec EXCEPT ![key] = Pipe!S.when]
      BY <1>3, ZenonT(30) DEF Pipe!Recorded
    <2>3. clock - Pipe!S.when <= MaxAge
      BY NotStale, Zenon
    <2>4. Pipe!S.when \in Times
      BY NotStale, Zenon
    <2>5. recs[p] \in [Pipe!Keys -> Times] /\ \A k \in Pipe!Keys : recs[p][k] <= clock
      BY <1>1, <1>2, <2>2, <2>4, Zenon
    <2>6. Pipe!Cur = Len(spots) /\ Pipe!Cur > 0 /\ Pipe!S = spots[Pipe!Cur] /\ last <= clock
      BY <1>1, <1>2, NotStale, Zenon
    <2>7. Covered(spots, rec, clock, p, log) /\ Apart(spots, p, log)
      BY Zenon DEF Follows
    <2> HIDE DEF rec
    <2>8. /\ Covered(spots, recs[p], clock, p, log)
          /\ Covered(spots, recs[p], clock, p, log \cup {[id |-> Pipe!Cur, at |-> clock]})
          /\ Apart(spots, p, log \cup {[id |-> Pipe!Cur, at |-> clock]})
      BY <1>1, <1>2, <2>1, <2>2, <2>3, <2>6, <2>7, NewEntry, ZenonT(30)
    <2> QED BY <2>5, <2>7, <2>8, ZenonT(30) DEF Follows
  <1>4. CASE ~(p \in enabled /\ Pipe!Forwards(p, p \in forgot))
    <2>1. recs[p] = rec
      BY <1>4, ZenonT(30)
    <2> QED BY <1>1, <1>4, <2>1, ZenonT(30) DEF Follows
  <1> QED BY <1>3, <1>4, ZenonT(30)

\* The fan-out: the policies decide and record, archive and peers follow the medium one, and
\* the spot goes to the clients, to the aggregator, or to its own callsign only.
LEMMA FanOutKeeps ==
  ASSUME Pipe!PipelineConstants, PipelineInv, NEW forgot \in SUBSET enabled, NEW accepted \in BOOLEAN,
         Pipe!FanOut(forgot, accepted)
  PROVE  PipelineInv'
  <1> DEFINE forward == {p \in enabled : Pipe!Forwards(p, p \in forgot)}
             allow == Pipe!Allowed(forward)
             e == [id |-> Pipe!Cur, at |-> clock]
  <1>1. /\ stage = "fanout" /\ ~Pipe!isStale /\ \A p \in forgot : Pipe!MayForget(p)
        /\ seen' = [p \in Pipe!Policies |-> IF p \in forward THEN Pipe!Recorded(p) ELSE seen[p]]
        /\ reached' = reached \cup {Pipe!Cur} /\ stage' = "idle" /\ UNCHANGED <<clock, enabled, spots, ring>>
        /\ IF allow = {} THEN Pipe!DeliverSelfSpot
           ELSE /\ archive' = Pipe!Saved(allow, archive)
                /\ peers' = IF Pipe!S.kind.peer THEN peers ELSE Pipe!Saved(allow, peers)
                /\ IF Pipe!ShouldAggregate THEN Pipe!Enqueue(accepted) ELSE Pipe!BroadcastSpot(allow)
    BY SMTT(30) DEF Pipe!FanOut
  <1>2. Pipe!Cur \in Pipe!Ids /\ Pipe!Cur \in DOMAIN spots /\ e \in Pipe!Log /\ enabled \subseteq Pipe!Policies
    BY <1>1, CurrentSpot, ZenonT(30) DEF Pipe!Log, PipelineInv, Pipe!TypeOK, Pipe!PipelineConstants
  <1>3. \A p : Pipe!Governs(p)' = Pipe!Governs(p)
    BY <1>1 DEF Pipe!Governs
  <1>4. \A p \in allow : p \in Pipe!Policies /\ (Pipe!Governs(p) \in enabled => Pipe!Governs(p) \in forward)
    BY DEF Pipe!Allowed
  <1>5. ASSUME NEW p \in Pipe!Policies
        PROVE  seen'[p] = IF p \in enabled /\ Pipe!Forwards(p, p \in forgot) THEN Pipe!Recorded(p) ELSE seen[p]
    BY <1>1, Zenon
  <1>6. ASSUME NEW p \in Pipe!Policies, NEW log \in SUBSET Pipe!Log, Follows(spots, seen, clock, p, log)
        PROVE  /\ seen'[p] \in [Pipe!Keys -> Times] /\ \A k \in Pipe!Keys : seen'[p][k] <= clock
               /\ Follows(spots, seen', clock, p, log)
               /\ p \in forward => Follows(spots, seen', clock, p, log \cup {e})
    BY <1>1, <1>5, <1>6, PolicyDecides, ZenonT(30)
  <1>7. \A sp, rec, time, g : Follows(sp, rec, time, g, {})
    BY Zenon DEF Follows, Covered, Apart
  <1>8. seen' \in [Pipe!Policies -> [Pipe!Keys -> Times]] /\ \A p \in Pipe!Policies, k \in Pipe!Keys : seen'[p][k] <= clock
    <2>1. \A p \in Pipe!Policies : seen'[p] \in [Pipe!Keys -> Times] /\ \A k \in Pipe!Keys : seen'[p][k] <= clock
      <3>1. {} \in SUBSET Pipe!Log
        OBVIOUS
      <3> QED BY <1>6, <1>7, <3>1, Zenon
    <2> QED BY <1>1, <2>1, Zenon
  <1> HIDE DEF forward, allow, e
  <1>9. /\ archive' = archive \/ ("med" \in allow /\ archive' = archive \cup {e})
        /\ peers' = peers \/ ("med" \in allow /\ peers' = peers \cup {e})
    <2>1. CASE allow = {}
      BY <1>1, <2>1, Zenon DEF Pipe!DeliverSelfSpot
    <2>2. CASE allow # {}
      <3>1. archive' = Pipe!Saved(allow, archive) /\ (peers' = peers \/ peers' = Pipe!Saved(allow, peers))
        BY <1>1, <2>2, Zenon
      <3>2. \A log : Pipe!Saved(allow, log) = log \/ ("med" \in allow /\ Pipe!Saved(allow, log) = log \cup {e})
        BY Zenon DEF Pipe!Saved, e
      <3> QED BY <3>1, <3>2, Zenon
    <2> QED BY <2>1, <2>2
  <1>10. /\ telnet' = telnet \/ telnet' = [p \in Pipe!Policies |-> IF p \in allow THEN telnet[p] \cup {e} ELSE telnet[p]]
         /\ self' = self \/ self' = self \cup {Pipe!Cur}
         /\ pending' = pending \/ pending' = pending \cup {Pipe!Cur}
         /\ lastEmit' = lastEmit
    BY <1>1, ZenonT(30) DEF Pipe!DeliverSelfSpot, Pipe!Enqueue, Pipe!BroadcastSpot, Pipe!agg, e
  <1>11. Pipe!NoSkimmers => self' = self \cup {Pipe!Cur} /\ pending' = pending
    <2> SUFFICES ASSUME Pipe!NoSkimmers PROVE self' = self \cup {Pipe!Cur} /\ pending' = pending
      OBVIOUS
    <2>1. ~Pipe!ShouldAggregate
      BY <1>2, ZenonT(20) DEF Pipe!NoSkimmers, Pipe!ShouldAggregate, Pipe!S
    <2> QED BY <1>1, <2>1 DEF Pipe!DeliverSelfSpot, Pipe!BroadcastSpot, Pipe!agg
  <1>12. Pipe!TypeOK'
    <2>1. telnet' \in [Pipe!Policies -> SUBSET Pipe!Log]
      BY <1>2, <1>10, ZenonT(30) DEF PipelineInv, Pipe!TypeOK
    <2>2. archive' \subseteq Pipe!Log /\ peers' \subseteq Pipe!Log
      BY <1>2, <1>9 DEF PipelineInv, Pipe!TypeOK
    <2> QED BY <1>1, <1>2, <1>8, <1>10, <2>1, <2>2, SMTT(30) DEF PipelineInv, Pipe!TypeOK, Times
  <1>13. TimesOK'
    BY <1>1, <1>8, Zenon DEF PipelineInv, TimesOK
  <1>14. ASSUME NEW p \in Pipe!Policies, NEW log \in SUBSET Pipe!Log, NEW log2,
                Pipe!Governs(p) \in enabled => Follows(spots, seen, clock, Pipe!Governs(p), log),
                log2 = log \/ (p \in allow /\ log2 = log \cup {e})
         PROVE  Pipe!Governs(p) \in enabled => Follows(spots, seen', clock, Pipe!Governs(p), log2)
    BY <1>4, <1>6, <1>14, GovernorIsPolicy, ZenonT(30)
  <1>15. Pipe!Governs("med") \in enabled => /\ Follows(spots, seen', clock, Pipe!Governs("med"), archive')
                                            /\ Follows(spots, seen', clock, Pipe!Governs("med"), peers')
    <2>1. "med" \in Pipe!Policies /\ archive \in SUBSET Pipe!Log /\ peers \in SUBSET Pipe!Log
      BY SMTT(30) DEF Pipe!Policies, PipelineInv, Pipe!TypeOK
    <2> QED BY <1>9, <1>14, <2>1, ZenonT(20) DEF PipelineInv
  <1>16. Pipe!NoSkimmers => \A p \in Pipe!Policies : Pipe!Governs(p) \in enabled => Follows(spots, seen', clock, Pipe!Governs(p), telnet'[p])
    <2>1. \A p \in Pipe!Policies : telnet[p] \in SUBSET Pipe!Log /\ (telnet'[p] = telnet[p] \/ (p \in allow /\ telnet'[p] = telnet[p] \cup {e}))
      <3> TAKE p \in Pipe!Policies
      <3>1. telnet \in [Pipe!Policies -> SUBSET Pipe!Log]
        BY SMTT(30) DEF PipelineInv, Pipe!TypeOK
      <3>2. CASE telnet' = telnet
        BY <3>1, <3>2
      <3>3. CASE telnet' = [q \in Pipe!Policies |-> IF q \in allow THEN telnet[q] \cup {e} ELSE telnet[q]]
        BY <3>1, <3>3
      <3> QED BY <1>10, <3>2, <3>3, ZenonT(20)
    <2> QED BY <1>14, <2>1, ZenonT(30) DEF PipelineInv, ClientsFollow
  <1>17. Pipe!NoSkimmers' = Pipe!NoSkimmers
    BY <1>1, ZenonT(30) DEF Pipe!NoSkimmers
  <1>18. Pipe!NoSkimmers' => pending' = {} /\ reached' \subseteq self' /\ ClientsFollow'
    <2>1. CASE ~Pipe!NoSkimmers
      BY <1>17, <2>1, Zenon
    <2>2. CASE Pipe!NoSkimmers
      <3>1. pending' = {} /\ reached' \subseteq self'
        BY <1>1, <1>3, <1>11, <2>2, SMTT(30) DEF PipelineInv
      <3>2. ClientsFollow'
        <4>1. UNCHANGED <<spots, clock, enabled>>
          BY <1>1
        <4>2. \A p : Pipe!Governs(p)' = Pipe!Governs(p)
          BY <4>1, Zenon DEF Pipe!Governs
        <4> QED BY <1>16, <2>2, <4>1, <4>2, ZenonT(30) DEF ClientsFollow
      <3> QED BY <3>1, <3>2, ZenonT(20)
    <2> QED BY <2>1, <2>2
  <1> QED BY <1>1, <1>3, <1>12, <1>13, <1>15, <1>18, ZenonT(20) DEF PipelineInv

\* A log that follows its policy is spaced.
LEMMA FollowingIsSpaced ==
  ASSUME NEW p, NEW log, Pipe!Governs(p) \in enabled => Follows(spots, seen, clock, Pipe!Governs(p), log)
  PROVE  Pipe!Spaced(p, log)
  BY Zenon DEF Follows, Apart, Pipe!Spaced

\* The inductive invariant holds in every reachable state, for any kinds of spots, windows,
\* policies that are on, ages and orders of arrival (processOutputSpots).
THEOREM PipelineInvariant == ASSUME Pipe!PipelineConstants PROVE Pipe!Spec => []PipelineInv
  <1>1. Pipe!Init => PipelineInv
    BY PipelineInit
  <1>2. PipelineInv /\ [Pipe!Next]_(Pipe!vars) => PipelineInv'
    <2> SUFFICES ASSUME PipelineInv, [Pipe!Next]_(Pipe!vars) PROVE PipelineInv'
      OBVIOUS
    <2>1. CASE UNCHANGED Pipe!vars
      <3>1. UNCHANGED <<clock, enabled, spots, stage, seen, pending, lastEmit, ring, telnet, archive, peers, self, reached>>
        BY <2>1, ZenonT(20) DEF Pipe!vars, Pipe!agg, Pipe!sinks
      <3>2. Pipe!TypeOK'
        BY <3>1 DEF PipelineInv, Pipe!TypeOK
      <3> QED BY <3>1, <3>2, QuietSteps, ZenonT(20)
    <2> QED BY <2>1, PipelineTick, TakeKeeps, CheckKeeps, FanOutKeeps, EmitKeeps, LimboKeeps, SMTT(30) DEF Pipe!Next
  <1> QED BY <1>1, <1>2, PTL DEF Pipe!Spec

\* Archive and peers are spaced as the medium policy or its stand-in demands, and without
\* skimmers so are the clients of every policy, while every spot in time reaches its own
\* callsign (processOutputSpots, DeliverSelfSpot).
THEOREM SinksFollow == ASSUME Pipe!PipelineConstants PROVE Pipe!Spec => []Pipe!SinksFollowPolicies
  <1>1. PipelineInv => Pipe!SinksFollowPolicies
    <2> SUFFICES ASSUME PipelineInv PROVE Pipe!SinksFollowPolicies
      OBVIOUS
    <2>1. Pipe!Spaced("med", archive) /\ Pipe!Spaced("med", peers)
      BY FollowingIsSpaced, ZenonT(20) DEF PipelineInv
    <2>2. Pipe!NoSkimmers => \A p \in Pipe!Policies : Pipe!Spaced(p, telnet[p])
      BY FollowingIsSpaced DEF PipelineInv, ClientsFollow
    <2> QED BY <2>1, <2>2 DEF PipelineInv, Pipe!SinksFollowPolicies, Pipe!ArchiveAndPeersFollowMed, Pipe!ClientSpacing, Pipe!SelfDelivered
  <1> QED BY <1>1, PipelineInvariant, PTL
=============================================================================
