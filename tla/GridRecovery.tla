---------------------------- MODULE GridRecovery ----------------------------
(***************************************************************************)
(* Checkpoints of the grid store and the restore from them (main.go,       *)
(* gridstore/maintenance.go).  The store is a directory; its checkpoints   *)
(* are directories inside it.  At startup a corrupt store is replaced, in  *)
(* the background, by a copy of the newest checkpoint that verifies.  The  *)
(* process may be killed between any two file operations.                  *)
(***************************************************************************)
EXTENDS Integers, TLAPS

CONSTANTS
  Retention,                             \* gridCheckpointRetention
  MaxWrites, MaxCrashes, MaxFailures     \* bounds

VARIABLES
  db, temp, backup,  \* the directories: NoDir, or [version, good, cps]
  handle,            \* version the open store holds, None when there is none
  step,              \* "down", "up", or where the restore is
  from,              \* the checkpoint being restored
  left,              \* the checkpoints not tried yet
  crashes, failures

vars == <<db, temp, backup, handle, step, from, left, crashes, failures>>

None == -1
NoDir == [version |-> None, good |-> FALSE, cps |-> {}]
NoCheckpoint == [at |-> None, good |-> FALSE]

Init ==
  /\ db = NoDir /\ temp = NoDir /\ backup = NoDir
  /\ handle = None /\ step = "down" /\ from = NoCheckpoint /\ left = {}
  /\ crashes = 0 /\ failures = 0

\* The recovery runs beside the rest of the server, which has no store meanwhile.
startGridStoreRecovery == handle' = None /\ step' = "pick" /\ left' = db.cps

\* gridstore.Open at startup creates what is not there, and a corrupt store is recovered.
Start ==
  /\ step = "down"
  /\ db' = IF db = NoDir THEN [version |-> 0, good |-> TRUE, cps |-> {}] ELSE db
  /\ IF db'.good THEN handle' = db'.version /\ step' = "up" /\ UNCHANGED left
     ELSE startGridStoreRecovery
  /\ UNCHANGED <<temp, backup, from, crashes, failures>>

\* The process is killed; the disk may be damaged: the store, and some checkpoints.
Crash ==
  /\ step # "down" /\ crashes < MaxCrashes /\ crashes' = crashes + 1
  /\ step' = "down" /\ handle' = None /\ from' = NoCheckpoint /\ left' = {}
  /\ \/ UNCHANGED db
     \/ /\ db # NoDir
        /\ \E lost \in SUBSET db.cps :
             db' = [db EXCEPT !.good = FALSE,
                              !.cps = {[c EXCEPT !.good = @ /\ c \notin lost] : c \in db.cps}]
  /\ UNCHANGED <<temp, backup, failures>>

Write ==
  /\ handle # None /\ step = "up" /\ handle < MaxWrites
  /\ handle' = handle + 1 /\ db' = [db EXCEPT !.version = handle + 1]
  /\ UNCHANGED <<temp, backup, step, from, left, crashes, failures>>

Kept(cps) == {c \in cps : c.at >= handle - Retention}

\* startGridCheckpointScheduler: a checkpoint of the store, under a temporary name until it
\* is complete; then those past the retention go.  Its time is the version it holds.
Checkpoint ==
  /\ handle # None /\ step = "up"
  /\ \A c \in db.cps : c.at < handle
  /\ db' = [db EXCEPT !.cps = Kept(@) \union {[at |-> handle, good |-> TRUE]}]
  /\ UNCHANGED <<temp, backup, handle, step, from, left, crashes, failures>>
-----------------------------------------------------------------------------
Newest(S) == {c \in S : \A d \in S : d.at <= c.at}

\* VerifyCheckpoint: the scan of its records decodes every one.
Verified(c) == c.good

\* Mutant: listGridCheckpoints sorts the other way.
MutTryNext ==
  /\ step = "pick" /\ left # {}
  /\ from' \in {c \in left : \A d \in left : d.at >= c.at}
  /\ left' = left \ {from'} /\ step' = IF Verified(from') THEN "copy" ELSE "pick"
  /\ UNCHANGED <<db, temp, backup, handle, crashes, failures>>

\* The newest checkpoint not tried yet, if it verifies
TryNext ==
  /\ step = "pick" /\ left # {}
  /\ from' \in Newest(left)
  /\ left' = left \ {from'} /\ step' = IF Verified(from') THEN "copy" ELSE "pick"
  /\ UNCHANGED <<db, temp, backup, handle, crashes, failures>>

\* No valid checkpoint: the server goes on without the store.
GiveUp ==
  /\ step = "pick" /\ left = {} /\ step' = "up"
  /\ UNCHANGED <<db, temp, backup, handle, from, left, crashes, failures>>

\* restoreGridStoreFromPath: copyDirCtx fills a directory of its own, ...
Copy ==
  /\ step = "copy" /\ step' = "backup"
  /\ temp' = [version |-> from.at, good |-> TRUE, cps |-> {}]
  /\ UNCHANGED <<db, backup, handle, from, left, crashes, failures>>

\* ... the store is moved away, ...
Backup ==
  /\ step = "backup" /\ step' = "swap"
  /\ backup' = db /\ db' = NoDir
  /\ UNCHANGED <<temp, handle, from, left, crashes, failures>>

\* ... the copy takes its place, ...
Swap ==
  /\ step = "swap" /\ step' = "carry"
  /\ db' = temp /\ temp' = NoDir
  /\ UNCHANGED <<backup, handle, from, left, crashes, failures>>

\* ... the checkpoints are carried over, which may fail, and the old store is deleted.
CarryForward ==
  /\ step = "carry" /\ step' = "delete"
  /\ \/ db' = [db EXCEPT !.cps = backup.cps] /\ UNCHANGED failures
     \/ failures < MaxFailures /\ failures' = failures + 1 /\ UNCHANGED db
  /\ UNCHANGED <<temp, backup, handle, from, left, crashes>>

RemoveBackup ==
  /\ step = "delete" /\ step' = "open" /\ backup' = NoDir
  /\ UNCHANGED <<db, temp, handle, from, left, crashes, failures>>

OpenRestored ==
  /\ step = "open" /\ step' = "up" /\ handle' = db.version
  /\ UNCHANGED <<db, temp, backup, from, left, crashes, failures>>

\* The copy, the first rename or the second fails: everything is put back, and the next
\* checkpoint is tried.
StepFails ==
  /\ step \in {"copy", "backup", "swap"} /\ failures < MaxFailures /\ failures' = failures + 1
  /\ step' = "pick" /\ temp' = NoDir
  /\ IF step = "swap" THEN db' = backup /\ backup' = NoDir ELSE UNCHANGED <<db, backup>>
  /\ UNCHANGED <<handle, from, left, crashes>>

Restore ==
  \/ TryNext \/ GiveUp \/ Copy \/ Backup \/ Swap \/ CarryForward \/ RemoveBackup \/ OpenRestored \/ StepFails

Next == Start \/ Crash \/ Write \/ Checkpoint \/ Restore

\* The background restore goes on, and the process is started again.
Spec == Init /\ [][Next]_vars /\ WF_vars(Start) /\ WF_vars(Restore)
-----------------------------------------------------------------------------
\* The store is at the newest of its good checkpoints.
HoldsNewest ==
  \E c \in db.cps : c.good /\ c.at = db.version /\ \A d \in db.cps : d.good => d.at <= c.at

\* A corrupt store is never used, and a restore puts the newest checkpoint that verifies in
\* its place, as long as none of its steps fails (restoreGridStoreFromCheckpoint).
NewestInPlace ==
  [][/\ handle' # handle /\ handle' # None => db'.good
     /\ step = "open" /\ failures = 0 => HoldsNewest]_vars

\* A restore restores the newest good state and comes to an end.
RestoresNewest == NewestInPlace /\ []<>(step = "up")

-----------------------------------------------------------------------------
(* What a restore puts in place, for every value of the constants.  The    *)
(* invariant follows the newest good checkpoint through the steps of the   *)
(* restore: it is among those not tried, then what is copied, then what is *)
(* in the copy, whichever directory the others are in meanwhile.           *)

\* What the constants of the model are
RecoveryConstants == MaxWrites \in Nat /\ Retention \in Nat

\* Checkpoints, and the directories they are in
Cps == [at : 0 .. MaxWrites, good : BOOLEAN]
Dirs == [version : -1 .. MaxWrites, good : BOOLEAN, cps : SUBSET Cps]

\* The directories, the restore and its local variables
RecoveryTypes ==
  /\ db \in Dirs /\ temp \in Dirs /\ backup \in Dirs
  /\ handle \in -1 .. MaxWrites /\ left \in SUBSET Cps
  /\ failures \in Nat /\ step \in {"down", "up", "pick", "copy", "backup", "swap", "carry", "delete", "open"}
  /\ \A d \in {db, temp, backup} : d.good => d.version >= 0

\* The checkpoint being restored is good, and no good one of its store is newer.
IsNewestOf(cps) == \A d \in cps : d.good => d.at <= from.at

\* Where the restore is: the copy is good, and is of the newest good checkpoint; all that
\* is left out of what is still to be tried has been found bad.
Underway ==
  /\ handle # None => step = "up" /\ db.good
  /\ step \in {"copy", "backup", "swap", "carry", "delete", "open"} => from \in Cps /\ from.good
  /\ step \in {"backup", "swap"} => temp = [version |-> from.at, good |-> TRUE, cps |-> {}]
  /\ step \in {"carry", "delete", "open"} => db.good /\ db.version = from.at
  /\ failures = 0 =>
       /\ step = "pick" => \A c \in db.cps : c.good => c \in left
       /\ step = "pick" => left \subseteq db.cps
       /\ step \in {"copy", "backup"} => from \in db.cps /\ IsNewestOf(db.cps)
       /\ step \in {"swap", "carry"} => from \in backup.cps /\ IsNewestOf(backup.cps)
       /\ step \in {"delete", "open"} => from \in db.cps /\ IsNewestOf(db.cps)

\* The inductive invariant
RecoveryInv == RecoveryTypes /\ Underway

\* Nothing is being restored initially.
LEMMA RecoveryInit ==
  ASSUME RecoveryConstants, Init
  PROVE  RecoveryInv
  BY DEF RecoveryConstants, Init, RecoveryInv, RecoveryTypes, Underway, Dirs, NoDir, None

\* Every step keeps the invariant.
LEMMA RecoveryNext ==
  ASSUME RecoveryConstants, RecoveryInv, [Next]_vars
  PROVE  RecoveryInv'
  <1> USE DEF None
  <1>0. RecoveryTypes /\ Underway
    BY DEF RecoveryInv
  <1>1. CASE Start
    <2>0. /\ step = "down" /\ temp' = temp /\ backup' = backup /\ from' = from /\ failures' = failures
          /\ handle = -1
      BY <1>0, <1>1 DEF Start, RecoveryTypes, Underway
    <2>1. db' \in Dirs /\ (db'.good => db'.version >= 0)
      BY <1>0, <1>1 DEF Start, RecoveryTypes, Dirs, RecoveryConstants
    <2>2. CASE db'.good
      <3>1. handle' = db'.version /\ step' = "up" /\ left' = left
        BY <1>1, <2>2 DEF Start
      <3>2. RecoveryTypes'
        BY <1>0, <2>0, <2>1, <2>2, <3>1 DEF RecoveryTypes, Dirs
      <3> QED
        BY <3>1, <3>2, <2>2 DEF RecoveryInv, Underway
    <2>3. CASE ~db'.good
      <3>1. handle' = -1 /\ step' = "pick" /\ left' = db.cps
        BY <1>1, <2>3 DEF Start, startGridStoreRecovery
      <3>2. db' = db
        BY <1>1, <2>3 DEF Start
      <3>3. RecoveryTypes'
        BY <1>0, <2>0, <3>1, <3>2 DEF RecoveryTypes, Dirs, RecoveryConstants
      <3> QED
        BY <3>1, <3>2, <3>3 DEF RecoveryInv, Underway
    <2> QED
      BY <2>2, <2>3
  <1>2. CASE Crash
    <2>1. /\ step' = "down" /\ handle' = -1 /\ left' = {} /\ temp' = temp /\ backup' = backup /\ failures' = failures
      BY <1>2, ZenonT(30) DEF Crash
    <2>2. db' \in Dirs /\ (db'.good => db'.version >= 0)
      <3>1. CASE db' = db
        BY <3>1, <1>0 DEF RecoveryTypes
      <3>2. ASSUME NEW lost \in SUBSET db.cps,
                   db' = [db EXCEPT !.good = FALSE,
                                    !.cps = {[c EXCEPT !.good = @ /\ c \notin lost] : c \in db.cps}]
            PROVE  db' \in Dirs /\ ~db'.good
        <4>1. db.cps \in SUBSET Cps /\ db \in Dirs
          BY <1>0 DEF RecoveryTypes, Dirs
        <4>2. {[c EXCEPT !.good = @ /\ c \notin lost] : c \in db.cps} \in SUBSET Cps
          <5>1. ASSUME NEW c \in db.cps
                PROVE  [c EXCEPT !.good = @ /\ c \notin lost] \in Cps
            <6> DEFINE g == c.good /\ c \notin lost
            <6>1. c \in [at : 0 .. MaxWrites, good : BOOLEAN] /\ g \in BOOLEAN
              BY <4>1, Zenon DEF Cps
            <6> HIDE DEF g
            <6>2. [c EXCEPT !.good = g] \in Cps
              BY <6>1 DEF Cps
            <6> QED
              BY <6>2, Zenon DEF g
          <5> QED
            BY <5>1, Zenon
        <4> DEFINE cs == {[c EXCEPT !.good = @ /\ c \notin lost] : c \in db.cps}
        <4>3. db' = [db EXCEPT !.good = FALSE, !.cps = cs] /\ cs \in SUBSET Cps
          BY <3>2, <4>2
        <4> HIDE DEF cs
        <4> QED
          BY <4>1, <4>3 DEF Dirs
      <3> QED
        BY <3>1, <3>2, <1>2 DEF Crash
    <2>3. RecoveryTypes'
      BY <1>0, <2>1, <2>2 DEF RecoveryTypes, RecoveryConstants
    <2>4. Underway'
      BY <2>1 DEF Underway
    <2> QED
      BY <2>3, <2>4, Zenon DEF RecoveryInv
  <1>3. CASE Write
    <2>1. /\ step = "up" /\ step' = step /\ handle # -1 /\ handle < MaxWrites /\ handle' = handle + 1
          /\ db' = [db EXCEPT !.version = handle + 1] /\ temp' = temp /\ backup' = backup
          /\ left' = left /\ failures' = failures
      BY <1>3 DEF Write
    <2>2. db' \in Dirs /\ db'.good = db.good /\ db'.version = handle + 1 /\ db.good
      BY <1>0, <2>1 DEF RecoveryTypes, Underway, Dirs, RecoveryConstants
    <2>3. RecoveryTypes'
      BY <1>0, <2>1, <2>2 DEF RecoveryTypes, RecoveryConstants
    <2> QED
      BY <2>1, <2>2, <2>3 DEF RecoveryInv, Underway
  <1>4. CASE Checkpoint
    <2>1. /\ step = "up" /\ step' = step /\ handle # -1 /\ handle' = handle
          /\ db' = [db EXCEPT !.cps = Kept(@) \union {[at |-> handle, good |-> TRUE]}]
          /\ temp' = temp /\ backup' = backup /\ left' = left /\ failures' = failures
      BY <1>4 DEF Checkpoint
    <2>2. Kept(db.cps) \union {[at |-> handle, good |-> TRUE]} \in SUBSET Cps
      <3>1. db.cps \in SUBSET Cps /\ handle \in 0 .. MaxWrites
        BY <1>0, <2>1 DEF RecoveryTypes, Dirs, RecoveryConstants
      <3>2. [at |-> handle, good |-> TRUE] \in Cps
        BY <3>1 DEF Cps
      <3> QED
        BY <3>1, <3>2 DEF Kept
    <2>3. db' \in Dirs /\ db'.good = db.good /\ db'.version = db.version
      <3> DEFINE cs == Kept(db.cps) \union {[at |-> handle, good |-> TRUE]}
      <3>1. db' = [db EXCEPT !.cps = cs] /\ cs \in SUBSET Cps
        BY <2>1, <2>2
      <3> HIDE DEF cs
      <3> QED
        BY <3>1, <1>0 DEF RecoveryTypes, Dirs
    <2>4. RecoveryTypes'
      BY <1>0, <2>1, <2>3 DEF RecoveryTypes
    <2> QED
      BY <1>0, <2>1, <2>3, <2>4 DEF RecoveryInv, Underway
  <1>5. CASE TryNext
    <2>1. /\ step = "pick" /\ left # {} /\ from' \in Newest(left) /\ left' = left \ {from'}
          /\ step' = IF from'.good THEN "copy" ELSE "pick"
          /\ db' = db /\ temp' = temp /\ backup' = backup /\ handle' = handle /\ failures' = failures
      BY <1>5 DEF TryNext, Verified
    <2>2. from' \in left /\ \A d \in left : d.at <= from'.at
      BY <2>1 DEF Newest
    <2>3. from' \in Cps
      BY <2>2, <1>0 DEF RecoveryTypes
    <2>4. RecoveryTypes'
      BY <1>0, <2>1 DEF RecoveryTypes
    <2>5. handle' = -1
      BY <1>0, <2>1 DEF Underway
    <2> QED
      BY <1>0, <2>1, <2>2, <2>3, <2>4, <2>5 DEF RecoveryInv, Underway, IsNewestOf
  <1>6. CASE GiveUp
    BY <1>0, <1>6 DEF GiveUp, RecoveryInv, RecoveryTypes, Underway
  <1>7. CASE Copy
    <2>1. /\ step = "copy" /\ step' = "backup" /\ temp' = [version |-> from.at, good |-> TRUE, cps |-> {}]
          /\ db' = db /\ backup' = backup /\ handle' = handle /\ from' = from /\ left' = left /\ failures' = failures
      BY <1>7 DEF Copy
    <2>2. temp' \in Dirs /\ temp'.version >= 0
      BY <1>0, <2>1 DEF Underway, Dirs, Cps, RecoveryConstants
    <2>3. RecoveryTypes'
      BY <1>0, <2>1, <2>2 DEF RecoveryTypes
    <2> QED
      BY <1>0, <2>1, <2>3 DEF RecoveryInv, Underway, IsNewestOf
  <1>8. CASE Backup
    <2>1. /\ step = "backup" /\ step' = "swap" /\ backup' = db /\ db' = NoDir
          /\ temp' = temp /\ handle' = handle /\ from' = from /\ left' = left /\ failures' = failures
      BY <1>8 DEF Backup
    <2>2. NoDir \in Dirs /\ ~NoDir.good
      BY DEF NoDir, Dirs, RecoveryConstants
    <2>3. RecoveryTypes'
      BY <1>0, <2>1, <2>2 DEF RecoveryTypes
    <2> QED
      BY <1>0, <2>1, <2>3 DEF RecoveryInv, Underway, IsNewestOf
  <1>9. CASE Swap
    <2>1. /\ step = "swap" /\ step' = "carry" /\ db' = temp /\ temp' = NoDir
          /\ backup' = backup /\ handle' = handle /\ from' = from /\ left' = left /\ failures' = failures
      BY <1>9 DEF Swap
    <2>2. NoDir \in Dirs /\ ~NoDir.good
      BY DEF NoDir, Dirs, RecoveryConstants
    <2>3. RecoveryTypes'
      BY <1>0, <2>1, <2>2 DEF RecoveryTypes
    <2>4. db'.good /\ db'.version = from.at
      BY <1>0, <2>1 DEF Underway
    <2> QED
      BY <1>0, <2>1, <2>3, <2>4 DEF RecoveryInv, Underway, IsNewestOf
  <1>10. CASE CarryForward
    <2>1. /\ step = "carry" /\ step' = "delete"
          /\ temp' = temp /\ backup' = backup /\ handle' = handle /\ from' = from /\ left' = left
      BY <1>10 DEF CarryForward
    <2>2. CASE db' = [db EXCEPT !.cps = backup.cps] /\ failures' = failures
      <3>1. /\ db' \in Dirs /\ db'.good = db.good /\ db'.version = db.version /\ db'.cps = backup.cps
        BY <1>0, <2>2 DEF RecoveryTypes, Dirs
      <3>2. RecoveryTypes'
        BY <1>0, <2>1, <2>2, <3>1 DEF RecoveryTypes
      <3> QED
        BY <1>0, <2>1, <2>2, <3>1, <3>2 DEF RecoveryInv, Underway, IsNewestOf
    <2>3. CASE failures' = failures + 1 /\ db' = db
      <3>1. RecoveryTypes' /\ failures' # 0
        BY <1>0, <2>1, <2>3 DEF RecoveryTypes
      <3> QED
        BY <1>0, <2>1, <2>3, <3>1 DEF RecoveryInv, Underway
    <2> QED
      BY <2>2, <2>3, <1>10 DEF CarryForward
  <1>11. CASE RemoveBackup
    <2>1. /\ step = "delete" /\ step' = "open" /\ backup' = NoDir
          /\ db' = db /\ temp' = temp /\ handle' = handle /\ from' = from /\ left' = left /\ failures' = failures
      BY <1>11 DEF RemoveBackup
    <2>2. NoDir \in Dirs /\ ~NoDir.good
      BY DEF NoDir, Dirs, RecoveryConstants
    <2>3. RecoveryTypes'
      BY <1>0, <2>1, <2>2 DEF RecoveryTypes
    <2> QED
      BY <1>0, <2>1, <2>3 DEF RecoveryInv, Underway, IsNewestOf
  <1>12. CASE OpenRestored
    <2>1. /\ step = "open" /\ step' = "up" /\ handle' = db.version
          /\ db' = db /\ temp' = temp /\ backup' = backup /\ left' = left /\ failures' = failures
      BY <1>12 DEF OpenRestored
    <2>2. db.good /\ db.version \in -1 .. MaxWrites
      BY <1>0, <2>1 DEF RecoveryTypes, Underway, Dirs
    <2>3. RecoveryTypes'
      BY <1>0, <2>1, <2>2 DEF RecoveryTypes
    <2> QED
      BY <2>1, <2>2, <2>3 DEF RecoveryInv, Underway
  <1>13. CASE StepFails
    <2>1. /\ step \in {"copy", "backup", "swap"} /\ step' = "pick" /\ temp' = NoDir /\ failures' = failures + 1
          /\ (db' = backup /\ backup' = NoDir) \/ (db' = db /\ backup' = backup)
          /\ handle' = handle /\ left' = left
      BY <1>13 DEF StepFails
    <2>2. NoDir \in Dirs /\ ~NoDir.good
      BY DEF NoDir, Dirs, RecoveryConstants
    <2>3. RecoveryTypes' /\ failures' # 0
      BY <1>0, <2>1, <2>2 DEF RecoveryTypes
    <2>4. handle' = -1
      BY <1>0, <2>1 DEF Underway
    <2> QED
      BY <2>1, <2>3, <2>4 DEF RecoveryInv, Underway
  <1>14. CASE UNCHANGED vars
    BY <1>0, <1>14 DEF vars, RecoveryInv, RecoveryTypes, Underway, IsNewestOf
  <1> QED
    BY <1>1, <1>2, <1>3, <1>4, <1>5, <1>6, <1>7, <1>8, <1>9, <1>10, <1>11, <1>12, <1>13, <1>14 DEF Next, Restore

\* A restore that no step of fails puts the newest good checkpoint in place.
LEMMA RestoredIsNewest ==
  ASSUME RecoveryInv, step = "open", failures = 0
  PROVE  HoldsNewest
  <1>1. db.version = from.at /\ from \in db.cps /\ from.good /\ IsNewestOf(db.cps)
    BY DEF RecoveryInv, Underway
  <1> QED
    BY <1>1 DEF IsNewestOf, HoldsNewest

\* For any number of writes, kills and failures, and any retention: a corrupt store is never
\* used, and when a restore none of whose steps failed comes to open the store, the newest
\* checkpoint that verifies is in its place (restoreGridStoreFromCheckpoint).
THEOREM RestoreIsNewest ==
  ASSUME RecoveryConstants
  PROVE  Spec => NewestInPlace
  <1>1. Init => RecoveryInv
    BY RecoveryInit
  <1>2. RecoveryInv /\ [Next]_vars => RecoveryInv'
    BY RecoveryNext
  <1>3. ASSUME RecoveryInv, [Next]_vars, handle' # handle, handle' # None
        PROVE  db'.good
    BY <1>3, <1>2 DEF RecoveryInv, Underway
  <1>4. RecoveryInv /\ step = "open" /\ failures = 0 => HoldsNewest
    BY RestoredIsNewest
  <1>5. RecoveryInv /\ [Next]_vars =>
          [/\ handle' # handle /\ handle' # None => db'.good
           /\ step = "open" /\ failures = 0 => HoldsNewest]_vars
    BY <1>3, <1>4
  <1> QED
    BY <1>1, <1>2, <1>5, PTL DEF Spec, NewestInPlace
=============================================================================
