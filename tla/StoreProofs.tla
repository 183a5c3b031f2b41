---------------------------- MODULE StoreProofs -----------------------------
(***************************************************************************)
(* For every finite set of calls, batch size and number of crashes and     *)
(* failed commits: the index of the grid store holds exactly the time of   *)
(* every record, and the number on disk is the number of records.          *)
(*                                                                         *)
(* Neither is inductive: a purge deletes by keys it has read before, in    *)
(* batches, and counts down a number of its own. The invariant says that   *)
(* what is left to do is still there, and who holds the number when.       *)
(*                                                                         *)
(* The second part follows the grid of one callsign between cache, writer  *)
(* and store, for any grids, lookup workers and queue capacities: an       *)
(* actual grid is not replaced by a derived one, and a callsign is marked  *)
(* pending exactly while its request is on its way.                        *)
(*                                                                         *)
(* The third is about the data files (DataRefresh), for any versions and   *)
(* restarts: bad data never comes into use, and the scheduler does not go  *)
(* back to older data.                                                     *)
(***************************************************************************)
EXTENDS GridStore, TLAPS, FiniteSetTheorems

\* What can wait in the queue, and what the writer can be at
Upserts == {[kind |-> "upsert", recs |-> r] : r \in UNION {[S -> Incoming] : S \in SUBSET Calls}}
Requests == Upserts \cup [kind : {"clear"}] \cup [kind : {"purge"}, cutoff : Nat]
Jobs == {NoJob} \cup [kind : {"clear"}, left : SUBSET Calls]
                \cup [kind : {"purge"}, left : SUBSET Keys, count : Int]

\* Types of disk, memory, queue and job
TypeOK ==
  /\ records \in [Calls -> Recs \cup {NoRecord}]
  /\ metaCount \in Int /\ count \in Int
  /\ queue \in Seq(Requests) /\ job \in Jobs
  /\ running \in BOOLEAN /\ now \in Nat /\ miscounted \in BOOLEAN

\* What a maintenance job still has to do is still there.
LeftIsThere ==
  /\ job.kind = "clear" => job.left \subseteq Stored
  /\ job.kind = "purge" => job.left \subseteq index

\* Whoever holds the number of records knows it: disk always, the memory unless a purge is
\* under way, and then the purge.
CountsAgree ==
  /\ metaCount # Missing => metaCount = Cardinality(Stored)
  /\ running => /\ metaCount # Missing
                /\ job.kind # "purge" => count = Cardinality(Stored)
                /\ job.kind = "purge" => job.count = Cardinality(Stored)

\* The inductive invariant
StoreInv == TypeOK /\ IndexExact /\ LeftIsThere /\ (~miscounted => CountsAgree)

\* What normalizeRecordValue makes of a record is a record.
LEMMA NormalizedIsRecord ==
  ASSUME NEW rec \in Recs, now \in Nat PROVE normalizeRecordValue(rec) \in Recs
  <1> DEFINE u == IF rec.updated = Zero THEN now ELSE rec.updated
             f == IF rec.first = Zero THEN u ELSE rec.first
             d == rec.derived /\ rec.grid # ""
  <1>1. u \in Nat /\ f \in Nat
    BY DEF Recs, Zero
  <1>2. d \in BOOLEAN
    OBVIOUS
  <1>3. normalizeRecordValue(rec) = [rec EXCEPT !.updated = u, !.first = f, !.derived = d]
    BY DEF normalizeRecordValue
  <1> HIDE DEF u, f, d
  <1> QED BY <1>1, <1>2, <1>3, Zenon DEF Recs

\* So is what mergeRecordValue makes of two,
LEMMA MergedValueIsRecord ==
  ASSUME NEW old \in Recs \cup {NoRecord}, NEW in \in Recs PROVE mergeRecordValue(old, in) \in Recs
  <1>1. CASE old = NoRecord
    BY <1>1 DEF mergeRecordValue
  <1>2. CASE old # NoRecord
    <2> DEFINE keepGrid == in.grid = "" \/ (in.derived /\ old.grid # "" /\ ~old.derived)
               k == in.known \/ old.known
               g == IF keepGrid THEN old.grid ELSE in.grid
               d == IF keepGrid THEN old.derived ELSE in.derived
               y == IF in.cty = "" THEN old.cty ELSE in.cty
               o == in.observations + old.observations
               f == IF old.first < in.first THEN old.first ELSE in.first
               u == IF old.updated > in.updated THEN old.updated ELSE in.updated
               x == IF in.expires = Zero THEN old.expires ELSE in.expires
    <2>1. g \in STRING /\ y \in STRING
      <3>1. old.grid \in STRING /\ in.grid \in STRING /\ old.cty \in STRING /\ in.cty \in STRING
        BY <1>2 DEF Recs
      <3> QED BY <3>1, Zenon
    <2>5. o \in Nat /\ f \in Nat /\ u \in Nat /\ x \in Nat
      BY <1>2 DEF Recs
    <2>2. k \in BOOLEAN
      OBVIOUS
    <2>3. d \in BOOLEAN
      BY <1>2, Zenon DEF Recs
    <2>4. mergeRecordValue(old, in) =
            [in EXCEPT !.known = k, !.grid = g, !.derived = d, !.cty = y, !.observations = o,
                       !.first = f, !.updated = u, !.expires = x]
      BY <1>2 DEF mergeRecordValue
    <2> HIDE DEF k, g, d, y, o, f, u, x
    <2> QED BY <2>1, <2>5, <2>2, <2>3, <2>4, ZenonT(30) DEF Recs
  <1> QED BY <1>1, <1>2

\* what decodeRecordValue reads
LEMMA DecodedIsRecord == ASSUME NEW rec \in Recs PROVE Decoded(rec) \in Recs
  <1> DEFINE d == rec.derived /\ rec.grid # ""
  <1>1. d \in BOOLEAN
    OBVIOUS
  <1>2. Decoded(rec) = [rec EXCEPT !.derived = d]
    BY DEF Decoded
  <1> HIDE DEF d
  <1> QED BY <1>1, <1>2 DEF Recs

\* and what an upsert stores.
LEMMA MergedIsRecord ==
  ASSUME StoreConstants, TypeOK, NEW S \in SUBSET Calls, NEW recs \in [S -> Incoming], NEW c \in S
  PROVE  Merged(recs, c) \in Recs
  BY NormalizedIsRecord, MergedValueIsRecord, DecodedIsRecord DEF Merged, TypeOK, StoreConstants

\* The calls with a record and the keys of their records, for any content of the store
CallsIn(r) == {c \in Calls : r[c] # NoRecord}
KeysIn(r) == {[updated |-> r[c].updated, call |-> c] : c \in CallsIn(r)}

\* What these are now
LEMMA SameSets == Stored = CallsIn(records) /\ {KeyOf(c) : c \in Stored} = KeysIn(records)
  BY DEF Stored, CallsIn, KeysIn, KeyOf

\* A store has finitely many records, in whatever state it is.
LEMMA CallsAreFinite ==
  ASSUME StoreConstants, NEW r PROVE IsFiniteSet(CallsIn(r)) /\ Cardinality(CallsIn(r)) \in Nat
  <1>1. CallsIn(r) \in SUBSET Calls
    BY DEF CallsIn
  <1> QED BY <1>1, FS_Subset, FS_CardinalityType DEF StoreConstants

\* An upsert deletes the key of the old time with the record that had it, and adds the new
\* one (applyUpsertBatch).
LEMMA UpsertKeepsIndex ==
  ASSUME StoreConstants, TypeOK, IndexExact, NEW S \in SUBSET Calls, NEW recs \in [S -> Incoming], Upsert(recs)
  PROVE  records' \in [Calls -> Recs \cup {NoRecord}] /\ index' = KeysIn(records')
  <1>1. records \in [Calls -> Recs \cup {NoRecord}] /\ NoRecord \notin Recs /\ DOMAIN recs = S
    BY DEF TypeOK, StoreConstants
  <1>2. records' = [c \in Calls |-> Merged(recs, c)]
    BY DEF Upsert
  <1>3. \A c \in S : records'[c] = Merged(recs, c) /\ records'[c] \in Recs
    BY <1>2, MergedIsRecord
  <1>4. \A c \in Calls \ S : records'[c] = records[c]
    BY <1>1, <1>2 DEF Merged
  <1>5. records' \in [Calls -> Recs \cup {NoRecord}]
    BY <1>1, <1>2, <1>3, <1>4
  <1>6. index = KeysIn(records)
    BY SameSets DEF IndexExact
  <1>7. ASSUME NEW k \in index' PROVE k \in KeysIn(records')
    <2>1. CASE k \in NewKeys(recs)
      <3>1. PICK c \in S : k = [updated |-> Merged(recs, c).updated, call |-> c]
        BY <1>1, <2>1 DEF NewKeys
      <3> QED BY <1>1, <1>3, <3>1 DEF KeysIn, CallsIn
    <2>2. CASE k \in index /\ k \notin StaleKeys(recs)
      <3>1. PICK c \in CallsIn(records) : k = [updated |-> records[c].updated, call |-> c]
        BY <1>6, <2>2 DEF KeysIn
      <3>2. CASE c \in S
        <4>1. records[c] # NoRecord /\ c \in DOMAIN recs /\ k = KeyOf(c)
          BY <1>1, <3>1, <3>2 DEF CallsIn, KeyOf
        <4>2. Merged(recs, c).updated = records[c].updated
          BY <2>2, <4>1 DEF StaleKeys
        <4> QED BY <1>1, <1>3, <3>1, <3>2, <4>2, SMTT(30) DEF KeysIn, CallsIn
      <3>3. CASE c \notin S
        BY <1>4, <3>1, <3>3 DEF KeysIn, CallsIn
      <3> QED BY <3>2, <3>3
    <2> QED BY <2>1, <2>2 DEF Upsert
  <1>8. ASSUME NEW k \in KeysIn(records') PROVE k \in index'
    <2>1. PICK c \in CallsIn(records') : k = [updated |-> records'[c].updated, call |-> c]
      BY DEF KeysIn
    <2>2. CASE c \in S
      <3>1. k \in NewKeys(recs)
        BY <1>1, <1>3, <2>1, <2>2 DEF NewKeys
      <3> QED BY <3>1 DEF Upsert
    <2>3. CASE c \notin S
      <3>1. k \in index
        BY <1>4, <1>6, <2>1, <2>3 DEF KeysIn, CallsIn
      <3>2. k \notin StaleKeys(recs)
        BY <1>1, <2>1, <2>3, Zenon DEF StaleKeys, KeyOf
      <3> QED BY <3>1, <3>2 DEF Upsert
    <2> QED BY <2>2, <2>3
  <1> QED BY <1>5, <1>7, <1>8, Zenon

\* It counts the calls it had not met before.
LEMMA UpsertKeepsCounts ==
  ASSUME StoreConstants, TypeOK, IndexExact, NEW S \in SUBSET Calls, NEW recs \in [S -> Incoming], Upsert(recs),
         count = Cardinality(CallsIn(records)), metaCount = Cardinality(CallsIn(records))
  PROVE  count' = Cardinality(CallsIn(records')) /\ metaCount' = Cardinality(CallsIn(records'))
  <1> DEFINE A == {c \in S : records[c] = NoRecord}
  <1>1. records \in [Calls -> Recs \cup {NoRecord}] /\ NoRecord \notin Recs /\ DOMAIN recs = S
    BY DEF TypeOK, StoreConstants
  <1>2. records' = [c \in Calls |-> Merged(recs, c)]
    BY DEF Upsert
  <1>3. \A c \in S : records'[c] \in Recs
    BY <1>2, MergedIsRecord
  <1>4. \A c \in Calls \ S : records'[c] = records[c]
    BY <1>1, <1>2 DEF Merged
  <1>5. CallsIn(records') = CallsIn(records) \cup A /\ CallsIn(records) \cap A = {}
    BY <1>1, <1>3, <1>4 DEF CallsIn
  <1>6. IsFiniteSet(A) /\ Cardinality(A) \in Nat
    BY FS_Subset, FS_CardinalityType DEF StoreConstants
  <1>7. Cardinality(CallsIn(records')) = Cardinality(CallsIn(records)) + Cardinality(A)
    <2> HIDE DEF A
    <2>1. /\ IsFiniteSet(CallsIn(records)) /\ Cardinality(CallsIn(records)) \in Nat
          /\ Cardinality(CallsIn(records) \cap A) = 0
      BY <1>5, CallsAreFinite, FS_EmptySet, ZenonT(20)
    <2>2. Cardinality(CallsIn(records) \cup A)
            = Cardinality(CallsIn(records)) + Cardinality(A) - Cardinality(CallsIn(records) \cap A)
      BY <1>6, <2>1, FS_Union, Zenon
    <2> QED BY <1>5, <1>6, <2>1, <2>2
  <1>8. IF Cardinality(A) = 0 THEN UNCHANGED <<metaCount, count>>
        ELSE metaCount' = count + Cardinality(A) /\ count' = count + Cardinality(A)
    BY <1>1 DEF Upsert
  <1> QED BY <1>6, <1>7, <1>8, CallsAreFinite

\* A batch of a purge deletes as many records as keys, and what remains is indexed.
LEMMA PurgedBatch ==
  ASSUME StoreConstants, TypeOK, IndexExact, NEW S \in SUBSET index, index' = index \ S,
         records' = [c \in Calls |-> IF \E k \in S : k.call = c THEN NoRecord ELSE records[c]]
  PROVE  /\ records' \in [Calls -> Recs \cup {NoRecord}] /\ index' = KeysIn(records')
         /\ Cardinality(S) \in Nat
         /\ Cardinality(CallsIn(records')) = Cardinality(CallsIn(records)) - Cardinality(S)
  <1> DEFINE C == {k.call : k \in S}
  <1>1. records \in [Calls -> Recs \cup {NoRecord}] /\ NoRecord \notin Recs /\ index = KeysIn(records)
    BY SameSets DEF TypeOK, StoreConstants, IndexExact
  <1>2. \A k \in S : k.call \in CallsIn(records) /\ k = [updated |-> records[k.call].updated, call |-> k.call]
    BY <1>1 DEF KeysIn
  <1>3. records' \in [Calls -> Recs \cup {NoRecord}]
    BY <1>1
  <1>4. CallsIn(records') = CallsIn(records) \ C /\ C \subseteq CallsIn(records)
    BY <1>1, <1>2 DEF CallsIn
  <1>5. \A c \in CallsIn(records') : records'[c] = records[c]
    BY <1>1 DEF CallsIn
  <1>6. ASSUME NEW k \in index \ S PROVE k \in KeysIn(records')
    <2>1. PICK c \in CallsIn(records) : k = [updated |-> records[c].updated, call |-> c]
      BY <1>1 DEF KeysIn
    <2>2. c \notin C
      BY <1>2, <2>1
    <2>3. c \in CallsIn(records') /\ records'[c] = records[c]
      BY <1>4, <1>5, <2>1, <2>2, Zenon
    <2> QED BY <2>1, <2>3, ZenonT(30) DEF KeysIn
  <1>7. ASSUME NEW k \in KeysIn(records') PROVE k \in index \ S
    <2>1. PICK c \in CallsIn(records) : c \notin C /\ k = [updated |-> records[c].updated, call |-> c]
      BY <1>4, <1>5 DEF KeysIn
    <2>2. k.call = c
      BY <2>1
    <2> QED BY <1>1, <2>1, <2>2 DEF KeysIn
  <1>8. IsFiniteSet(C) /\ Cardinality(C) \in Nat /\ IsFiniteSet(CallsIn(records)) /\ Cardinality(CallsIn(records)) \in Nat
    BY <1>4, CallsAreFinite, FS_Subset, FS_CardinalityType
  <1>9. Cardinality(CallsIn(records')) = Cardinality(CallsIn(records)) - Cardinality(C)
    <2>1. CallsIn(records) \cap C = C
      BY <1>4
    <2> QED BY <1>4, <1>8, <2>1, FS_Difference, ZenonT(30)
  <1>10. ExistsBijection(C, S)
    <2> DEFINE f == [c \in C |-> [updated |-> records[c].updated, call |-> c]]
    <2>1. f \in [C -> S]
      BY <1>2
    <2>2. \A a, b \in C : f[a] = f[b] => a = b
      OBVIOUS
    <2>3. \A k \in S : \E c \in C : f[c] = k
      BY <1>2
    <2>4. f \in Bijection(C, S)
      BY <2>1, <2>2, <2>3, Zenon DEF Bijection, Injection, Surjection, IsInjective
    <2> QED BY <2>4 DEF ExistsBijection
  <1>11. Cardinality(S) = Cardinality(C)
    BY <1>8, <1>10, FS_Bijection
  <1> QED BY <1>3, <1>6, <1>7, <1>8, <1>9, <1>11

\* An idle writer is at no job.
LEMMA NoJobIsJob == NoJob \in Jobs /\ NoJob.kind = "none"
  BY DEF Jobs, NoJob

\* An empty directory is a consistent store.
LEMMA StoreInit == ASSUME StoreConstants, Init PROVE StoreInv
  <1>1. Stored = {}
    BY DEF Init, Stored
  <1>2. TypeOK
    <2>1. running \in BOOLEAN /\ miscounted \in BOOLEAN
      BY Zenon DEF Init
    <2>2. records \in [Calls -> Recs \cup {NoRecord}] /\ queue \in Seq(Requests)
      BY DEF Init
    <2> QED BY <2>1, <2>2, NoJobIsJob DEF Init, TypeOK, Missing
  <1>3. IndexExact
    BY <1>1 DEF Init, IndexExact
  <1>4. LeftIsThere /\ CountsAgree
    BY DEF Init, LeftIsThere, CountsAgree, NoJob
  <1> QED BY <1>2, <1>3, <1>4 DEF StoreInv

\* The three kinds of work the writer can be at
LEMMA JobKinds ==
  ASSUME NEW j \in Jobs
  PROVE  \/ j = NoJob /\ j.kind = "none"
         \/ j.kind = "clear" /\ j \in [kind : {"clear"}, left : SUBSET Calls]
         \/ j.kind = "purge" /\ j \in [kind : {"purge"}, left : SUBSET Keys, count : Int]
  BY DEF Jobs, NoJob

\* Steps that leave the disk alone: what is left to prove is about the memory.
LEMMA DiskKept ==
  ASSUME StoreInv, UNCHANGED <<records, index, metaCount>>, TypeOK', LeftIsThere',
         ~miscounted' => /\ ~miscounted
                         /\ running' => /\ metaCount # Missing
                                        /\ job'.kind # "purge" => count' = Cardinality(Stored)
                                        /\ job'.kind = "purge" => job'.count = Cardinality(Stored)
  PROVE  StoreInv'
  <1>1. Stored' = Stored /\ (IndexExact <=> IndexExact')
    BY DEF Stored, IndexExact, KeyOf
  <1>2. ~miscounted' => CountsAgree'
    BY <1>1 DEF StoreInv, CountsAgree, Missing
  <1> QED BY <1>1, <1>2 DEF StoreInv

\* Time, requests that are queued and closeWriter leave disk and job alone.
LEMMA QuietSteps ==
  ASSUME StoreConstants, StoreInv,
         Tick \/ closeWriter \/ UpsertBatch \/ ClearKnownFlags \/ PurgeOlderThan \/ UNCHANGED vars
  PROVE  StoreInv'
  <1>1. UNCHANGED <<records, index, metaCount, count, job, running, miscounted>>
    BY Zenon DEF Tick, closeWriter, UpsertBatch, ClearKnownFlags, PurgeOlderThan, enqueue, disk, vars
  <1>2. now' \in Nat
    <2>1. now \in Nat
      BY DEF StoreInv, TypeOK
    <2>2. now' = now + 1 \/ now' = now
      BY Zenon DEF Tick, closeWriter, UpsertBatch, ClearKnownFlags, PurgeOlderThan, enqueue, bounds, vars
    <2> QED BY <2>1, <2>2
  <1>3. queue' \in Seq(Requests)
    <2>1. queue \in Seq(Requests) /\ now \in Nat
      BY DEF StoreInv, TypeOK
    <2>2. CASE Tick \/ closeWriter \/ UNCHANGED vars
      BY <2>1, <2>2 DEF Tick, closeWriter, vars
    <2>3. CASE UpsertBatch
      <3>1. PICK S \in SUBSET Calls : \E recs \in [S -> Incoming] : enqueue([kind |-> "upsert", recs |-> recs])
        BY <2>3 DEF UpsertBatch
      <3>2. PICK recs \in [S -> Incoming] : enqueue([kind |-> "upsert", recs |-> recs])
        BY <3>1
      <3>3. [kind |-> "upsert", recs |-> recs] \in Requests
        BY DEF Requests, Upserts
      <3> QED BY <2>1, <3>2, <3>3 DEF enqueue
    <2>4. CASE ClearKnownFlags
      BY <2>1, <2>4 DEF ClearKnownFlags, enqueue, Requests
    <2>5. CASE PurgeOlderThan
      <3>1. PICK cutoff \in 1 .. now : enqueue([kind |-> "purge", cutoff |-> cutoff])
        BY <2>5 DEF PurgeOlderThan
      <3>2. [kind |-> "purge", cutoff |-> cutoff] \in Requests
        BY <2>1 DEF Requests
      <3> QED BY <2>1, <3>1, <3>2 DEF enqueue
    <2> QED BY <2>2, <2>3, <2>4, <2>5
  <1>4. TypeOK'
    BY <1>1, <1>2, <1>3 DEF StoreInv, TypeOK
  <1>5. LeftIsThere' /\ Stored' = Stored
    BY <1>1 DEF StoreInv, LeftIsThere, Stored
  <1> QED BY <1>1, <1>4, <1>5, DiskKept DEF StoreInv, CountsAgree

\* Open takes the number from disk, or counts the records and writes it.
LEMMA OpenKeeps == ASSUME StoreConstants, StoreInv, Open PROVE StoreInv'
  <1>1. /\ records' = records /\ index' = index /\ miscounted' = miscounted /\ now' = now
        /\ job' = NoJob /\ queue' = <<>> /\ running' = TRUE
        /\ count' = loadCount /\ metaCount' = loadCount
    BY DEF Open, bounds
  <1>2. Stored' = Stored /\ (IndexExact <=> IndexExact') /\ Stored = CallsIn(records)
    BY <1>1 DEF Stored, IndexExact, KeyOf, CallsIn
  <1>3. Cardinality(Stored) \in Nat
    BY <1>2, CallsAreFinite
  <1>5. TypeOK'
    BY <1>1, <1>3 DEF StoreInv, TypeOK, Jobs, loadCount
  <1>6. LeftIsThere' /\ NoJob.kind = "none"
    BY <1>1 DEF LeftIsThere, NoJob
  <1>7. ~miscounted => loadCount = Cardinality(Stored)
    BY DEF StoreInv, CountsAgree, loadCount
  <1>8. ~miscounted' => CountsAgree'
    BY <1>1, <1>2, <1>3, <1>6, <1>7 DEF CountsAgree, Missing
  <1> QED BY <1>2, <1>5, <1>6, <1>8 DEF StoreInv

\* A crash and Close: the job is gone or there is none.
LEMMA ClosingKeeps == ASSUME StoreConstants, StoreInv, Crash \/ Close PROVE StoreInv'
  <1>1. UNCHANGED <<records, index, metaCount, count, miscounted, now>> /\ job' = NoJob /\ running' = FALSE
        /\ queue' = <<>>
    BY DEF Crash, Close, disk, bounds
  <1>2. TypeOK'
    <2>1. running' \in BOOLEAN
      BY <1>1, Zenon
    <2>2. queue' \in Seq(Requests) /\ job' \in Jobs
      BY <1>1, NoJobIsJob
    <2> QED BY <1>1, <2>1, <2>2 DEF StoreInv, TypeOK
  <1>3. LeftIsThere'
    BY <1>1, NoJobIsJob DEF LeftIsThere
  <1> QED BY <1>1, <1>2, <1>3, DiskKept

\* A commit that fails leaves the disk as it was; only a purge between its batches leaves the
\* memory with another number than the disk.
LEMMA FailureKeeps == ASSUME StoreConstants, StoreInv, CommitFails PROVE StoreInv'
  <1>1. UNCHANGED <<records, index, metaCount, count, running, now>> /\ running
    BY DEF CommitFails, disk
  <1>2. queue \in Seq(Requests) /\ job \in Jobs /\ miscounted \in BOOLEAN
    BY DEF StoreInv, TypeOK
  <1>3. CASE job' = NoJob /\ queue' = queue /\ miscounted' = (miscounted \/ (job.kind = "purge" /\ job.count # count))
    <2>1. miscounted' \in BOOLEAN
      BY <1>3
    <2>2. TypeOK' /\ LeftIsThere' /\ job'.kind = "none"
      BY <1>1, <1>2, <1>3, <2>1 DEF StoreInv, TypeOK, LeftIsThere, NoJob, Jobs
    <2>3. ~miscounted' => ~miscounted /\ metaCount # Missing /\ count' = Cardinality(Stored)
      BY <1>1, <1>3, Zenon DEF StoreInv, CountsAgree
    <2> QED BY <1>1, <2>2, <2>3, DiskKept
  <1>4. CASE UNCHANGED <<job, miscounted>> /\ queue # <<>> /\ queue' = Tail(queue)
    <2>1. queue' \in Seq(Requests)
      BY <1>2, <1>4
    <2>2. TypeOK' /\ LeftIsThere' /\ Stored' = Stored
      BY <1>1, <1>4, <2>1 DEF StoreInv, TypeOK, LeftIsThere, Stored
    <2> QED BY <1>1, <1>4, <2>2, DiskKept DEF StoreInv, CountsAgree
  <1> QED BY <1>3, <1>4 DEF CommitFails

\* The writer takes a request: an upsert is committed at once, maintenance becomes a job.
LEMMA TakeKeeps == ASSUME StoreConstants, StoreInv, Take PROVE StoreInv'
  <1> DEFINE req == Head(queue)
  <1>1. /\ queue \in Seq(Requests) /\ queue # <<>> /\ job = NoJob /\ running
        /\ queue' = Tail(queue) /\ UNCHANGED <<running, now, miscounted>>
    BY DEF Take, StoreInv, TypeOK, bounds
  <1>2. req \in Requests /\ queue' \in Seq(Requests)
    BY <1>1
  <1>3. job.kind = "none" /\ Stored = CallsIn(records)
    BY <1>1, NoJobIsJob, SameSets
  <1>4. ~miscounted => metaCount = Cardinality(Stored) /\ count = Cardinality(Stored) /\ metaCount # Missing
    BY <1>1, <1>3 DEF StoreInv, CountsAgree
  <1>5. CASE req.kind = "upsert" /\ Upsert(req.recs) /\ job' = NoJob
    <2>1. PICK S \in SUBSET Calls : req.recs \in [S -> Incoming]
      <3>1. req \in Upserts
        BY <1>2, <1>5 DEF Requests
      <3>2. PICK r \in UNION {[S -> Incoming] : S \in SUBSET Calls} : req = [kind |-> "upsert", recs |-> r]
        BY <3>1, Zenon DEF Upserts
      <3>3. req.recs = r
        BY <3>2
      <3> QED BY <3>3, Zenon
    <2>2. records' \in [Calls -> Recs \cup {NoRecord}] /\ index' = KeysIn(records')
      BY <1>5, <2>1, UpsertKeepsIndex DEF StoreInv
    <2>3. IndexExact' /\ Stored' = CallsIn(records')
      BY <2>2 DEF IndexExact, KeysIn, CallsIn, Stored, KeyOf
    <2>4. count' \in Int /\ metaCount' \in Int
      <3>1. Cardinality({c \in S : records[c] = NoRecord}) \in Nat
        BY FS_Subset, FS_CardinalityType DEF StoreConstants
      <3>2. DOMAIN req.recs = S /\ count \in Int /\ metaCount \in Int
        BY <2>1 DEF StoreInv, TypeOK
      <3> QED BY <1>5, <3>1, <3>2 DEF Upsert
    <2>5. TypeOK' /\ LeftIsThere'
      BY <1>1, <1>2, <1>5, <2>2, <2>4, NoJobIsJob DEF StoreInv, TypeOK, LeftIsThere
    <2>6. ~miscounted' => CountsAgree'
      <3> SUFFICES ASSUME ~miscounted PROVE CountsAgree'
        BY <1>1
      <3>1. count' = Cardinality(Stored') /\ metaCount' = Cardinality(Stored')
        BY <1>3, <1>4, <1>5, <2>1, <2>3, UpsertKeepsCounts DEF StoreInv
      <3>2. Cardinality(Stored') \in Nat
        BY <2>3, CallsAreFinite
      <3> QED BY <1>5, <3>1, <3>2, NoJobIsJob DEF CountsAgree, Missing
    <2> QED BY <2>3, <2>5, <2>6 DEF StoreInv
  <1>6. CASE UNCHANGED <<records, index, metaCount, count>>
             /\ job' = [kind |-> "clear", left |-> {c \in Stored : records[c].known}]
    <2>1. job' \in Jobs /\ job'.kind = "clear" /\ job'.left \subseteq Stored
      BY <1>6 DEF Jobs, Stored
    <2>2. TypeOK' /\ LeftIsThere'
      BY <1>1, <1>2, <1>6, <2>1 DEF StoreInv, TypeOK, LeftIsThere, Stored
    <2> QED BY <1>1, <1>4, <1>6, <2>1, <2>2, DiskKept, SMTT(30)
  <1>7. CASE UNCHANGED <<records, index, metaCount, count>>
             /\ job' = [kind |-> "purge", left |-> {k \in index : k.updated <= req.cutoff}, count |-> count]
    <2>1. job'.kind = "purge" /\ job'.left \subseteq index /\ job'.count = count
      BY <1>7
    <2>2. index \subseteq Keys /\ count \in Int
      <3>1. index = KeysIn(records) /\ records \in [Calls -> Recs \cup {NoRecord}] /\ count \in Int
        BY SameSets DEF StoreInv, IndexExact, TypeOK
      <3> QED BY <3>1 DEF KeysIn, CallsIn, Keys, Recs
    <2>3. job' \in Jobs
      BY <1>7, <2>2 DEF Jobs
    <2>4. TypeOK' /\ LeftIsThere'
      BY <1>1, <1>2, <1>7, <2>1, <2>3 DEF StoreInv, TypeOK, LeftIsThere
    <2> QED BY <1>1, <1>4, <1>7, <2>1, <2>4, DiskKept
  <1> QED BY <1>5, <1>6, <1>7, SMTT(30) DEF Take, disk

\* A cleared flag changes neither the calls nor the times.
LEMMA ClearKeeps == ASSUME StoreConstants, StoreInv, CommitClear PROVE StoreInv'
  <1>1. PICK S \in Batches(job.left) :
          /\ records' = [c \in Calls |-> IF c \in S THEN [records[c] EXCEPT !.known = FALSE] ELSE records[c]]
          /\ job' = IF S = job.left THEN NoJob ELSE [job EXCEPT !.left = @ \ S]
    BY Zenon DEF CommitClear
  <1>2. /\ UNCHANGED <<index, metaCount, count, queue, running, now, miscounted>> /\ job.kind = "clear" /\ running
    BY DEF CommitClear, bounds
  <1>3. job \in [kind : {"clear"}, left : SUBSET Calls] /\ job.left \subseteq Stored /\ S \subseteq job.left
    BY <1>2, JobKinds DEF StoreInv, TypeOK, LeftIsThere, Batches
  <1>4. records \in [Calls -> Recs \cup {NoRecord}] /\ \A c \in S : records[c] \in Recs
    BY <1>3 DEF StoreInv, TypeOK, Stored
  <1>5. ASSUME NEW c \in S
        PROVE  [records[c] EXCEPT !.known = FALSE] \in Recs
               /\ [records[c] EXCEPT !.known = FALSE].updated = records[c].updated
    BY <1>4, <1>5, Zenon DEF Recs
  <1>6. /\ records' \in [Calls -> Recs \cup {NoRecord}]
        /\ \A c \in Calls : records'[c] = NoRecord <=> records[c] = NoRecord
        /\ \A c \in Calls : records'[c].updated = records[c].updated
    BY <1>1, <1>4, <1>5 DEF StoreConstants
  <1>7. Stored' = Stored /\ IndexExact'
    BY <1>2, <1>6 DEF StoreInv, Stored, IndexExact, KeyOf
  <1>8. job' \in Jobs /\ job'.kind # "purge" /\ (job'.kind = "clear" => job'.left \subseteq Stored)
    <2>1. CASE job' = NoJob
      BY <2>1, NoJobIsJob
    <2>2. CASE job' = [job EXCEPT !.left = @ \ S]
      BY <1>3, <2>2 DEF Jobs
    <2> QED BY <1>1, <2>1, <2>2
  <1>9. TypeOK' /\ LeftIsThere'
    BY <1>2, <1>6, <1>7, <1>8 DEF StoreInv, TypeOK, LeftIsThere
  <1>10. ~miscounted' => CountsAgree'
    BY <1>2, <1>7, <1>8 DEF StoreInv, CountsAgree, Missing
  <1> QED BY <1>7, <1>9, <1>10 DEF StoreInv

\* A batch of a purge deletes keys, their records and their number together.
LEMMA PurgeKeeps == ASSUME StoreConstants, StoreInv, CommitPurge PROVE StoreInv'
  <1>1. PICK S \in Batches(job.left) :
          /\ index' = index \ S
          /\ records' = [c \in Calls |-> IF \E k \in S : k.call = c THEN NoRecord ELSE records[c]]
          /\ metaCount' = IF S = {} THEN metaCount ELSE job.count - Cardinality(S)
          /\ IF S = job.left THEN job' = NoJob /\ count' = job.count - Cardinality(S)
             ELSE job' = [job EXCEPT !.left = @ \ S, !.count = @ - Cardinality(S)] /\ UNCHANGED count
    BY Zenon DEF CommitPurge
  <1>2. /\ UNCHANGED <<queue, running, now, miscounted>> /\ job.kind = "purge" /\ running
    BY DEF CommitPurge, bounds
  <1>3. /\ job \in [kind : {"purge"}, left : SUBSET Keys, count : Int]
        /\ job.left \subseteq index /\ S \subseteq job.left
    BY <1>2, JobKinds DEF StoreInv, TypeOK, LeftIsThere, Batches
  <1>4. /\ records' \in [Calls -> Recs \cup {NoRecord}] /\ index' = KeysIn(records')
        /\ Cardinality(S) \in Nat
        /\ Cardinality(CallsIn(records')) = Cardinality(CallsIn(records)) - Cardinality(S)
    BY <1>1, <1>3, PurgedBatch, ZenonT(20) DEF StoreInv
  <1>5. Stored = CallsIn(records) /\ Stored' = CallsIn(records') /\ IndexExact'
    BY <1>4 DEF Stored, CallsIn, IndexExact, KeysIn, KeyOf
  <1>6. CASE S = job.left
    <2>1. job' = NoJob /\ count' = job.count - Cardinality(S)
      BY <1>1, <1>6
    <2>2. count' \in Int /\ metaCount' \in Int
      BY <1>1, <1>3, <1>4, <2>1, SMTT(30) DEF StoreInv, TypeOK
    <2>3. TypeOK' /\ LeftIsThere' /\ job'.kind = "none"
      BY <1>2, <1>4, <2>1, <2>2, NoJobIsJob DEF StoreInv, TypeOK, LeftIsThere
    <2>4. ~miscounted' => CountsAgree'
      <3> SUFFICES ASSUME ~miscounted PROVE CountsAgree'
        BY <1>2
      <3>1. job.count = Cardinality(Stored) /\ metaCount = Cardinality(Stored) /\ Cardinality(Stored) \in Nat
        BY <1>2, <1>5, CallsAreFinite DEF StoreInv, CountsAgree
      <3>2. S = {} => Cardinality(S) = 0
        BY FS_EmptySet
      <3>3. count' = Cardinality(Stored') /\ metaCount' = Cardinality(Stored')
        BY <1>1, <1>4, <1>5, <2>1, <3>1, <3>2
      <3>4. Cardinality(Stored') \in Nat
        BY <1>5, CallsAreFinite
      <3> QED BY <2>3, <3>3, <3>4 DEF CountsAgree, Missing
    <2> QED BY <1>5, <2>3, <2>4 DEF StoreInv
  <1>7. CASE S # job.left
    <2>1. job' = [job EXCEPT !.left = @ \ S, !.count = @ - Cardinality(S)] /\ count' = count
      BY <1>1, <1>7, SMTT(30)
    <2>2. /\ job' \in [kind : {"purge"}, left : SUBSET Keys, count : Int]
          /\ job'.kind = "purge" /\ job'.left = job.left \ S /\ job'.count = job.count - Cardinality(S)
      <3>1. job' = [kind |-> "purge", left |-> job.left \ S, count |-> job.count - Cardinality(S)]
        <4>1. job = [kind |-> "purge", left |-> job.left, count |-> job.count]
          BY <1>3
        <4> DEFINE left == job.left
                   c == job.count
                   n == Cardinality(S)
        <4>2. job' = [[kind |-> "purge", left |-> left, count |-> c] EXCEPT !.left = @ \ S, !.count = @ - n]
          BY <2>1, <4>1, Zenon
        <4> HIDE DEF left, c, n
        <4>3. job' = [kind |-> "purge", left |-> left \ S, count |-> c - n]
          BY <4>2, Zenon
        <4> QED BY <4>3 DEF left, c, n
      <3>2. job.left \ S \in SUBSET Keys /\ job.count - Cardinality(S) \in Int
        BY <1>3, <1>4
      <3> QED BY <3>1, <3>2
    <2>3. count' \in Int /\ metaCount' \in Int /\ job' \in Jobs
      BY <1>1, <1>3, <1>4, <2>1, <2>2 DEF StoreInv, TypeOK, Jobs
    <2>4. job'.left \subseteq index'
      BY <1>1, <1>3, <2>2
    <2>5. TypeOK' /\ LeftIsThere'
      BY <1>2, <1>4, <2>2, <2>3, <2>4 DEF StoreInv, TypeOK, LeftIsThere
    <2>6. ~miscounted' => CountsAgree'
      <3> SUFFICES ASSUME ~miscounted PROVE CountsAgree'
        BY <1>2
      <3>1. job.count = Cardinality(Stored) /\ metaCount = Cardinality(Stored) /\ Cardinality(Stored) \in Nat
        BY <1>2, <1>5, CallsAreFinite DEF StoreInv, CountsAgree
      <3>2. S = {} => Cardinality(S) = 0
        BY FS_EmptySet
      <3>3. job'.count = Cardinality(Stored') /\ metaCount' = Cardinality(Stored')
        BY <1>1, <1>4, <1>5, <2>2, <3>1, <3>2
      <3>4. Cardinality(Stored') \in Nat
        BY <1>5, CallsAreFinite
      <3> QED BY <2>2, <3>3, <3>4, SMTT(30) DEF CountsAgree, Missing
    <2> QED BY <1>5, <2>5, <2>6 DEF StoreInv
  <1> QED BY <1>6, <1>7, SMTT(30)

\* The inductive invariant holds in every reachable state, over crashes and failed commits
\* between any two batches, for any calls, records, batch size and queue (gridstore/store.go).
THEOREM StoreInvariant == ASSUME StoreConstants PROVE Spec => []StoreInv
  <1>1. Init => StoreInv
    BY StoreInit
  <1>2. StoreInv /\ [Next]_vars => StoreInv'
    BY QuietSteps, OpenKeeps, ClosingKeeps, FailureKeeps, TakeKeeps, ClearKeeps, PurgeKeeps DEF Next
  <1> QED BY <1>1, <1>2, PTL DEF Spec

\* The index is exact, and the number on disk is too until a purge fails half way
\* (applyUpsertBatch, applyPurgeOlderThan, Open).
THEOREM StoreConsistent == ASSUME StoreConstants PROVE Spec => []StoreIsConsistent
  <1>1. StoreInv => StoreIsConsistent
    BY DEF StoreInv, CountsAgree, StoreIsConsistent, CountExact
  <1> QED BY <1>1, StoreInvariant, PTL

-----------------------------------------------------------------------------
(* The grid of one callsign *)
CONSTANTS Actual, Derived, Origin, AsyncWorker, SyncWorkers, UpdatesCap, SyncCap, PurgeTTL,
  LastTime, MayStop, NoGridRecord, GridTTL, NoGrid, NoCty, BadCty

VARIABLES clock, cached, entry, updates, open, writing, pending, store, lookupPending, lookupQueue,
  syncQueue, pc, found, panicked

Grid == INSTANCE GridWriter WITH MaxTime <- LastTime, NoRecord <- NoGridRecord, now <- clock

\* An entry of the cache has these fields.
EntryFields(e) == e = [grid |-> e.grid, derived |-> e.derived, at |-> e.at, cty |-> e.cty]

\* The inductive invariant: at most one request of the callsign is under way, and then it is
\* marked; entries keep their fields.
GridInv ==
  /\ lookupPending \in BOOLEAN /\ lookupQueue \in {0, 1}
  /\ pc \in [Grid!Workers -> {"idle", "derive", "apply"}]
  /\ lookupPending <=> (lookupQueue = 1 \/ pc[AsyncWorker] # "idle")
  /\ ~(lookupQueue = 1 /\ pc[AsyncWorker] # "idle")
  /\ EntryFields(entry)

\* The entry holds an actual grid.
Held(e) == e.grid # NoGrid /\ ~e.derived

\* What ActualGridKept demands of a step
Kept ==
  /\ (cached /\ cached' /\ entry.grid # NoGrid /\ ~entry.derived /\ ~Grid!Expired(entry, clock))
           => (entry'.grid # NoGrid /\ ~entry'.derived)
  /\ (store # NoGridRecord /\ store' # NoGridRecord /\ store.grid # NoGrid /\ ~store.derived)
           => ~store'.derived

\* What an operation of the cache does to an entry that holds an actual grid
Keeps(e, f, time) == EntryFields(f) /\ (Held(e) /\ ~Grid!Expired(e, time) => Held(f))

\* Setting the CTY information keeps the grid (LookupCTY).
LEMMA CtyKeeps == ASSUME NEW e, EntryFields(e), NEW c, NEW t PROVE Keeps(e, [e EXCEPT !.cty = c], t)
  <1> DEFINE f == [e EXCEPT !.cty = c]
  <1>1. f = [grid |-> e.grid, derived |-> e.derived, at |-> e.at, cty |-> c]
    BY DEF EntryFields
  <1> HIDE DEF f
  <1>2. f.grid = e.grid /\ f.derived = e.derived /\ f.at = e.at /\ f.cty = c
    BY <1>1
  <1>3. Keeps(e, f, t)
    BY <1>1, <1>2, Zenon DEF Keeps, EntryFields, Held
  <1> QED BY <1>3 DEF f

\* Setting a grid that is not derived when there is an actual one (UpdateGrid)
LEMMA GridKeeps ==
  ASSUME NEW e, EntryFields(e), NEW g, g # NoGrid, NEW d, NEW a, NEW t, Held(e) => ~d
  PROVE  Keeps(e, Grid!WithGrid(e, g, d, a), t)
  <1> DEFINE f == [e EXCEPT !.grid = g, !.derived = d, !.at = a]
  <1>0. f = [e EXCEPT !.grid = g, !.derived = d, !.at = a]
    OBVIOUS
  <1> HIDE DEF f
  <1>1. f = [grid |-> g, derived |-> d, at |-> a, cty |-> e.cty]
    BY <1>0, Zenon DEF EntryFields
  <1>2. f.grid = g /\ f.derived = d /\ f.at = a /\ f.cty = e.cty
    BY <1>1
  <1>3. Keeps(e, f, t)
    BY <1>1, <1>2, Zenon DEF Keeps, EntryFields, Held
  <1> QED BY <1>3 DEF f, Grid!WithGrid

\* A lookup takes away only what has expired (LookupGrid).
LEMMA LookupKeeps == ASSUME NEW e, EntryFields(e), NEW t PROVE Keeps(e, Grid!LookedUp(e, t), t)
  <1>1. CASE e.grid # NoGrid /\ Grid!Expired(e, t)
    <2> DEFINE f == [e EXCEPT !.grid = NoGrid, !.derived = FALSE]
    <2>0. f = [e EXCEPT !.grid = NoGrid, !.derived = FALSE]
      OBVIOUS
    <2> HIDE DEF f
    <2>1. f = [grid |-> NoGrid, derived |-> FALSE, at |-> e.at, cty |-> e.cty]
      BY <2>0, Zenon DEF EntryFields
    <2>2. f.grid = NoGrid /\ f.derived = FALSE /\ f.at = e.at /\ f.cty = e.cty
      BY <2>1
    <2>3. EntryFields(f)
      BY <2>1, <2>2, Zenon DEF EntryFields
    <2>4. Grid!LookedUp(e, t) = f
      BY <1>1, Zenon DEF Grid!LookedUp, f
    <2> QED BY <1>1, <2>3, <2>4, Zenon DEF Keeps
  <1>2. CASE ~(e.grid # NoGrid /\ Grid!Expired(e, t))
    BY <1>2, Zenon DEF Grid!LookedUp, Keeps
  <1> QED BY <1>1, <1>2

\* A stored record does not replace an actual grid by a derived one (ApplyRecord).
LEMMA ApplyKeeps == ASSUME NEW e, EntryFields(e), NEW rec, NEW t PROVE Keeps(e, Grid!Applied(e, rec), t)
  <1> DEFINE f == IF Grid!TakesRecord(e, rec) THEN Grid!WithGrid(e, rec.grid, rec.derived, rec.at) ELSE e
  <1>1. Keeps(e, f, t)
    <2>1. CASE Grid!TakesRecord(e, rec)
      <3>1. rec.grid # NoGrid /\ (Held(e) => ~rec.derived)
        BY <2>1, Zenon DEF Grid!TakesRecord, Held
      <3> QED BY <2>1, <3>1, GridKeeps, Zenon
    <2>2. CASE ~Grid!TakesRecord(e, rec)
      BY <2>2, Zenon DEF Keeps
    <2> QED BY <2>1, <2>2
  <1> HIDE DEF f
  <1>2. Keeps(f, [f EXCEPT !.cty = rec.cty], t)
    BY <1>1, CtyKeeps DEF Keeps
  <1>3. Grid!Applied(e, rec) = f \/ Grid!Applied(e, rec) = [f EXCEPT !.cty = rec.cty]
    BY Zenon DEF Grid!Applied, f
  <1>4. EntryFields([f EXCEPT !.cty = rec.cty]) /\ (Held(f) => Held([f EXCEPT !.cty = rec.cty]))
    <2> DEFINE h == [f EXCEPT !.cty = rec.cty]
    <2>1. h = [grid |-> f.grid, derived |-> f.derived, at |-> f.at, cty |-> rec.cty]
      BY <1>1 DEF EntryFields, Keeps
    <2> HIDE DEF h
    <2>2. h.grid = f.grid /\ h.derived = f.derived /\ h.at = f.at /\ h.cty = rec.cty
      BY <2>1
    <2>3. EntryFields(h) /\ (Held(f) => Held(h))
      BY <2>1, <2>2, ZenonT(30) DEF EntryFields, Held
    <2> QED BY <2>3 DEF h
  <1> QED BY <1>1, <1>3, <1>4, Zenon DEF Keeps

\* mergeRecordValue
LEMMA MergeKeeps ==
  ASSUME NEW rec, rec # NoGridRecord, Held(rec), NEW in
  PROVE  ~Grid!mergeRecordValue(rec, in).derived
  <1> DEFINE keep == in.grid = NoGrid \/ (in.derived /\ rec.grid # NoGrid /\ ~rec.derived)
             d == IF keep THEN rec.derived ELSE in.derived
             m == [grid    |-> IF keep THEN rec.grid ELSE in.grid,
                   derived |-> d,
                   cty     |-> IF in.cty # NoCty THEN in.cty ELSE rec.cty,
                   at      |-> Grid!Newer(rec.at, in.at)]
  <1>1. Grid!mergeRecordValue(rec, in) = m
    BY Zenon DEF Grid!mergeRecordValue
  <1>2. ~d
    BY Zenon DEF Held
  <1> HIDE DEF keep, d
  <1>3. m.derived = d
    BY Zenon
  <1> QED BY <1>1, <1>2, <1>3, SMTT(30)

\* A step that changes the entry as above, and nothing else that matters
LEMMA EntrySteps ==
  ASSUME GridInv, Keeps(entry, entry', clock), UNCHANGED <<lookupPending, lookupQueue, pc, store>>
  PROVE  GridInv' /\ Kept
  BY Zenon DEF GridInv, Kept, Keeps, Held

\* A step of the writer or the store
LEMMA StoreSteps ==
  ASSUME GridInv, UNCHANGED <<lookupPending, lookupQueue, pc, entry>>,
         \/ store' = store \/ store' = NoGridRecord \/ store' = Grid!mergeRecordValue(store, pending)
  PROVE  GridInv' /\ Kept
  <1>1. GridInv'
    BY Zenon DEF GridInv
  <1>2. store # NoGridRecord /\ store' # NoGridRecord /\ Held(store) => ~store'.derived
    BY MergeKeeps, Zenon DEF Held
  <1> QED BY <1>1, <1>2, Zenon DEF Kept, Held

\* Every step of pipeline, workers and writer
LEMMA GridStep == ASSUME NoGrid \notin Grid!Grids, GridInv, [Grid!Next]_(Grid!vars) PROVE GridInv' /\ Kept
  <1> DEFINE steady == UNCHANGED <<lookupPending, lookupQueue, pc, store>>
  <1>0. EntryFields(entry) /\ AsyncWorker \in Grid!Workers
    BY DEF GridInv, Grid!Workers
  <1>1. ASSUME steady, entry' = entry PROVE GridInv' /\ Kept
    BY <1>1, Zenon DEF GridInv, Kept
  <1>2. CASE Grid!Ingest
    <2>1. steady /\ entry' = [entry EXCEPT !.cty = Grid!FromDatabase]
      BY <1>2, Zenon DEF Grid!Ingest, Grid!Put, Grid!disk, Grid!lookup
    <2>2. Keeps(entry, entry', clock)
      BY <1>0, <2>1, CtyKeeps, Zenon
    <2> QED BY <2>1, <2>2, EntrySteps, SMTT(30)
  <1>3. ASSUME NEW g \in Actual, Grid!GridUpdate(g) PROVE GridInv' /\ Kept
    <2>1. steady /\ (entry' = entry \/ entry' = Grid!WithGrid(entry, g, FALSE, clock)) /\ g # NoGrid
      BY <1>3, Zenon DEF Grid!GridUpdate, Grid!Put, Grid!cache, Grid!disk, Grid!lookup, Grid!Grids
    <2>2. CASE entry' = Grid!WithGrid(entry, g, FALSE, clock)
      <3>1. Keeps(entry, Grid!WithGrid(entry, g, FALSE, clock), clock)
        BY <1>0, <2>1, GridKeeps, Zenon
      <3> QED BY <2>1, <2>2, <3>1, EntrySteps
    <2> QED BY <1>1, <2>1, <2>2, Zenon
  <1>4. CASE Grid!Forget
    <2>1. steady /\ ~cached' /\ entry' = Grid!Blank
      BY <1>4, Zenon DEF Grid!Forget, Grid!disk, Grid!lookup
    <2>2. EntryFields(Grid!Blank)
      BY DEF Grid!Blank, EntryFields
    <2> QED BY <2>1, <2>2, Zenon DEF GridInv, Kept
  <1>5. CASE Grid!Lookup
    <2>1. /\ ~lookupPending /\ UNCHANGED <<pc, store>> /\ entry' = Grid!LookedUp(entry, clock)
          /\ \/ lookupPending' = TRUE /\ lookupQueue' = 1
             \/ UNCHANGED <<lookupPending, lookupQueue>>
      BY <1>5, Zenon DEF Grid!Lookup, Grid!disk
    <2>2. Keeps(entry, entry', clock)
      BY <1>0, <2>1, LookupKeeps, ZenonT(30)
    <2>3. CASE lookupPending' = TRUE /\ lookupQueue' = 1
      <3>1. pc[AsyncWorker] = "idle"
        BY <2>1 DEF GridInv
      <3> QED BY <2>1, <2>2, <2>3, <3>1, ZenonT(20) DEF GridInv, Kept, Keeps, Held
    <2>4. CASE UNCHANGED <<lookupPending, lookupQueue>>
      BY <2>1, <2>2, <2>4, EntrySteps, ZenonT(20)
    <2> QED BY <2>1, <2>3, <2>4, Zenon
  <1>6. CASE Grid!LookupSync \/ Grid!LookupAfterStop
    <2>1. steady /\ entry' = Grid!LookedUp(entry, clock)
      BY <1>6, Zenon DEF Grid!LookupSync, Grid!LookupAfterStop, Grid!disk, Grid!lookup
    <2>2. Keeps(entry, entry', clock)
      BY <1>0, <2>1, LookupKeeps, Zenon
    <2> QED BY <2>1, <2>2, EntrySteps, ZenonT(20)
  <1>7. ASSUME NEW w \in Grid!Workers, Grid!TakeRequest(w) PROVE GridInv' /\ Kept
    <2>1. /\ pc[w] = "idle" /\ UNCHANGED <<entry, store, lookupPending>>
          /\ \E p \in {"apply", "derive"} : pc' = [pc EXCEPT ![w] = p]
          /\ w = AsyncWorker => lookupQueue > 0 /\ lookupQueue' = lookupQueue - 1
          /\ w # AsyncWorker => lookupQueue' = lookupQueue
      BY <1>7 DEF Grid!TakeRequest, Grid!cache, Grid!disk
    <2>2. PICK p \in {"apply", "derive"} : pc' = [pc EXCEPT ![w] = p]
      BY <2>1, ZenonT(30)
    <2>3. pc' \in [Grid!Workers -> {"idle", "derive", "apply"}]
      BY <2>2, ZenonT(20) DEF GridInv
    <2>4. CASE w = AsyncWorker
      <3>1. lookupQueue = 1 /\ lookupQueue' = 0 /\ pc'[AsyncWorker] # "idle"
        BY <1>0, <2>1, <2>2, <2>4, SMTT(30) DEF GridInv
      <3> QED BY <2>1, <2>3, <3>1, SMTT(30) DEF GridInv, Kept
    <2>5. CASE w # AsyncWorker
      <3>1. pc'[AsyncWorker] = pc[AsyncWorker]
        BY <1>0, <2>2, <2>5 DEF GridInv
      <3> QED BY <2>1, <2>3, <2>5, <3>1, ZenonT(20) DEF GridInv, Kept
    <2> QED BY <2>4, <2>5, ZenonT(20)
  <1>8. ASSUME NEW w \in Grid!Workers, Grid!Derive(w) \/ Grid!DeriveNothing(w) PROVE GridInv' /\ Kept
    <2>1. /\ pc[w] = "derive" /\ pc' = [pc EXCEPT ![w] = "apply"]
          /\ UNCHANGED <<store, lookupPending, lookupQueue>>
          /\ entry' = entry \/ \E c : entry' = [entry EXCEPT !.cty = c]
      BY <1>8, Zenon DEF Grid!Derive, Grid!DeriveNothing, Grid!Put, Grid!cache, Grid!disk, Grid!lookup
    <2>2. Keeps(entry, entry', clock)
      <3>1. CASE entry' = entry
        BY <1>0, <3>1, Zenon DEF Keeps
      <3>2. CASE \E c : entry' = [entry EXCEPT !.cty = c]
        <4>1. PICK c : entry' = [entry EXCEPT !.cty = c]
          BY <3>2
        <4> QED BY <1>0, <4>1, CtyKeeps, Zenon
      <3> QED BY <2>1, <3>1, <3>2
    <2>3. pc' \in [Grid!Workers -> {"idle", "derive", "apply"}]
      BY <2>1 DEF GridInv
    <2>4. pc'[AsyncWorker] # "idle" <=> pc[AsyncWorker] # "idle"
      BY <1>0, <2>1 DEF GridInv
    <2> QED BY <2>1, <2>2, <2>3, <2>4, Zenon DEF GridInv, Kept, Keeps, Held
  <1>9. ASSUME NEW w \in Grid!Workers, Grid!Apply(w) PROVE GridInv' /\ Kept
    <2>1. /\ pc[w] = "apply" /\ pc' = [pc EXCEPT ![w] = "idle"]
          /\ UNCHANGED <<store, lookupQueue>> /\ lookupPending' = (lookupPending /\ w # AsyncWorker)
          /\ entry' = entry \/ entry' = Grid!Applied(entry, found[w])
      BY <1>9, Zenon DEF Grid!Apply, Grid!Put, Grid!cache, Grid!disk
    <2>2. Keeps(entry, entry', clock)
      BY <1>0, <2>1, ApplyKeeps, Zenon DEF Keeps
    <2>3. pc' \in [Grid!Workers -> {"idle", "derive", "apply"}]
      BY <2>1, ZenonT(20) DEF GridInv
    <2>4. CASE w = AsyncWorker
      <3>1. pc'[AsyncWorker] = "idle" /\ lookupQueue # 1 /\ lookupPending' = FALSE
        BY <1>0, <2>1, <2>4, Zenon DEF GridInv
      <3> QED BY <2>1, <2>2, <2>3, <3>1, ZenonT(20) DEF GridInv, Kept, Keeps, Held
    <2>5. CASE w # AsyncWorker
      <3>1. pc'[AsyncWorker] = pc[AsyncWorker] /\ lookupPending' = lookupPending
        BY <1>0, <2>1, <2>5, ZenonT(20) DEF GridInv
      <3> QED BY <2>1, <2>2, <2>3, <3>1, Zenon DEF GridInv, Kept, Keeps, Held
    <2> QED BY <2>4, <2>5
  <1>10. CASE \/ Grid!Tick \/ Grid!TakeUpdate \/ Grid!Flush \/ Grid!FlushFails \/ Grid!Return
              \/ Grid!Purge \/ Grid!Stop \/ UNCHANGED Grid!vars
    <2>1. /\ UNCHANGED <<lookupPending, lookupQueue, pc, entry>>
          /\ \/ store' = store \/ store' = NoGridRecord \/ store' = Grid!mergeRecordValue(store, pending)
      BY <1>10, Zenon DEF Grid!Tick, Grid!TakeUpdate, Grid!Flush, Grid!FlushFails, Grid!Return, Grid!Purge,
        Grid!Stop, Grid!vars, Grid!cache, Grid!disk, Grid!lookup
    <2> QED BY <2>1, StoreSteps
  <1> QED BY <1>2, <1>3, <1>4, <1>5, <1>6, <1>7, <1>8, <1>9, <1>10, ZenonT(30) DEF Grid!Next

\* A callsign has at most one asynchronous request under way (tryGridLookup).
THEOREM GridInvariant == ASSUME Grid!WriterConstants PROVE Grid!Spec => []GridInv
  <1>1. Grid!Init => GridInv
    <2> SUFFICES ASSUME Grid!Init PROVE GridInv
      OBVIOUS
    <2>1. EntryFields(Grid!Blank)
      BY DEF Grid!Blank, EntryFields
    <2>2. pc \in [Grid!Workers -> {"idle", "derive", "apply"}] /\ pc[AsyncWorker] = "idle"
      BY DEF Grid!Init, Grid!Workers
    <2>3. lookupPending = FALSE /\ lookupQueue = 0 /\ entry = Grid!Blank
      BY DEF Grid!Init
    <2>4. lookupPending \in BOOLEAN /\ ~lookupPending
      BY <2>3, Zenon
    <2>5. lookupQueue \in {0, 1} /\ lookupQueue # 1
      BY <2>3
    <2> QED BY <2>1, <2>2, <2>3, <2>4, <2>5, Zenon DEF GridInv
  <1>2. GridInv /\ [Grid!Next]_(Grid!vars) => GridInv'
    BY GridStep, ZenonT(20) DEF Grid!WriterConstants
  <1> QED BY <1>1, <1>2, PTL DEF Grid!Spec

\* A callsign is marked pending exactly while its request is in the queue or with the worker
\* (lookupPending in startGridWriter).
THEOREM RequestsInFlight == ASSUME Grid!WriterConstants PROVE Grid!Spec => []Grid!PendingIsInFlight
  <1>1. GridInv => Grid!PendingIsInFlight
    BY DEF GridInv, Grid!PendingIsInFlight
  <1> QED BY <1>1, GridInvariant, PTL

\* An actual grid is not replaced by a derived one, in the cache until it expires and in the
\* store until it is purged (ApplyRecord, mergeRecordValue).
THEOREM ActualGridsKept == ASSUME Grid!WriterConstants PROVE Grid!Spec => Grid!ActualGridKept
  <1>1. GridInv /\ [Grid!Next]_(Grid!vars) => [Kept]_(Grid!vars)
    BY GridStep DEF Grid!WriterConstants
  <1>2. Grid!ActualGridKept <=> [][Kept]_(Grid!vars)
    BY DEF Grid!ActualGridKept, Kept
  <1> QED BY <1>1, <1>2, GridInvariant, PTL DEF Grid!Spec

-----------------------------------------------------------------------------
(* Data files that are published *)
CONSTANTS Kinds, Bad, MaxVersion, MaxRestarts

VARIABLES kind, validates, remote, file, meta, active, step, fetched, booting, ok, restarts

Files == INSTANCE DataRefresh

\* The inductive invariant: nothing is newer than what is published, what is being installed is
\* not older than what is in use, and memory is empty when the process starts.
FilesInv ==
  /\ remote \in Nat /\ file \in Nat /\ fetched \in Nat /\ active \in Nat
  /\ file <= remote /\ fetched <= remote /\ active <= remote
  /\ kind \in {"cty", "known", "uls", "skew"}
  /\ step = "down" /\ kind # "uls" => active = 0
  /\ step \in {"remove", "rename", "meta", "load"} => active <= fetched
  /\ step \in {"meta", "load"} => file = fetched
  /\ step = "swap" => file \notin Bad

\* What LastGoodStays demands of a step
GoodStays ==
  active' # active =>
    /\ active' \notin Bad
    /\ active' > active \/ step = "swap" \/ step' \in {"down", "swap"}

\* Where an attempt ends (the schedulers of main.go)
LEMMA AfterSteps ==
  ASSUME NEW loaded, NEW failed
  PROVE  Files!AfterStep(loaded, failed) \in {"off", "wait", "backoff"}
  BY DEF Files!AfterStep

\* An attempt that ends leaves the steps of the installation.
LEMMA FinishKeeps ==
  ASSUME Files!DataConstants, FilesInv, NEW loaded \in Nat, NEW failed,
         Files!Finish(loaded, failed), UNCHANGED Files!publisher,
         file' \in Nat, file' <= remote, fetched' \in Nat, fetched' <= remote, loaded <= remote
  PROVE  FilesInv' /\ active' = loaded
  <1>1. step' \in {"off", "wait", "backoff"} /\ active' = loaded
    BY AfterSteps DEF Files!Finish
  <1> QED BY <1>1 DEF FilesInv, Files!publisher

\* Every step of startup, scheduler and publisher
LEMMA FilesStep == ASSUME Files!DataConstants, FilesInv, [Files!Next]_(Files!vars) PROVE FilesInv' /\ GoodStays
  <1> USE DEF GoodStays
  <1>1. 0 \notin Bad
    BY ZenonT(20) DEF Files!DataConstants
  <1>2. CASE Files!Publish
    BY <1>2 DEF Files!Publish, FilesInv
  <1>3. CASE Files!Crash
    BY <1>1, <1>3, SMTT(30) DEF Files!Crash, FilesInv, Files!publisher
  <1>4. ASSUME NEW l, NEW f, Files!Booted(l, f),
               l = active \/ (l = 0 /\ kind # "uls") \/ (l = file /\ kind # "uls" /\ file \notin Bad)
        PROVE  FilesInv' /\ GoodStays
    <2>1. Files!Finish(l, f) /\ step = "down" /\ UNCHANGED <<Files!publisher, file, fetched>>
      BY <1>4 DEF Files!Booted
    <2>2. l \in Nat /\ l <= remote /\ l >= active /\ (l # active => l \notin Bad)
      BY <1>1, <1>4, <2>1, SMTT(30) DEF FilesInv
    <2>3. FilesInv' /\ active' = l
      BY <2>1, <2>2, FinishKeeps, ZenonT(20) DEF FilesInv
    <2> QED BY <2>2, <2>3, SMTT(30) DEF FilesInv
  <1>5. CASE step = "down" /\ step' = "fetch" /\ UNCHANGED <<Files!publisher, file, active, fetched>>
    BY <1>5 DEF FilesInv, Files!publisher
  <1>6. CASE Files!Boot
    <2>1. CASE Files!BootCTY
      BY <1>4, <1>5, <2>1, Zenon DEF Files!BootCTY, Files!BootFetch
    <2>2. CASE Files!BootKnownCalls
      BY <1>4, <1>5, <2>2, Zenon DEF Files!BootKnownCalls, Files!BootFetch
    <2>3. CASE Files!BootSkew
      BY <1>4, <1>5, <2>3, Zenon DEF Files!BootSkew, Files!BootFetch
    <2>4. CASE Files!BootULS
      BY <1>4, <1>5, <2>4, Zenon DEF Files!BootULS, Files!BootFetch
    <2> QED BY <1>6, <2>1, <2>2, <2>3, <2>4, SMTT(30) DEF Files!Boot
  <1>7. CASE Files!Wake
    <2>1. step' = "fetch" /\ step # "down" /\ UNCHANGED <<Files!publisher, file, active, fetched>>
      BY <1>7 DEF Files!Wake, Files!Woken, Files!startSkewScheduler, Files!startKnownCallScheduler,
        Files!startCTYScheduler, Files!startScheduler
    <2> QED BY <2>1, SMTT(30) DEF FilesInv, Files!publisher
  <1>8. ASSUME NEW f, Files!Finish(active, f), UNCHANGED Files!publisher, file' \in {file, fetched, 0}, UNCHANGED fetched
        PROVE  FilesInv' /\ GoodStays
    <2>1. FilesInv' /\ active' = active
      BY <1>8, FinishKeeps, SMTT(30) DEF FilesInv
    <2> QED BY <2>1, ZenonT(20)
  <1>9. CASE Files!FetchFails \/ Files!NotModified \/ Files!BuildFails \/ Files!WriteSkew
    <2>1. \E f : Files!Finish(active, f) /\ UNCHANGED Files!publisher /\ file' \in {file, fetched, 0} /\ UNCHANGED fetched
      BY <1>9, Zenon DEF Files!FetchFails, Files!NotModified, Files!BuildFails, Files!WriteSkew
    <2> QED BY <1>8, <2>1
  <1>10. CASE Files!Fetched
    BY <1>10, SMTT(30) DEF Files!Fetched, FilesInv, Files!publisher
  <1>11. CASE Files!RemoveOld
    BY <1>11 DEF Files!RemoveOld, FilesInv, Files!publisher
  <1>12. CASE Files!Rename
    <2>1. CASE file' = fetched /\ step = "rename" /\ step' = "meta" /\ UNCHANGED <<Files!publisher, active, fetched>>
      BY <2>1 DEF FilesInv, Files!publisher
    <2>2. CASE Files!Finish(active, TRUE) /\ UNCHANGED <<Files!publisher, file, fetched>>
      BY <1>8, <2>2, Zenon
    <2> QED BY <1>12, <2>1, <2>2, Zenon DEF Files!Rename
  <1>13. CASE Files!WriteMetadata
    BY <1>13 DEF Files!WriteMetadata, FilesInv, Files!publisher
  <1>14. CASE Files!refreshCTYDatabase \/ Files!refreshKnownCallsigns
    <2>1. step = "load" /\ Files!LoadInto
      BY <1>14 DEF Files!refreshCTYDatabase, Files!refreshKnownCallsigns
    <2>2. UNCHANGED <<Files!publisher, file, fetched>>
      BY <2>1 DEF Files!LoadInto
    <2>3. CASE file \in Bad
      BY <1>8, <2>1, <2>2, <2>3, ZenonT(30) DEF Files!LoadInto
    <2>4. CASE file \notin Bad
      <3>1. Files!Finish(file, FALSE) /\ file \in Nat /\ file >= active /\ file <= remote
        BY <2>1, <2>4, Zenon DEF Files!LoadInto, FilesInv
      <3>2. FilesInv' /\ active' = file
        BY <2>2, <3>1, FinishKeeps, Zenon DEF FilesInv
      <3> QED BY <2>4, <3>1, <3>2, SMTT(30) DEF FilesInv
    <2> QED BY <2>3, <2>4
  <1>15. CASE Files!FetchSkew
    <2>1. CASE remote \in Bad
      BY <1>8, <1>15, <2>1, ZenonT(30) DEF Files!FetchSkew
    <2>2. CASE remote \notin Bad
      BY <1>15, <2>2, SMTT(30) DEF Files!FetchSkew, FilesInv, Files!publisher
    <2> QED BY <2>1, <2>2
  <1>16. CASE Files!BuildDatabase
    BY <1>1, <1>16, SMTT(30) DEF Files!BuildDatabase, FilesInv, Files!publisher
  <1>17. CASE Files!SwapDatabase
    <2>1. Files!Finish(file, FALSE) /\ step = "swap" /\ file' = 0 /\ UNCHANGED <<Files!publisher, fetched>>
      BY <1>17, ZenonT(30) DEF Files!SwapDatabase
    <2>3. /\ file \in Nat /\ file <= remote /\ file' \in Nat /\ file' <= remote
          /\ fetched' \in Nat /\ fetched' <= remote
      BY <2>1, SMTT(30) DEF FilesInv
    <2>2. FilesInv' /\ active' = file
      BY <2>1, <2>3, FinishKeeps, ZenonT(30)
    <2> QED BY <2>1, <2>2, ZenonT(20) DEF FilesInv
  <1>18. CASE UNCHANGED Files!vars
    BY <1>18 DEF Files!vars, FilesInv
  <1> QED
    BY <1>2, <1>3, <1>6, <1>7, <1>9, <1>10, <1>11, <1>12, <1>13, <1>14, <1>15, <1>16, <1>17, <1>18, ZenonT(30)
      DEF Files!Next, Files!Refresh

\* The invariant holds for every version, also over restarts (startup and refresh schedulers).
THEOREM FilesInvariant == ASSUME Files!DataConstants PROVE Files!Spec => []FilesInv
  <1>1. Files!Init => FilesInv
    BY DEF Files!Init, FilesInv, Files!DataConstants
  <1>2. FilesInv /\ [Files!Next]_(Files!vars) => FilesInv'
    BY FilesStep
  <1> QED BY <1>1, <1>2, PTL DEF Files!Spec

\* Bad data never comes into use, and what is in use gives way to newer data only, but for a
\* restart and the moment in which a database is swapped (startup and refresh schedulers).
THEOREM GoodDataStays == ASSUME Files!DataConstants PROVE Files!Spec => Files!LastGoodStays
  <1>1. FilesInv /\ [Files!Next]_(Files!vars) => [GoodStays]_(Files!vars)
    BY FilesStep
  <1>2. Files!LastGoodStays <=> [][GoodStays]_(Files!vars)
    BY DEF Files!LastGoodStays, GoodStays
  <1> QED BY <1>1, <1>2, FilesInvariant, PTL DEF Files!Spec
=============================================================================
