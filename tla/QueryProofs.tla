---------------------------- MODULE QueryProofs -----------------------------
(***************************************************************************)
(* The recent-spot ring, for every capacity, any number of readers and any *)
(* number of spots: queries return the newest spots, in order, and miss    *)
(* none that stays.                                                        *)
(*                                                                         *)
(* The address lookups (IPInfo), for any threads, builds of the database   *)
(* and crashes: none reads a closed database, and none answers with a      *)
(* build that went out of use longer ago than the cache keeps an answer.   *)
(***************************************************************************)
EXTENDS RingBuffer, TLAPS

\* Division with remainder.
LEMMA DivMod ==
  ASSUME NEW C \in Nat \ {0}, NEW a \in Nat
  PROVE  a % C = a - C * (a \div C)
  BY Z3T(60)

\* No multiple of C lies strictly between 0 and C.
LEMMA NoMultipleBetween ==
  ASSUME NEW C \in Nat \ {0}, NEW d \in Int, 0 < C * d
  PROVE  C <= C * d
  <1>1. CASE d <= 0
    BY <1>1, SMT
  <1>2. CASE d >= 1
    <2>1. C * d = C + C * (d - 1)
      BY SMT
    <2>2. C * (d - 1) >= 0
      BY <1>2, SMT
    <2>3. C * d \in Int /\ C * (d - 1) \in Int
      BY SMT
    <2>. QED BY <2>1, <2>2, <2>3, SMT
  <1>. QED BY <1>1, <1>2, SMT

\* Two numbers less than a whole turn apart have different remainders.
LEMMA ModApart ==
  ASSUME NEW C \in Nat \ {0}, NEW a \in Nat, NEW b \in Nat, a < b, b - a < C
  PROVE  a % C # b % C
  <1>. DEFINE p == a \div C
              q == b \div C
  <1>1. SUFFICES ASSUME a % C = b % C PROVE FALSE
    OBVIOUS
  <1>2. p \in Int /\ q \in Int
    BY SMT
  <1>3. a % C = a - C * p /\ b % C = b - C * q
    BY DivMod, Zenon
  <1>. HIDE DEF p, q
  <1>4. C * p \in Int /\ C * q \in Int /\ C * (q - p) \in Int
    BY <1>2, <1>3, SMT
  <1>5. C * (q - p) = C * q - C * p
    BY <1>2, <1>3, SMT
  <1>6. C * (q - p) = b - a
    BY <1>1, <1>2, <1>3, <1>4, <1>5, SMT
  <1>7. C <= C * (q - p)
    BY <1>2, <1>3, <1>6, NoMultipleBetween, SMT
  <1>. QED BY <1>4, <1>6, <1>7, SMT

\* A remainder is a slot.
LEMMA ModRange ==
  ASSUME NEW C \in Nat \ {0}, NEW a \in Nat
  PROVE  a % C \in 0 .. (C - 1)
  BY SMT
IInv == TypeOK /\ NewestAreKept /\ WalkInv /\ NothingMissed

LEMMA SlotRange ==
  ASSUME NEW id \in Ids
  PROVE  SlotOf(id) \in Slots
  <1>1. id - 1 \in Nat
    BY RingConstants DEF Ids
  <1>. QED BY <1>1, ModRange, RingConstants DEF SlotOf, Slots

LEMMA SlotsApart ==
  ASSUME NEW a \in Ids, NEW b \in Ids, a < b, b - a < Capacity
  PROVE  SlotOf(a) # SlotOf(b)
  <1>. DEFINE x == a - 1
              y == b - 1
  <1>1. x \in Nat /\ y \in Nat /\ x < y /\ y - x < Capacity
    BY RingConstants DEF Ids
  <1>. HIDE DEF x, y
  <1>2. x % Capacity # y % Capacity
    BY <1>1, ModApart, RingConstants, Zenon
  <1>. QED BY <1>2 DEF SlotOf, x, y

LEMMA MinFacts ==
  ASSUME NEW a \in Nat, NEW b \in Nat
  PROVE  Min2(a, b) \in Nat /\ Min2(a, b) <= a /\ Min2(a, b) <= b
  BY DEF Min2

LEMMA InitInv == Init => IInv
  <1>. SUFFICES ASSUME Init PROVE IInv
    OBVIOUS
  <1>1. <<>> \in Seq(Ids) /\ Len(<<>>) = 0
    OBVIOUS
  <1>2. TypeOK
    BY <1>1, RingConstants DEF Init, TypeOK, Slots
  <1>3. Published = 0
    BY DEF Init, Published
  <1>4. NewestAreKept
    BY <1>3 DEF Init, NewestAreKept, Ids
  <1>5. WalkInv
    BY <1>1, <1>3, RingConstants DEF Init, WalkInv
  <1>6. NothingMissed
    BY DEF Init, NothingMissed, Ids
  <1>. QED BY <1>2, <1>4, <1>5, <1>6 DEF IInv

\* The steps of the pipeline
LEMMA ClaimInv == IInv /\ Claim => IInv'
  <1>. SUFFICES ASSUME IInv, Claim PROVE IInv'
    OBVIOUS
  <1>. USE RingConstants
  <1>1. TypeOK'
    BY DEF IInv, Claim, TypeOK, query
  <1>2. Published' = Published /\ Published = total /\ total' = total + 1 /\ total \in Int
    BY DEF IInv, Claim, TypeOK, Published
  <1>3. NewestAreKept'
    BY <1>2 DEF IInv, Claim, NewestAreKept, SlotOf
  <1>4. WalkInv'
    <2>1. UNCHANGED <<seen, stored, idx, scanned, result>>
      BY DEF Claim, query
    <2>2. ASSUME NEW r \in Readers PROVE seen[r] <= total'
      <3>1. seen[r] <= total /\ seen[r] \in Int
        BY DEF IInv, WalkInv, TypeOK
      <3>. QED BY <3>1, <1>2
    <2>. QED BY <2>1, <2>2, <1>2 DEF IInv, WalkInv
  <1>5. NothingMissed'
    BY <1>2 DEF IInv, Claim, NothingMissed, In, TypeOK, query, Ids
  <1>. QED BY <1>1, <1>3, <1>4, <1>5 DEF IInv

LEMMA StoreInv == IInv /\ Store => IInv'
  <1>. SUFFICES ASSUME IInv, Store PROVE IInv'
    OBVIOUS
  <1>. USE RingConstants
  <1>1. total \in Ids /\ slots \in [Slots -> 0 .. MaxSpots] /\ total' = total /\ SlotOf(total) \in Slots
    BY SlotRange DEF IInv, Store, TypeOK, Ids
  <1>2. TypeOK'
    BY <1>1 DEF IInv, Store, TypeOK, query, Ids
  <1>3. Published = total - 1 /\ Published' = total
    BY DEF IInv, Store, Published
  <1>4. ASSUME NEW id \in Ids, id <= Published', id > Published' - Capacity
        PROVE  slots'[SlotOf(id)] = id
    <2>1. CASE id = total
      BY <2>1, <1>1 DEF Store
    <2>2. CASE id # total
      <3>1. id < total /\ total - id < Capacity /\ id <= Published /\ id > Published - Capacity
        BY <2>2, <1>1, <1>3, <1>4 DEF Ids
      <3>2. SlotOf(id) # SlotOf(total) /\ SlotOf(id) \in Slots
        BY <3>1, <1>1, SlotsApart, SlotRange
      <3>3. slots[SlotOf(id)] = id
        BY <3>1 DEF IInv, NewestAreKept
      <3>. QED BY <3>2, <3>3, <1>1 DEF Store
    <2>. QED BY <2>1, <2>2
  <1>5. NewestAreKept'
    BY <1>4 DEF NewestAreKept, SlotOf
  <1>6. WalkInv'
    <2>1. UNCHANGED <<total, seen, stored, idx, scanned, result>>
      BY DEF Store, query
    <2>2. ASSUME NEW r \in Readers PROVE stored[r] <= Published'
      <3>1. stored[r] <= Published /\ stored[r] \in Int /\ total \in Int
        BY <1>1 DEF IInv, WalkInv, TypeOK, Ids
      <3>. QED BY <3>1, <1>3
    <2>. QED BY <2>1, <2>2 DEF IInv, WalkInv
  <1>7. NothingMissed'
    BY <1>1 DEF IInv, Store, NothingMissed, In, query
  <1>. QED BY <1>2, <1>5, <1>6, <1>7 DEF IInv

LEMMA RefreshInv == IInv /\ (Refresh \/ Finish) => IInv'
  <1>. SUFFICES ASSUME IInv, Refresh \/ Finish PROVE IInv'
    OBVIOUS
  <1>1. UNCHANGED <<ring, rpc, query, idx, scanned, result>> /\ wpc' \in {"idle", "refreshing"}
        /\ wpc \in {"added", "refreshing"}
    BY DEF Refresh, Finish
  <1>2. TypeOK'
    BY <1>1 DEF IInv, TypeOK, ring, query
  <1>3. Published' = Published
    BY <1>1 DEF Published, ring
  <1>4. NewestAreKept'
    BY <1>1, <1>3 DEF IInv, NewestAreKept, ring, SlotOf
  <1>5. WalkInv'
    BY <1>1, <1>3 DEF IInv, WalkInv, ring, query
  <1>6. NothingMissed'
    BY <1>1 DEF IInv, NothingMissed, In, ring, query
  <1>. QED BY <1>2, <1>4, <1>5, <1>6 DEF IInv

\* The steps of the readers
LEMMA GetRecentInv ==
  ASSUME IInv, NEW r \in Readers, NEW limit \in Limits, NEW f \in BOOLEAN, GetRecent(r, limit, f)
  PROVE  IInv'
  <1>. USE RingConstants
  <1>1. total \in 0 .. MaxSpots /\ Published \in 0 .. MaxSpots /\ Published <= total
    BY DEF IInv, TypeOK, Published
  <1>2. Min2(limit, Min2(total, Capacity)) \in 0 .. Capacity
    <2>1. total \in Nat /\ limit \in Nat /\ Capacity \in Nat
      BY <1>1
    <2>2. Min2(total, Capacity) \in Nat /\ Min2(total, Capacity) <= Capacity
      BY <2>1, MinFacts
    <2>. HIDE DEF Min2
    <2>. QED BY <2>1, <2>2, MinFacts
  <1>3. <<>> \in Seq(Ids) /\ Len(<<>>) = 0
    OBVIOUS
  <1>4. TypeOK'
    <2>1. seen' \in [Readers -> 0 .. MaxSpots] /\ stored' \in [Readers -> 0 .. MaxSpots]
      BY <1>1, SMTT(30) DEF IInv, GetRecent, TypeOK
    <2>2. n' \in [Readers -> 0 .. Capacity] /\ scanned' \in [Readers -> 0 .. Capacity]
      BY <1>2, SMTT(30) DEF IInv, GetRecent, TypeOK
    <2>3. idx' \in [Readers -> 0 .. MaxSpots] /\ filtered' \in [Readers -> BOOLEAN]
      BY <1>1, ZenonT(20) DEF IInv, GetRecent, TypeOK
    <2>4. result' \in [Readers -> Seq(Ids)] /\ rpc' \in [Readers -> {"idle", "scan"}]
      BY <1>3, ZenonT(20) DEF IInv, GetRecent, TypeOK
    <2>. QED BY <2>1, <2>2, <2>3, <2>4, ZenonT(20) DEF IInv, GetRecent, TypeOK, ring
  <1>5. Published' = Published /\ total' = total /\ slots' = slots
    BY DEF GetRecent, Published, ring
  <1>6. NewestAreKept'
    BY <1>5 DEF IInv, NewestAreKept, SlotOf
  <1>7. /\ seen'[r] = total /\ stored'[r] = Published /\ idx'[r] = total
        /\ scanned'[r] = 0 /\ result'[r] = <<>>
    BY DEF IInv, GetRecent, TypeOK
  <1>8. ASSUME NEW q \in Readers, q # r
        PROVE  /\ seen'[q] = seen[q] /\ stored'[q] = stored[q] /\ idx'[q] = idx[q]
               /\ scanned'[q] = scanned[q] /\ result'[q] = result[q] /\ filtered'[q] = filtered[q]
    BY <1>8 DEF IInv, GetRecent, TypeOK
  <1>9. WalkInv'
    <2>. SUFFICES ASSUME NEW q \in Readers
                  PROVE  /\ stored'[q] <= seen'[q] /\ seen'[q] <= total' /\ stored'[q] <= Published'
                         /\ idx'[q] <= seen'[q] /\ idx'[q] >= seen'[q] - Capacity
                         /\ scanned'[q] = seen'[q] - idx'[q]
                         /\ \A i \in 1 .. Len(result'[q]) : result'[q][i] > idx'[q] /\ result'[q][i] <= seen'[q]
                         /\ \A i, j \in 1 .. Len(result'[q]) : i < j => result'[q][i] > result'[q][j]
      BY DEF WalkInv
    <2>1. CASE q # r
      BY <2>1, <1>5, <1>8 DEF IInv, WalkInv
    <2>2. CASE q = r
      <3>1. \A i \in 1 .. Len(<<>>) : FALSE
        BY <1>3
      <3>. QED BY <2>2, <3>1, <1>1, <1>5, <1>7
    <2>. QED BY <2>1, <2>2
  <1>10. NothingMissed'
    <2>. SUFFICES ASSUME NEW q \in Readers, NEW id \in Ids,
                         id > idx'[q], id <= stored'[q], filtered'[q] => id \in Matching
                  PROVE  In(result'[q], id) \/ id <= total' - Capacity
      BY DEF NothingMissed, In
    <2>1. CASE q # r
      BY <2>1, <1>5, <1>8 DEF IInv, NothingMissed
    <2>2. CASE q = r
      BY <2>2, <1>1, <1>7 DEF Ids
    <2>. QED BY <2>1, <2>2
  <1>. QED BY <1>4, <1>6, <1>9, <1>10 DEF IInv

LEMMA ScanInv ==
  ASSUME IInv, NEW r \in Readers, Scan(r)
  PROVE  IInv'
  <1>. USE RingConstants
  <1>. DEFINE s == result[r]
              k == idx[r]
  <1>1. /\ seen[r] \in 0 .. MaxSpots /\ idx[r] \in 0 .. MaxSpots /\ idx[r] <= seen[r]
        /\ stored[r] \in 0 .. MaxSpots /\ total \in 0 .. MaxSpots /\ scanned[r] = seen[r] - idx[r]
        /\ Published \in Int /\ Published <= total
    BY DEF IInv, TypeOK, WalkInv, Published
  <1>2. Min2(seen[r], Capacity) <= seen[r] /\ Min2(seen[r], Capacity) <= Capacity /\ Min2(seen[r], Capacity) \in Nat
    BY <1>1, MinFacts
  <1>3. k \in Ids /\ k > seen[r] - Capacity
    BY <1>1, <1>2, SMTT(30) DEF Scan, More, Ids
  <1>4. s \in Seq(Ids)
    BY DEF IInv, TypeOK
  <1>5. /\ idx' = [idx EXCEPT ![r] = k - 1] /\ scanned' = [scanned EXCEPT ![r] = @ + 1]
        /\ result' = [result EXCEPT ![r] = IF Taken(r) THEN Append(s, k) ELSE s]
        /\ UNCHANGED <<total, slots, wpc, rpc, seen, stored, filtered, n>>
    BY Zenon DEF Scan, Taken, ring, query
  <1>6. Append(s, k) \in Seq(Ids) /\ Len(Append(s, k)) = Len(s) + 1
        /\ Append(s, k)[Len(s) + 1] = k /\ \A i \in 1 .. Len(s) : Append(s, k)[i] = s[i]
    BY <1>3, <1>4
  <1>7. Len(s) \in Nat
    BY <1>4
  <1>8. TypeOK'
    <2>1. k - 1 \in 0 .. MaxSpots /\ scanned[r] + 1 \in 0 .. Capacity
      BY <1>1, <1>3 DEF Ids
    <2>2. (IF Taken(r) THEN Append(s, k) ELSE s) \in Seq(Ids)
      BY <1>4, <1>6
    <2>3. idx' \in [Readers -> 0 .. MaxSpots] /\ scanned' \in [Readers -> 0 .. Capacity]
      BY <2>1, <1>5, ZenonT(20) DEF IInv, TypeOK
    <2>4. result' \in [Readers -> Seq(Ids)]
      BY <2>2, <1>5 DEF IInv, TypeOK
    <2>. QED BY <2>3, <2>4, <1>5, ZenonT(20) DEF IInv, TypeOK
  <1>9. Published' = Published
    BY <1>5 DEF Published
  <1>10. NewestAreKept'
    BY <1>5, <1>9, SMTT(30) DEF IInv, NewestAreKept, SlotOf
  <1>11. WalkInv'
    <2>. SUFFICES ASSUME NEW q \in Readers
                  PROVE  /\ stored'[q] <= seen'[q] /\ seen'[q] <= total' /\ stored'[q] <= Published'
                         /\ idx'[q] <= seen'[q] /\ idx'[q] >= seen'[q] - Capacity
                         /\ scanned'[q] = seen'[q] - idx'[q]
                         /\ \A i \in 1 .. Len(result'[q]) : result'[q][i] > idx'[q] /\ result'[q][i] <= seen'[q]
                         /\ \A i, j \in 1 .. Len(result'[q]) : i < j => result'[q][i] > result'[q][j]
      BY DEF WalkInv
    <2>1. CASE q # r
      BY <2>1, <1>5, <1>9, Zenon DEF IInv, WalkInv, TypeOK
    <2>2. CASE q = r
      <3>1. /\ idx'[r] = k - 1 /\ scanned'[r] = scanned[r] + 1 /\ seen'[r] = seen[r] /\ stored'[r] = stored[r]
            /\ result'[r] = IF Taken(r) THEN Append(s, k) ELSE s
        BY <1>5, SMTT(30) DEF IInv, TypeOK
      <3>2. /\ stored[r] <= seen[r] /\ seen[r] <= total /\ stored[r] <= Published
            /\ \A i \in 1 .. Len(s) : s[i] > k /\ s[i] <= seen[r] /\ s[i] \in Int
            /\ \A i, j \in 1 .. Len(s) : i < j => s[i] > s[j]
        BY <1>4, SMTT(30) DEF IInv, WalkInv, Ids
      <3>. HIDE DEF s, k
      <3>3. CASE Taken(r)
        <4>1. \A i \in 1 .. Len(s) + 1 : Append(s, k)[i] > k - 1 /\ Append(s, k)[i] <= seen[r]
          <5>. TAKE i \in 1 .. Len(s) + 1
          <5>1. CASE i = Len(s) + 1
            <6>1. k \in Int /\ k <= seen[r] /\ seen[r] \in Int
              BY <1>1, <1>3 DEF Ids, k
            <6>. QED BY <5>1, <6>1, <1>6
          <5>2. CASE i # Len(s) + 1
            <6>1. i \in 1 .. Len(s) /\ k \in Int
              BY <5>2, <1>3, <1>7 DEF Ids
            <6>2. s[i] > k /\ s[i] <= seen[r] /\ s[i] \in Int /\ Append(s, k)[i] = s[i]
              BY <6>1, <1>6, <3>2
            <6>. QED BY <6>1, <6>2
          <5>. QED BY <5>1, <5>2
        <4>2. \A i, j \in 1 .. Len(s) + 1 : i < j => Append(s, k)[i] > Append(s, k)[j]
          <5>. SUFFICES ASSUME NEW i \in 1 .. Len(s) + 1, NEW j \in 1 .. Len(s) + 1, i < j
                        PROVE  Append(s, k)[i] > Append(s, k)[j]
            OBVIOUS
          <5>0. i \in 1 .. Len(s)
            BY <1>7
          <5>1. Append(s, k)[i] = s[i] /\ s[i] > k
            BY <5>0, <1>6, <3>2
          <5>2. CASE j = Len(s) + 1
            BY <5>1, <5>2, <1>6
          <5>3. CASE j # Len(s) + 1
            <6>1. j \in 1 .. Len(s)
              BY <5>3, <1>7
            <6>2. Append(s, k)[j] = s[j] /\ s[i] > s[j]
              BY <5>0, <6>1, <1>6, <3>2
            <6>. QED BY <5>1, <6>2
          <5>. QED BY <5>2, <5>3
        <4>3. result'[r] = Append(s, k) /\ Len(result'[r]) = Len(s) + 1
          BY <3>1, <3>3, <1>6
        <4>4. k - 1 <= seen[r] /\ k - 1 >= seen[r] - Capacity /\ scanned[r] + 1 = seen[r] - (k - 1)
          BY <1>1, <1>3 DEF Ids, k
        <4>. QED BY <2>2, <3>1, <3>2, <4>1, <4>2, <4>3, <4>4, <1>5, <1>9
      <3>4. CASE ~Taken(r)
        <4>1. \A i \in 1 .. Len(s) : s[i] > k - 1
          BY <1>3, <3>2, SMTT(30) DEF Ids
        <4>2. result'[r] = s
          BY <3>1, <3>4
        <4>3. k - 1 <= seen[r] /\ k - 1 >= seen[r] - Capacity /\ scanned[r] + 1 = seen[r] - (k - 1)
          BY <1>1, <1>3 DEF Ids, k
        <4>. QED BY <2>2, <3>1, <3>2, <4>1, <4>2, <4>3, <1>5, <1>9, Zenon
      <3>. QED BY <3>3, <3>4
    <2>. QED BY <2>1, <2>2, SMTT(30)
  <1>12. NothingMissed'
    <2>. SUFFICES ASSUME NEW q \in Readers, NEW id \in Ids,
                         id > idx'[q], id <= stored'[q], filtered'[q] => id \in Matching
                  PROVE  In(result'[q], id) \/ id <= total' - Capacity
      BY DEF NothingMissed, In
    <2>1. CASE q # r
      BY <2>1, <1>5, Zenon DEF IInv, NothingMissed, In, TypeOK
    <2>2. CASE q = r /\ id > k
      <3>1. In(s, id) \/ id <= total - Capacity
        BY <2>2, <1>5 DEF IInv, NothingMissed, TypeOK
      <3>2. In(s, id) => In(Append(s, k), id)
        <4>. SUFFICES ASSUME NEW i \in 1 .. Len(s), s[i] = id PROVE In(Append(s, k), id)
          BY DEF In
        <4>1. i \in 1 .. Len(Append(s, k)) /\ Append(s, k)[i] = id
          BY <1>6, <1>7
        <4>. QED BY <4>1 DEF In
      <3>3. result'[r] = s \/ result'[r] = Append(s, k)
        BY <1>5, SMTT(30) DEF IInv, TypeOK
      <3>. QED BY <2>2, <3>1, <3>2, <3>3, <1>5
    <2>3. CASE q = r /\ id = k
      <3>1. SUFFICES ASSUME id > total - Capacity PROVE In(result'[r], id)
        BY <2>3, <1>1, <1>5 DEF Ids
      <3>2. id <= Published /\ id > Published - Capacity
        <4>1. stored'[r] = stored[r] /\ stored[r] <= Published
          BY <1>5 DEF IInv, WalkInv
        <4>. QED BY <2>3, <3>1, <4>1, <1>1 DEF Ids
      <3>3. slots[SlotOf(id)] = id
        BY <3>2 DEF IInv, NewestAreKept
      <3>4. Taken(r)
        BY <2>3, <3>3, <1>5 DEF Taken
      <3>5. result'[r] = Append(s, k)
        BY <3>4, <1>5 DEF IInv, TypeOK
      <3>. QED BY <2>3, <3>5, <1>6, <1>7 DEF In
    <2>4. q = r => (id > k \/ id = k)
      BY <1>3, <1>5 DEF IInv, TypeOK, Ids
    <2>. QED BY <2>1, <2>2, <2>3, <2>4
  <1>. QED BY <1>8, <1>10, <1>11, <1>12 DEF IInv

LEMMA ReturnInv ==
  ASSUME IInv, NEW r \in Readers, Return(r)
  PROVE  IInv'
  <1>1. UNCHANGED <<total, slots, wpc, seen, stored, filtered, n, idx, scanned, result>>
        /\ rpc' \in [Readers -> {"idle", "scan"}]
    BY DEF IInv, TypeOK, Return, ring, query
  <1>. QED BY <1>1, Zenon DEF IInv, TypeOK, NewestAreKept, WalkInv, NothingMissed, Published, In, SlotOf

LEMMA StutterInv == IInv /\ UNCHANGED vars => IInv'
  BY DEF IInv, vars, ring, query, TypeOK, NewestAreKept, WalkInv, NothingMissed, Published, In, SlotOf

THEOREM Invariance == Spec => []IInv
  <1>1. IInv /\ [Next]_vars => IInv'
    BY ClaimInv, StoreInv, RefreshInv, GetRecentInv, ScanInv, ReturnInv, StutterInv DEF Next
  <1>. QED BY InitInv, <1>1, PTL DEF Spec

\* The variables keep their types; a query looks at no more than Capacity slots
\* (GetRecent, GetRecentFiltered).
THEOREM TypeCorrect == Spec => []TypeOK
  <1>1. IInv => TypeOK
    BY DEF IInv
  <1>. QED BY <1>1, Invariance, PTL

\* Add keeps the newest Capacity spots in their slots.
THEOREM NewestKept == Spec => []NewestAreKept
  <1>1. IInv => NewestAreKept
    BY SMTT(30) DEF IInv
  <1>. QED BY <1>1, Invariance, PTL

\* Queries answer newest first, without repetition, from the window of the ring at
\* their beginning, although the ring wraps under them.
THEOREM AnswersAreOrdered == Spec => []NewestFirst
  <1>1. IInv => NewestFirst
    <2>. SUFFICES ASSUME IInv, NEW r \in Readers
                  PROVE  /\ \A i, j \in 1 .. Len(result[r]) : i < j => result[r][i] > result[r][j]
                         /\ \A i \in 1 .. Len(result[r]) :
                               result[r][i] > seen[r] - Capacity /\ result[r][i] <= seen[r]
      BY DEF NewestFirst
    <2>1. result[r] \in Seq(Ids) /\ idx[r] \in Int /\ seen[r] \in Int
      BY RingConstants DEF IInv, TypeOK
    <2>2. \A i \in 1 .. Len(result[r]) : result[r][i] \in Ids
      BY <2>1
    <2>3. idx[r] >= seen[r] - Capacity
          /\ \A i \in 1 .. Len(result[r]) : result[r][i] > idx[r] /\ result[r][i] <= seen[r]
      BY DEF IInv, WalkInv
    <2>4. \A i \in 1 .. Len(result[r]) : result[r][i] > seen[r] - Capacity
      <3>. TAKE i \in 1 .. Len(result[r])
      <3>. DEFINE x == result[r][i]
      <3>1. x \in Int /\ Capacity \in Int
        BY <2>2, RingConstants DEF Ids
      <3>2. x > idx[r] /\ idx[r] >= seen[r] - Capacity
        BY <2>3
      <3>. HIDE DEF x
      <3>3. x > seen[r] - Capacity
        BY <2>1, <3>1, <3>2
      <3>. QED BY <3>3 DEF x
    <2>. QED BY <2>3, <2>4, SMTT(30) DEF IInv, WalkInv
  <1>. QED BY <1>1, Invariance, PTL

\* Queries miss no spot that stays in the ring while they walk it.
THEOREM AnswersAreComplete == Spec => []NothingMissed
  <1>1. IInv => NothingMissed
    BY SMTT(30) DEF IInv
  <1>. QED BY <1>1, Invariance, PTL

-----------------------------------------------------------------------------
(* The address lookups *)
CONSTANTS Threads, Holds, LookupTTL, MaxAge, CymruTTL, NegativeTTL, PendingTTL, CymruQueue,
  KeepGzip, CleanOld, MaxBuilds, MaxTime, MaxLookups, MaxCrashes

VARIABLES now, gz, builds, dirs, current, store, opened, closed, builtAt, replacedAt, job, thread,
  cache, lock, cymru, pending, queue, served, lookups, crashes

Address == INSTANCE IPInfo

\* Where a lookup can be, and what it can hold
Steps == {"idle", "get", "stuck", "store", "reading", "dns", "api", "set", "write"}
Searches == [step : Steps, at : Nat, store : Int, answer : Int]

\* Build v is in use, or was until the given time.
UsedAt(times, v, time) == v > 0 => v \in Address!Builds /\ (times[v] = -1 \/ times[v] >= time)

\* A lookup under way holds no answer of a build that was not in use when it began;
SearchSound(times, clock, l) ==
  /\ l.at <= clock
  /\ l.step \in {"set", "write"} => UsedAt(times, l.answer, l.at)
\* an entry of the cache, none of a build that was not in use when it was stored;
EntrySound(times, clock, e) ==
  /\ e.answer \in Int /\ e.expires \in Int /\ e.expires - LookupTTL <= clock
  /\ UsedAt(times, e.answer, e.expires - LookupTTL)
\* an answer that was given, none of a build out of use for longer than the cache keeps one.
ServedSound(times, clock, a) ==
  /\ a.build \in Int /\ a.at \in Int /\ a.at <= clock
  /\ UsedAt(times, a.build, a.at - LookupTTL)

\* CURRENT_DB names a directory that is whole, while a build writes to a later one.
FilesSound ==
  /\ builds \in Nat /\ builds <= MaxBuilds /\ current \in Nat /\ current <= builds
  /\ current # 0 => current \in DOMAIN dirs /\ dirs[current] = "whole"
  /\ job = "building" => builds \in DOMAIN dirs /\ current < builds
  /\ job = "switch" => builds \in DOMAIN dirs /\ dirs[builds] = "whole"

\* The store in place is open, and a lookup that reads, reads that one.
StoreSound ==
  /\ store \in 0 .. MaxBuilds /\ opened \in 0 .. MaxBuilds /\ store \notin closed
  /\ replacedAt \in [Address!Builds -> Int]
  /\ \A v \in Address!Builds : replacedAt[v] <= now
  /\ store # 0 => replacedAt[store] = -1
  /\ \A t \in Threads : thread[t].step = "reading" => thread[t].store = store /\ store # 0

\* Every answer is sound, wherever it is.
AnswersSound ==
  /\ now \in Nat /\ thread \in [Threads -> Searches]
  /\ \A t \in Threads : SearchSound(replacedAt, now, thread[t])
  /\ cache # <<>> => EntrySound(replacedAt, now, cache[1])
  /\ served # <<>> => ServedSound(replacedAt, now, served[1])

\* The inductive invariant
AddressInv == FilesSound /\ StoreSound /\ AnswersSound

\* A thread that does not look up holds no answer.
LEMMA IdleSearch ==
  /\ Address!Idle \in Searches
  /\ \A times, clock : clock \in Nat => SearchSound(times, clock, Address!Idle)
  /\ Address!Idle.step = "idle"
  <1>1. Address!Idle \in Searches
    BY DEF Address!Idle, Searches, Steps
  <1>2. Address!Idle.step = "idle" /\ Address!Idle.at = 0
    BY DEF Address!Idle
  <1> QED BY <1>1, <1>2 DEF SearchSound

\* A build that is replaced later has been in use until later.
LEMMA UseLasts ==
  ASSUME NEW times \in [Address!Builds -> Int], NEW later \in [Address!Builds -> Int], NEW clock \in Int,
         \A v \in Address!Builds : later[v] = times[v] \/ later[v] = -1 \/ later[v] = clock,
         NEW v \in Int, NEW time \in Int, time <= clock, UsedAt(times, v, time)
  PROVE  UsedAt(later, v, time)
  BY DEF UsedAt

\* An older time asks for less.
LEMMA UsedEarlier ==
  ASSUME NEW times \in [Address!Builds -> Int], NEW v \in Int, NEW time \in Int, NEW earlier \in Int,
         earlier <= time, UsedAt(times, v, time)
  PROVE  UsedAt(times, v, earlier)
  BY DEF UsedAt

\* At startup there is no answer.
LEMMA AddressInit == ASSUME Address!AddressConstants, Address!Init PROVE AddressInv
  <1>1. FilesSound
    BY DEF Address!Init, FilesSound, Address!AddressConstants
  <1>2. StoreSound
    <2>1. store = 0 /\ opened = 0 /\ closed = {} /\ now = 0 /\ replacedAt = [v \in Address!Builds |-> -1]
          /\ \A t \in Threads : thread[t].step = "idle"
      BY IdleSearch DEF Address!Init
    <2> QED BY <2>1 DEF StoreSound, Address!AddressConstants
  <1>3. AnswersSound
    <2>1. now = 0 /\ cache = <<>> /\ served = <<>> /\ thread = [t \in Threads |-> Address!Idle]
      BY DEF Address!Init
    <2> QED BY <2>1, IdleSearch DEF AnswersSound
  <1> QED BY <1>1, <1>2, <1>3 DEF AddressInv

\* Time passes.
LEMMA TickKeeps == ASSUME Address!AddressConstants, AddressInv, Address!Tick PROVE AddressInv'
  <1>1. now \in Nat /\ now' = now + 1
        /\ UNCHANGED <<builds, dirs, current, store, opened, closed, replacedAt, job, thread, cache, served>>
    BY DEF Address!Tick, AddressInv, AnswersSound, Address!jobVars, Address!diskVars
  <1>2. FilesSound'
    BY <1>1 DEF AddressInv, FilesSound
  <1>3. StoreSound'
    <2>1. \A v \in Address!Builds : replacedAt[v] <= now /\ replacedAt[v] \in Int
      BY DEF AddressInv, StoreSound
    <2>2. \A v \in Address!Builds : replacedAt[v] <= now'
      BY <1>1, <2>1
    <2> QED BY <1>1, <2>2 DEF AddressInv, StoreSound
  <1>4. AnswersSound'
    <2>1. ASSUME NEW t \in Threads PROVE SearchSound(replacedAt, now', thread[t])
      <3>1. thread[t].at \in Nat /\ thread[t].at <= now
        BY ZenonT(20) DEF AddressInv, AnswersSound, Searches, SearchSound
      <3>2. thread[t].at <= now'
        BY <1>1, <3>1
      <3> QED BY <3>2 DEF AddressInv, AnswersSound, SearchSound
    <2>2. cache # <<>> => EntrySound(replacedAt, now', cache[1])
      <3> SUFFICES ASSUME cache # <<>> PROVE EntrySound(replacedAt, now', cache[1])
        OBVIOUS
      <3>1. EntrySound(replacedAt, now, cache[1])
        BY DEF AddressInv, AnswersSound
      <3>2. cache[1].expires \in Int /\ cache[1].expires - LookupTTL <= now
        BY <3>1 DEF EntrySound
      <3> HIDE DEF AddressInv
      <3>3. cache[1].expires - LookupTTL <= now'
        BY <1>1, <3>2 DEF Address!AddressConstants
      <3> QED BY <3>1, <3>3 DEF EntrySound
    <2>3. served # <<>> => ServedSound(replacedAt, now', served[1])
      <3> SUFFICES ASSUME served # <<>> PROVE ServedSound(replacedAt, now', served[1])
        OBVIOUS
      <3>1. ServedSound(replacedAt, now, served[1])
        BY DEF AddressInv, AnswersSound
      <3>2. served[1].at \in Int /\ served[1].at <= now
        BY <3>1 DEF ServedSound
      <3>3. served[1].at <= now'
        BY <1>1, <3>2
      <3> QED BY <3>1, <3>3 DEF ServedSound
    <2> QED BY <1>1, <2>1, <2>2, <2>3 DEF AddressInv, AnswersSound
  <1> QED BY <1>2, <1>3, <1>4 DEF AddressInv

\* The download loop until the new store is put in place
LEMMA FilesKeep ==
  ASSUME Address!AddressConstants, AddressInv,
         Address!Start \/ Address!Download \/ Address!BuildBegins \/ Address!BuildEnds \/ Address!updateIPInfoPebbleCurrent
         \/ Address!cleanupIPInfoPebbleDirs \/ Address!OpenStore \/ Address!CloseOld
  PROVE  AddressInv'
  <1> USE DEF Address!ToJob
  <1>1. UNCHANGED <<now, thread, cache, served, store, replacedAt>>
    BY DEF Address!Start, Address!Download, Address!BuildBegins, Address!BuildEnds, Address!updateIPInfoPebbleCurrent,
           Address!cleanupIPInfoPebbleDirs, Address!OpenStore, Address!CloseOld, Address!Rest
  <1>2. AnswersSound'
    BY <1>1 DEF AddressInv, AnswersSound
  <1>3. FilesSound /\ MaxBuilds \in Nat
    BY DEF AddressInv, Address!AddressConstants
  <1>4. CASE Address!Start
    <2>1. FilesSound'
      BY <1>3, <1>4, SMTT(30) DEF Address!Start, FilesSound, Address!diskVars
    <2>2. StoreSound'
      BY <1>1, <1>4, Zenon DEF AddressInv, StoreSound, Address!Start
    <2> QED BY <1>2, <2>1, <2>2 DEF AddressInv
  <1>5. CASE Address!Download
    <2>1. FilesSound'
      BY <1>3, <1>5 DEF Address!Download, FilesSound
    <2>2. StoreSound'
      BY <1>1, <1>5 DEF AddressInv, StoreSound, Address!Download
    <2> QED BY <1>2, <2>1, <2>2 DEF AddressInv
  <1>6. CASE Address!BuildBegins
    <2>1. /\ builds' = builds + 1 /\ builds < MaxBuilds /\ job' = "building" /\ current' = current
          /\ dirs' = [v \in DOMAIN dirs \cup {builds'} |-> IF v = builds' THEN "partial" ELSE dirs[v]]
      BY <1>6 DEF Address!BuildBegins
    <2>2. builds' \in Nat /\ builds' <= MaxBuilds /\ current' \in Nat /\ current' < builds'
      BY <1>3, <2>1 DEF FilesSound
    <2>3. builds' \in DOMAIN dirs'
      BY <2>1
    <2>4. current' # 0 => current' \in DOMAIN dirs' /\ dirs'[current'] = "whole"
      <3>1. current # builds'
        BY <2>1, <2>2
      <3> QED BY <1>3, <2>1, <3>1 DEF FilesSound
    <2>5. FilesSound'
      BY <2>1, <2>2, <2>3, <2>4, SMTT(30) DEF FilesSound
    <2>6. StoreSound'
      BY <1>1, <1>6 DEF AddressInv, StoreSound, Address!BuildBegins
    <2> QED BY <1>2, <2>5, <2>6 DEF AddressInv
  <1>7. CASE Address!BuildEnds
    <2>1. /\ job = "building" /\ UNCHANGED <<builds, current>>
          /\ \/ dirs' = [v \in DOMAIN dirs \ {builds} |-> dirs[v]] /\ job' = "wait"
             \/ dirs' = [dirs EXCEPT ![builds] = "whole"] /\ job' = "switch"
      BY <1>7 DEF Address!BuildEnds
    <2>2. FilesSound'
      BY <1>3, <2>1, SMTT(30) DEF FilesSound
    <2>3. StoreSound'
      BY <1>1, <1>7 DEF AddressInv, StoreSound, Address!BuildEnds
    <2> QED BY <1>2, <2>2, <2>3 DEF AddressInv
  <1>8. CASE Address!updateIPInfoPebbleCurrent
    <2>1. FilesSound'
      BY <1>3, <1>8 DEF Address!updateIPInfoPebbleCurrent, FilesSound
    <2>2. StoreSound'
      BY <1>1, <1>8 DEF AddressInv, StoreSound, Address!updateIPInfoPebbleCurrent
    <2> QED BY <1>2, <2>1, <2>2 DEF AddressInv
  <1>9. CASE Address!cleanupIPInfoPebbleDirs
    <2>1. /\ UNCHANGED <<builds, current>> /\ job' \in {"wait", "load"}
          /\ dirs' = dirs \/ dirs' = [v \in {current} |-> dirs[v]]
      BY <1>9 DEF Address!cleanupIPInfoPebbleDirs
    <2>2. FilesSound'
      BY <1>3, <2>1 DEF FilesSound
    <2>3. StoreSound'
      BY <1>1, <1>9 DEF AddressInv, StoreSound, Address!cleanupIPInfoPebbleDirs
    <2> QED BY <1>2, <2>2, <2>3 DEF AddressInv
  <1>10. CASE Address!OpenStore
    <2>1. /\ UNCHANGED <<builds, dirs, current, closed>> /\ job' \in {"wait", "swap"} /\ opened' \in {0, current}
      BY <1>10 DEF Address!OpenStore, Address!diskVars
    <2>2. FilesSound'
      BY <1>3, <2>1 DEF FilesSound
    <2>3. opened' \in 0 .. MaxBuilds
      BY <1>3, <2>1 DEF FilesSound
    <2>4. StoreSound'
      BY <1>1, <2>1, <2>3 DEF AddressInv, StoreSound
    <2> QED BY <1>2, <2>2, <2>4 DEF AddressInv
  <1>11. CASE Address!CloseOld
    <2>1. /\ UNCHANGED <<builds, dirs, current>> /\ job' = "wait" /\ opened' = 0
          /\ closed' = closed \union ({opened} \ {0, store})
      BY <1>11 DEF Address!CloseOld, Address!diskVars
    <2>2. FilesSound'
      BY <1>3, <2>1 DEF FilesSound
    <2>3. StoreSound'
      BY <1>1, <1>3, <2>1 DEF AddressInv, StoreSound
    <2> QED BY <1>2, <2>2, <2>3 DEF AddressInv
  <1> QED BY <1>4, <1>5, <1>6, <1>7, <1>8, <1>9, <1>10, <1>11, ZenonT(20)

\* The new store is put in place: the build it replaces was in use until now.
LEMMA SwapKeeps == ASSUME Address!AddressConstants, AddressInv, Address!SwapStore PROVE AddressInv'
  <1>1. /\ UNCHANGED <<now, thread, cache, served, builds, dirs, current>>
        /\ job = "swap" /\ job' = "close" /\ Address!Reading = {}
        /\ store' = opened /\ opened' = store /\ closed' = closed \ {store'}
        /\ replacedAt' = [v \in Address!Builds |-> IF v = store' THEN -1 ELSE IF v = store THEN now ELSE replacedAt[v]]
    BY DEF Address!SwapStore, Address!ToJob, Address!Rest, Address!diskVars
  <1>2. now \in Nat /\ replacedAt \in [Address!Builds -> Int] /\ \A v \in Address!Builds : replacedAt[v] <= now
    BY DEF AddressInv, StoreSound, AnswersSound
  <1>3. /\ replacedAt' \in [Address!Builds -> Int]
        /\ \A v \in Address!Builds : replacedAt'[v] = replacedAt[v] \/ replacedAt'[v] = -1 \/ replacedAt'[v] = now
    BY <1>1, <1>2
  <1>4. \A v \in Address!Builds : replacedAt'[v] <= now
    BY <1>2, <1>3
  <1>5. FilesSound'
    BY <1>1, SMTT(30) DEF AddressInv, FilesSound
  <1>6. StoreSound'
    <2>1. store' # 0 => store' \in Address!Builds
      BY <1>1 DEF AddressInv, StoreSound, Address!Builds, Address!AddressConstants
    <2>2. store' # 0 => replacedAt'[store'] = -1
      BY <1>1, <2>1
    <2>3. \A t \in Threads : thread'[t].step # "reading"
      BY <1>1 DEF Address!Reading
    <2> QED BY <1>1, <1>3, <1>4, <2>2, <2>3, SMTT(30) DEF AddressInv, StoreSound
  <1>7. AnswersSound'
    <2>1. ASSUME NEW t \in Threads PROVE SearchSound(replacedAt', now, thread[t])
      <3>1. thread[t].at \in Nat /\ thread[t].at <= now /\ thread[t].answer \in Int
        BY DEF AddressInv, AnswersSound, Searches, SearchSound
      <3>2. SearchSound(replacedAt, now, thread[t])
        BY DEF AddressInv, AnswersSound
      <3> QED BY <1>2, <1>3, <3>1, <3>2, UseLasts DEF SearchSound
    <2>2. cache # <<>> => EntrySound(replacedAt', now, cache[1])
      <3> SUFFICES ASSUME cache # <<>> PROVE EntrySound(replacedAt', now, cache[1])
        OBVIOUS
      <3>1. EntrySound(replacedAt, now, cache[1])
        BY DEF AddressInv, AnswersSound
      <3>2. cache[1].expires - LookupTTL \in Int
        BY <3>1 DEF EntrySound, Address!AddressConstants
      <3>3. cache[1].expires - LookupTTL <= now /\ cache[1].answer \in Int
        BY <3>1 DEF EntrySound
      <3>4. UsedAt(replacedAt, cache[1].answer, cache[1].expires - LookupTTL)
        BY <3>1, SMTT(30) DEF EntrySound
      <3>5. UsedAt(replacedAt', cache[1].answer, cache[1].expires - LookupTTL)
        BY <1>2, <1>3, <3>2, <3>3, <3>4, UseLasts, SMTT(30)
      <3> QED BY <3>1, <3>5 DEF EntrySound
    <2>3. served # <<>> => ServedSound(replacedAt', now, served[1])
      <3> SUFFICES ASSUME served # <<>> PROVE ServedSound(replacedAt', now, served[1])
        OBVIOUS
      <3>1. ServedSound(replacedAt, now, served[1])
        BY DEF AddressInv, AnswersSound
      <3>2. served[1].at - LookupTTL \in Int /\ served[1].at - LookupTTL <= now
        BY <1>2, <3>1 DEF ServedSound, Address!AddressConstants
      <3>3. served[1].build \in Int /\ UsedAt(replacedAt, served[1].build, served[1].at - LookupTTL)
        BY <3>1, Zenon DEF ServedSound
      <3>4. UsedAt(replacedAt', served[1].build, served[1].at - LookupTTL)
        BY <1>2, <1>3, <3>2, <3>3, UseLasts, SMTT(30)
      <3> QED BY <3>1, <3>4, Zenon DEF ServedSound
    <2> QED BY <1>1, <2>1, <2>2, <2>3, ZenonT(20) DEF AddressInv, AnswersSound
  <1> QED BY <1>5, <1>6, <1>7 DEF AddressInv

\* Nothing of what a crash leaves has been read.
LEMMA CrashKeeps == ASSUME Address!AddressConstants, AddressInv, Address!Crash PROVE AddressInv'
  <1>1. /\ job' = "start" /\ store' = 0 /\ opened' = 0 /\ closed' = {} /\ cache' = <<>> /\ served' = <<>>
        /\ thread' = [t \in Threads |-> Address!Idle]
        /\ UNCHANGED <<now, builds, dirs, current, replacedAt>>
    BY DEF Address!Crash, Address!diskVars
  <1>2. FilesSound'
    BY <1>1, ZenonT(20) DEF AddressInv, FilesSound
  <1>3. StoreSound'
    BY <1>1, IdleSearch DEF AddressInv, StoreSound, Address!AddressConstants
  <1>4. AnswersSound'
    BY <1>1, IdleSearch DEF AddressInv, AnswersSound
  <1> QED BY <1>2, <1>3, <1>4 DEF AddressInv

\* A step of one lookup
LEMMA SearchSteps ==
  ASSUME AddressInv, NEW t \in Threads, NEW l \in Searches,
         thread' = [thread EXCEPT ![t] = l], UNCHANGED <<now, Address!jobVars>>,
         SearchSound(replacedAt, now, l), l.step = "reading" => l.store = store /\ store # 0,
         cache' # <<>> => EntrySound(replacedAt, now, cache'[1]),
         served' # <<>> => ServedSound(replacedAt, now, served'[1])
  PROVE  AddressInv'
  <1>1. UNCHANGED <<now, builds, dirs, current, store, opened, closed, replacedAt, job>>
    BY DEF Address!jobVars, Address!diskVars
  <1>2. thread' \in [Threads -> Searches] /\ thread'[t] = l /\ \A u \in Threads \ {t} : thread'[u] = thread[u]
    BY DEF AddressInv, AnswersSound
  <1>3. FilesSound'
    BY <1>1, SMTT(30) DEF AddressInv, FilesSound
  <1>4. StoreSound'
    BY <1>1, <1>2, SMTT(30) DEF AddressInv, StoreSound
  <1>5. AnswersSound'
    BY <1>1, <1>2 DEF AddressInv, AnswersSound
  <1> QED BY <1>3, <1>4, <1>5 DEF AddressInv

\* A lookup
Search(s, at, v, a) == [step |-> s, at |-> at, store |-> v, answer |-> a]

\* With a step, a time, a store and an answer it is one of the lookups.
LEMMA IsSearch ==
  ASSUME NEW s \in Steps, NEW at \in Nat, NEW v \in Int, NEW a \in Int
  PROVE  /\ Search(s, at, v, a) \in Searches
         /\ Search(s, at, v, a).step = s /\ Search(s, at, v, a).at = at
         /\ Search(s, at, v, a).store = v /\ Search(s, at, v, a).answer = a
  BY DEF Search, Searches

\* A lookup at another step, with another answer or store
LEMMA Moved ==
  ASSUME AnswersSound, NEW t \in Threads, NEW s
  PROVE  [thread EXCEPT ![t].step = s]
           = [thread EXCEPT ![t] = Search(s, thread[t].at, thread[t].store, thread[t].answer)]
  <1>1. thread \in [Threads -> Searches]
    BY DEF AnswersSound
  <1>2. thread[t] = [step |-> thread[t].step, at |-> thread[t].at, store |-> thread[t].store, answer |-> thread[t].answer]
    BY <1>1 DEF Searches
  <1>3. [thread[t] EXCEPT !.step = s] = Search(s, thread[t].at, thread[t].store, thread[t].answer)
    BY <1>2 DEF Search
  <1> QED BY <1>1, <1>3, Zenon

\* With another answer it stays a lookup,
LEMMA MovedAnswer ==
  ASSUME AnswersSound, NEW t \in Threads, NEW s, NEW x,
         thread' = [thread EXCEPT ![t].step = s, ![t].answer = x]
  PROVE  thread' = [thread EXCEPT ![t] = Search(s, thread[t].at, thread[t].store, x)]
  <1> DEFINE l == Search(s, thread[t].at, thread[t].store, thread[t].answer)
             g == [thread EXCEPT ![t] = l]
  <1>1. thread \in [Threads -> Searches]
    BY DEF AnswersSound
  <1>2. [l EXCEPT !.answer = x] = Search(s, thread[t].at, thread[t].store, x)
    BY DEF Search
  <1>3. [thread EXCEPT ![t].step = s] = g
    BY Moved, Zenon
  <1> HIDE DEF l
  <1>4. [g EXCEPT ![t].answer = x] = [thread EXCEPT ![t] = [l EXCEPT !.answer = x]]
    BY <1>1, Zenon
  <1>5. [thread EXCEPT ![t].step = s, ![t].answer = x] = [g EXCEPT ![t].answer = x]
    BY <1>3, Zenon
  <1> HIDE DEF g
  <1> QED BY <1>2, <1>4, <1>5, Zenon

\* and with another store.
LEMMA MovedStore ==
  ASSUME AnswersSound, NEW t \in Threads, NEW s, NEW x
  PROVE  [thread EXCEPT ![t].step = s, ![t].store = x]
           = [thread EXCEPT ![t] = Search(s, thread[t].at, x, thread[t].answer)]
  <1> DEFINE l == Search(s, thread[t].at, thread[t].store, thread[t].answer)
             g == [thread EXCEPT ![t] = l]
  <1>1. thread \in [Threads -> Searches]
    BY DEF AnswersSound
  <1>2. [l EXCEPT !.store = x] = Search(s, thread[t].at, x, thread[t].answer)
    BY DEF Search
  <1>3. [thread EXCEPT ![t].step = s] = g
    BY Moved, Zenon
  <1> HIDE DEF l
  <1>4. [g EXCEPT ![t].store = x] = [thread EXCEPT ![t] = [l EXCEPT !.store = x]]
    BY <1>1, Zenon
  <1>5. [thread EXCEPT ![t].step = s, ![t].store = x] = [g EXCEPT ![t].store = x]
    BY <1>3, Zenon
  <1> HIDE DEF g
  <1> QED BY <1>2, <1>4, <1>5, Zenon

\* A thread is at a lookup.
LEMMA SearchTypes ==
  ASSUME AddressInv, NEW t \in Threads
  PROVE  /\ AnswersSound /\ thread[t].at \in Nat /\ thread[t].at <= now
         /\ thread[t].store \in Int /\ thread[t].answer \in Int
  BY DEF AddressInv, AnswersSound, Searches, SearchSound

\* A step that only moves on
LEMMA StepKeeps ==
  ASSUME AddressInv, NEW t \in Threads, NEW s \in Steps \ {"reading", "set", "write"},
         Address!Step(t, s), cache' \in {cache, <<>>}, served' = served
  PROVE  AddressInv'
  <1> DEFINE l == Search(s, thread[t].at, thread[t].store, thread[t].answer)
  <1>1. thread' = [thread EXCEPT ![t] = l] /\ UNCHANGED <<now, Address!jobVars>>
    BY SearchTypes, Moved, ZenonT(30) DEF Address!Step
  <1>2. l \in Searches /\ l.step = s /\ l.at = thread[t].at
    BY SearchTypes, IsSearch, SMTT(30)
  <1> HIDE DEF l
  <1>3. SearchSound(replacedAt, now, l)
    BY <1>2, SearchTypes DEF SearchSound
  <1>4. /\ cache' # <<>> => EntrySound(replacedAt, now, cache'[1])
        /\ served' # <<>> => ServedSound(replacedAt, now, served'[1])
    BY SMTT(30) DEF AddressInv, AnswersSound
  <1> QED BY <1>1, <1>2, <1>3, <1>4, SearchSteps, Zenon

\* The lookup of a thread, about to enter its answer in the cache
LEMMA SetSearch ==
  ASSUME AddressInv, NEW t \in Threads, NEW s \in {"set", "write"}, NEW a \in Int
  PROVE  /\ Search(s, thread[t].at, thread[t].store, a) \in Searches
         /\ Search(s, thread[t].at, thread[t].store, a).step = s
         /\ Search(s, thread[t].at, thread[t].store, a).at = thread[t].at
         /\ Search(s, thread[t].at, thread[t].store, a).answer = a
  <1>1. s \in Steps
    BY DEF Steps
  <1>2. thread[t].at \in Nat /\ thread[t].store \in Int
    BY SearchTypes
  <1> HIDE DEF AddressInv
  <1> QED
    BY <1>1, <1>2, IsSearch

\* An answer is found, of a build in use if of a build.
LEMMA AnswerKeeps ==
  ASSUME AddressInv, NEW t \in Threads, NEW a \in Int, Address!Answer(t, "set", a),
         UsedAt(replacedAt, a, thread[t].at), UNCHANGED <<cache, served>>
  PROVE  AddressInv'
  <1> DEFINE l == Search("set", thread[t].at, thread[t].store, a)
  <1>1. thread' = [thread EXCEPT ![t] = l] /\ UNCHANGED <<now, Address!jobVars>>
    <2>1. thread' = [thread EXCEPT ![t].step = "set", ![t].answer = a] /\ UNCHANGED <<now, Address!jobVars>>
      BY DEF Address!Answer
    <2>2. thread' = [thread EXCEPT ![t] = l]
      BY <2>1, SearchTypes, MovedAnswer, ZenonT(30)
    <2> QED BY <2>1, <2>2, Zenon
  <1>2. l \in Searches /\ l.step = "set" /\ l.at = thread[t].at /\ l.answer = a
    BY SetSearch, ZenonT(30)
  <1> HIDE DEF l
  <1>3. SearchSound(replacedAt, now, l)
    BY <1>2, SearchTypes DEF SearchSound
  <1>4. /\ cache' # <<>> => EntrySound(replacedAt, now, cache'[1])
        /\ served' # <<>> => ServedSound(replacedAt, now, served'[1])
    BY DEF AddressInv, AnswersSound
  <1> QED BY <1>1, <1>2, <1>3, <1>4, SearchSteps, Zenon

\* An answer is given.
LEMMA ServeKeeps ==
  ASSUME Address!AddressConstants, AddressInv, NEW t \in Threads, NEW a \in Int, Address!Serve(t, a),
         UsedAt(replacedAt, a, thread[t].at - LookupTTL),
         cache' # <<>> => EntrySound(replacedAt, now, cache'[1])
  PROVE  AddressInv'
  <1>1. /\ served' = <<[build |-> a, at |-> thread[t].at]>> /\ thread' = [thread EXCEPT ![t] = Address!Idle]
        /\ UNCHANGED <<now, Address!jobVars>>
    BY DEF Address!Serve
  <1>2. thread[t].at \in Int /\ thread[t].at <= now
    BY SMTT(30) DEF AddressInv, AnswersSound, Searches, SearchSound
  <1>3. served'[1].build = a /\ served'[1].at = thread[t].at
    BY <1>1, ZenonT(20)
  <1>4. ServedSound(replacedAt, now, served'[1])
    BY <1>2, <1>3 DEF ServedSound
  <1>5. SearchSound(replacedAt, now, Address!Idle)
    BY IdleSearch DEF AddressInv, AnswersSound
  <1> QED BY <1>1, <1>4, <1>5, IdleSearch, SearchSteps, Zenon

\* A login starts a lookup.
LEMMA LoginKeeps == ASSUME AddressInv, NEW t \in Threads, Address!Login(t) PROVE AddressInv'
  <1> DEFINE l == [step |-> "get", at |-> now, store |-> 0, answer |-> 0]
  <1>1. thread' = [thread EXCEPT ![t] = l] /\ UNCHANGED <<now, Address!jobVars, cache, served>> /\ now \in Nat
    BY DEF Address!Login, AddressInv, AnswersSound
  <1>3. l \in Searches
    BY <1>1, SMTT(30) DEF Searches, Steps
  <1>4. l.step = "get" /\ l.at = now
    OBVIOUS
  <1> HIDE DEF l
  <1>5. SearchSound(replacedAt, now, l)
    BY <1>1, <1>4 DEF SearchSound
  <1>6. /\ cache' # <<>> => EntrySound(replacedAt, now, cache'[1])
        /\ served' # <<>> => ServedSound(replacedAt, now, served'[1])
    BY <1>1 DEF AddressInv, AnswersSound
  <1> QED BY <1>1, <1>3, <1>4, <1>5, <1>6, SearchSteps, Zenon

\* An entry the cache still gives has not expired.
LEMMA GetKeeps ==
  ASSUME Address!AddressConstants, AddressInv, NEW t \in Threads, Address!Get(t)
  PROVE  AddressInv'
  <1>1. \/ Address!Step(t, "stuck") /\ UNCHANGED <<cache, served>>
        \/ Address!Step(t, "store") /\ UNCHANGED served /\ cache' \in {cache, <<>>}
        \/ cache # <<>> /\ ~Address!Expired(t) /\ cache' = cache /\ Address!Serve(t, cache[1].answer)
    BY Zenon DEF Address!Get, Address!Expired
  <1>2. CASE Address!Step(t, "stuck") /\ UNCHANGED <<cache, served>>
    BY <1>2, StepKeeps DEF Steps
  <1>3. CASE Address!Step(t, "store") /\ UNCHANGED served /\ cache' \in {cache, <<>>}
    BY <1>3, StepKeeps, ZenonT(20) DEF Steps
  <1>4. CASE cache # <<>> /\ ~Address!Expired(t) /\ cache' = cache /\ Address!Serve(t, cache[1].answer)
    <2>1. EntrySound(replacedAt, now, cache[1])
      BY <1>4, ZenonT(20) DEF AddressInv, AnswersSound
    <2>2. cache[1].answer \in Int /\ cache[1].expires \in Int /\ thread[t].at \in Int
      BY <2>1, SMTT(30) DEF EntrySound, AddressInv, AnswersSound, Searches
    <2>3. thread[t].at <= cache[1].expires
      BY <1>4, <2>2, SMTT(30) DEF Address!Expired
    <2>4. /\ thread[t].at - LookupTTL \in Int /\ cache[1].expires - LookupTTL \in Int
          /\ thread[t].at - LookupTTL <= cache[1].expires - LookupTTL
      BY <2>2, <2>3, SMTT(30) DEF Address!AddressConstants
    <2>5. UsedAt(replacedAt, cache[1].answer, thread[t].at - LookupTTL)
      BY <2>1, <2>2, <2>4, UsedEarlier DEF EntrySound, AddressInv, StoreSound
    <2> QED BY <1>4, <2>1, <2>2, <2>5, ServeKeeps, ZenonT(20)
  <1> QED BY <1>1, <1>2, <1>3, <1>4

\* A lookup takes the store that is in place, under the lock that the swap waits for.
LEMMA RLockKeeps == ASSUME Address!AddressConstants, AddressInv, NEW t \in Threads, Address!RLock(t) PROVE AddressInv'
  <1> DEFINE s == IF store = 0 THEN "dns" ELSE "reading"
             l == Search(s, thread[t].at, store, thread[t].answer)
  <1>1. thread' = [thread EXCEPT ![t].step = s, ![t].store = store] /\ UNCHANGED <<now, Address!jobVars, cache, served>>
    BY ZenonT(20) DEF Address!RLock
  <1>2. s \in Steps /\ (s = "reading" => store # 0) /\ s \notin {"set", "write"} /\ store \in Int
    BY DEF Steps, AddressInv, StoreSound, Address!AddressConstants
  <1> HIDE DEF s
  <1>3. thread' = [thread EXCEPT ![t] = l]
    <2>1. [thread EXCEPT ![t].step = s, ![t].store = store] = [thread EXCEPT ![t] = l]
      BY SearchTypes, MovedStore, ZenonT(30)
    <2> QED BY <1>1, <2>1, Zenon
  <1>4. l \in Searches /\ l.step = s /\ l.at = thread[t].at /\ l.store = store
    BY <1>2, SearchTypes, IsSearch, SMTT(30)
  <1> HIDE DEF l
  <1>5. SearchSound(replacedAt, now, l)
    BY <1>2, <1>4, SearchTypes DEF SearchSound
  <1>6. /\ cache' # <<>> => EntrySound(replacedAt, now, cache'[1])
        /\ served' # <<>> => ServedSound(replacedAt, now, served'[1])
    BY <1>1, ZenonT(20) DEF AddressInv, AnswersSound
  <1> QED BY <1>1, <1>2, <1>3, <1>4, <1>5, <1>6, SearchSteps, Zenon

\* It reads that store and releases the lock.
LEMMA ReadKeeps == ASSUME Address!AddressConstants, AddressInv, NEW t \in Threads, Address!Read(t) PROVE AddressInv'
  <1>1. CASE Address!Step(t, "dns")
    BY <1>1, StepKeeps, ZenonT(20) DEF Address!Read, Steps
  <1>2. CASE Address!Answer(t, "set", thread[t].store)
    <2>1. thread[t].step = "reading" /\ UNCHANGED <<cache, served>>
      BY ZenonT(20) DEF Address!Read
    <2>2. thread[t].store = store /\ store # 0 /\ store \in 0 .. MaxBuilds /\ replacedAt[store] = -1
      BY <2>1 DEF AddressInv, StoreSound
    <2>3. store \in Int /\ UsedAt(replacedAt, store, thread[t].at)
      BY <2>2, SMTT(30) DEF UsedAt, Address!Builds, Address!AddressConstants
    <2> QED BY <1>2, <2>1, <2>2, <2>3, AnswerKeeps, ZenonT(20)
  <1> QED BY <1>1, <1>2, ZenonT(20) DEF Address!Read

\* Cymru and the API answer, in time or not; nothing of theirs is a build.
LEMMA OutsideKeeps ==
  ASSUME Address!AddressConstants, AddressInv, NEW t \in Threads, Address!LookupCymru(t) \/ Address!LookupApi(t)
  PROVE  AddressInv'
  <1>1. \/ Address!Answer(t, "set", Address!Cymru) /\ UNCHANGED <<cache, served>>
        \/ Address!Step(t, "api") /\ UNCHANGED <<cache, served>>
        \/ Address!Answer(t, "set", Address!Api) /\ UNCHANGED <<cache, served>>
        \/ Address!Serve(t, Address!Unknown) /\ UNCHANGED cache
    BY Zenon DEF Address!LookupCymru, Address!LookupApi
  <1>2. \A v \in {Address!Cymru, Address!Api, Address!Unknown} : v \in Int /\ \A times, time : UsedAt(times, v, time)
    BY DEF Address!Cymru, Address!Api, Address!Unknown, UsedAt
  <1>3. cache # <<>> => EntrySound(replacedAt, now, cache[1])
    BY DEF AddressInv, AnswersSound
  <1>4. CASE Address!Answer(t, "set", Address!Cymru) /\ UNCHANGED <<cache, served>>
    BY <1>2, <1>4, AnswerKeeps, SMTT(30)
  <1>5. CASE Address!Step(t, "api") /\ UNCHANGED <<cache, served>>
    BY <1>5, StepKeeps, SMTT(30) DEF Steps
  <1>6. CASE Address!Answer(t, "set", Address!Api) /\ UNCHANGED <<cache, served>>
    BY <1>2, <1>6, AnswerKeeps, SMTT(30)
  <1>7. CASE Address!Serve(t, Address!Unknown) /\ UNCHANGED cache
    BY <1>2, <1>3, <1>7, ServeKeeps, Zenon
  <1> QED BY <1>1, <1>4, <1>5, <1>6, <1>7

\* The answer is written to the cache with its time, by a goroutine that holds the mutex.
LEMMA SetKeeps ==
  ASSUME Address!AddressConstants, AddressInv, NEW t \in Threads, Address!SetLock(t) \/ Address!SetWrite(t)
  PROVE  AddressInv'
  <1>1. thread[t].at <= now /\ thread[t].step \in {"set", "write"}
    BY SearchTypes, Zenon DEF Address!SetLock, Address!SetWrite
  <1>2. UsedAt(replacedAt, thread[t].answer, thread[t].at) /\ thread[t].answer \in Int /\ thread[t].at \in Nat
    BY <1>1, SearchTypes DEF AnswersSound, SearchSound
  <1>3. CASE Address!SetLock(t)
    <2> DEFINE l == Search("write", thread[t].at, thread[t].store, thread[t].answer)
    <2>1. thread' = [thread EXCEPT ![t] = l] /\ UNCHANGED <<now, Address!jobVars, cache, served>>
      BY <1>3, SearchTypes, Moved, ZenonT(30) DEF Address!SetLock, Address!Step
    <2>2. l \in Searches /\ l.step = "write" /\ l.at = thread[t].at /\ l.answer = thread[t].answer
      BY <1>2, SetSearch, ZenonT(30)
    <2> HIDE DEF l
    <2>3. SearchSound(replacedAt, now, l)
      BY <1>1, <1>2, <2>2, Zenon DEF SearchSound
    <2>4. /\ cache' # <<>> => EntrySound(replacedAt, now, cache'[1])
          /\ served' # <<>> => ServedSound(replacedAt, now, served'[1])
      BY <2>1, SMTT(30) DEF AddressInv, AnswersSound
    <2> QED BY <2>1, <2>2, <2>3, <2>4, SearchSteps, Zenon
  <1>4. CASE Address!SetWrite(t)
    <2> DEFINE a == thread[t].answer
               fetched == IF a > 0 THEN builtAt[a] ELSE thread[t].at
               e == [answer |-> a, expires |-> thread[t].at + LookupTTL, fetched |-> fetched]
    <2>1. cache' = <<e>> /\ Address!Serve(t, a)
      BY <1>4, ZenonT(30) DEF Address!SetWrite
    <2>2. e.answer = a /\ e.expires = thread[t].at + LookupTTL
      BY Zenon
    <2> HIDE DEF e
    <2>3. \A x, y : x \in Nat /\ y = x + LookupTTL => y \in Int /\ y - LookupTTL = x
      BY SMTT(30) DEF Address!AddressConstants
    <2>4. EntrySound(replacedAt, now, cache'[1])
      <3>1. cache'[1] = e
        BY <2>1, Zenon
      <3>2. e.expires \in Int /\ e.expires - LookupTTL = thread[t].at
        BY <1>2, <2>2, <2>3, Zenon
      <3> QED BY <1>1, <1>2, <2>2, <3>1, <3>2, ZenonT(30) DEF EntrySound
    <2>5. \A x \in Nat : x - LookupTTL \in Int /\ x - LookupTTL <= x /\ x \in Int
      BY SMTT(30) DEF Address!AddressConstants
    <2>6. UsedAt(replacedAt, a, thread[t].at - LookupTTL)
      <3>1. replacedAt \in [Address!Builds -> Int]
        BY Zenon DEF AddressInv, StoreSound
      <3> QED BY <1>2, <2>5, <3>1, UsedEarlier, ZenonT(30)
    <2> QED BY <1>2, <2>1, <2>4, <2>6, ServeKeeps, ZenonT(30)
  <1> QED BY <1>3, <1>4, SMTT(30)

\* The inductive invariant holds in every reachable state, for any number of threads, builds
\* and crashes (lookupIP, downloadLoop).
THEOREM AddressInvariant == ASSUME Address!AddressConstants PROVE Address!Spec => []AddressInv
  <1>1. Address!Init => AddressInv
    BY AddressInit
  <1>2. AddressInv /\ [Address!Next]_(Address!vars) => AddressInv'
    <2> SUFFICES ASSUME AddressInv, [Address!Next]_(Address!vars) PROVE AddressInv'
      BY ZenonT(20)
    <2>1. CASE Address!CymruWorker \/ UNCHANGED Address!vars
      <3>1. UNCHANGED <<now, builds, dirs, current, store, opened, closed, replacedAt, job, thread, cache, served>>
        BY <2>1 DEF Address!CymruWorker, Address!vars, Address!jobVars, Address!diskVars
      <3> QED BY <3>1, ZenonT(20) DEF AddressInv, FilesSound, StoreSound, AnswersSound
    <2>2. ASSUME NEW t \in Threads, Address!Login(t) \/ Address!Lookup(t) PROVE AddressInv'
      BY <2>2, LoginKeeps, GetKeeps, RLockKeeps, ReadKeeps, OutsideKeeps, SetKeeps DEF Address!Lookup
    <2> QED BY <2>1, <2>2, TickKeeps, FilesKeep, SwapKeeps, CrashKeeps DEF Address!Next, Address!Refresh
  <1> QED BY <1>1, <1>2, PTL DEF Address!Spec

\* No lookup reads a closed database, and an answer is of a build that was in use at most the
\* lifetime of a cache entry before (lookupIP, LoadStore).
THEOREM LookupsSound == ASSUME Address!AddressConstants PROVE Address!Spec => []Address!LookupsAreSound
  <1>1. AddressInv => Address!LookupsAreSound
    <2> SUFFICES ASSUME AddressInv PROVE Address!LookupsAreSound
      BY ZenonT(20)
    <2>1. \A t \in Address!Reading : thread[t].store \notin closed
      BY DEF AddressInv, StoreSound, Address!Reading
    <2>2. current # 0 => current \in DOMAIN dirs /\ dirs[current] = "whole"
      BY SMTT(30) DEF AddressInv, FilesSound
    <2>3. ASSUME served # <<>>, served[1].build > 0
          PROVE  replacedAt[served[1].build] = -1 \/ served[1].at - replacedAt[served[1].build] <= LookupTTL
      <3>1. ServedSound(replacedAt, now, served[1])
        BY <2>3, ZenonT(20) DEF AddressInv, AnswersSound
      <3>2. served[1].build \in Address!Builds /\ served[1].at \in Int /\ replacedAt[served[1].build] \in Int
        BY <2>3, <3>1, ZenonT(20) DEF ServedSound, UsedAt, AddressInv, StoreSound
      <3>3. replacedAt[served[1].build] = -1 \/ replacedAt[served[1].build] >= served[1].at - LookupTTL
        BY <2>3, <3>1 DEF ServedSound, UsedAt
      <3> QED BY <3>2, <3>3, SMTT(30) DEF Address!AddressConstants
    <2> QED BY <2>1, <2>2, <2>3, Zenon DEF Address!LookupsAreSound
  <1> QED BY <1>1, AddressInvariant, PTL
=============================================================================
