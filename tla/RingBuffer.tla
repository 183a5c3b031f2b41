----------------------------- MODULE RingBuffer -----------------------------
(***************************************************************************)
(* The lock-free ring of recent spots (buffer/ringbuffer.go), written by   *)
(* the output pipeline (main.go, processOutputSpots).  Its two queries are *)
(* safe for many readers; the SHOW DX and SHOW MYDX commands, handed the   *)
(* ring at startup, ask the archive only (Archive).                        *)
(*                                                                         *)
(* A spot is known by the ID that Add gives it.  Add claims an ID and then *)
(* stores the pointer; a reader loads the counter and then one slot after  *)
(* the other.  Once it has added a spot the pipeline may go on writing to  *)
(* it: the metadata refresh and the grid backfill.                         *)
(***************************************************************************)
EXTENDS Integers, Sequences

CONSTANTS
  Capacity,
  Multiplier, ScanMax,  \* recentFilterMultiplier, recentFilterMax
  Readers,
  Limits,               \* the n a reader asks for
  Matching,             \* the spots that satisfy the predicate of a filtered query
  MaxSpots              \* bound: spots added

ASSUME RingConstants ==
  /\ Capacity \in Nat \ {0} /\ Multiplier \in Nat \ {0} /\ ScanMax \in Nat \ {0}
  /\ Limits \subseteq Nat \ {0} /\ MaxSpots \in Nat /\ Matching \subseteq 1 .. MaxSpots

Ids == 1 .. MaxSpots
Slots == 0 .. (Capacity - 1)

VARIABLES
  total, slots,       \* the ring; an empty slot holds 0
  wpc,                \* the pipeline: "idle", "claimed", "added", "refreshing"
  rpc,                \* each reader: "idle" or "scan"
  seen, stored,       \* the total it loaded; history: the spots stored by then
  filtered, n, idx, scanned, result

ring == <<total, slots>>
query == <<seen, stored, filtered, n>>
vars == <<ring, wpc, rpc, query, idx, scanned, result>>

-----------------------------------------------------------------------------
Min2(a, b) == IF a < b THEN a ELSE b

\* The spots whose Add has returned
Published == IF wpc = "claimed" THEN total - 1 ELSE total

Init ==
  /\ total = 0 /\ slots = [i \in Slots |-> 0] /\ wpc = "idle"
  /\ rpc = [r \in Readers |-> "idle"]
  /\ seen = [r \in Readers |-> 0] /\ stored = [r \in Readers |-> 0]
  /\ filtered = [r \in Readers |-> FALSE] /\ n = [r \in Readers |-> 0]
  /\ idx = [r \in Readers |-> 0] /\ scanned = [r \in Readers |-> 0]
  /\ result = [r \in Readers |-> <<>>]

\* Add: newID := rb.total.Add(1)
Claim ==
  /\ wpc = "idle" /\ total < MaxSpots
  /\ total' = total + 1 /\ wpc' = "claimed"
  /\ UNCHANGED <<slots, rpc, query, idx, scanned, result>>

SlotOf(id) == (id - 1) % Capacity

\* Add: rb.slots[idx].Store(s)
Store ==
  /\ wpc = "claimed"
  /\ slots' = [slots EXCEPT ![SlotOf(total)] = total] /\ wpc' = "added"
  /\ UNCHANGED <<total, rpc, query, idx, scanned, result>>

\* The pipeline goes on with the spot it has added, writing to it or not.
Refresh ==
  /\ wpc = "added" /\ wpc' = "refreshing"
  /\ UNCHANGED <<ring, rpc, query, idx, scanned, result>>

Finish ==
  /\ wpc \in {"added", "refreshing"} /\ wpc' = "idle"
  /\ UNCHANGED <<ring, rpc, query, idx, scanned, result>>

\* Mutant: the walk starts one spot too late.
MutGetRecent(r, limit, f) ==
  /\ rpc[r] = "idle" /\ total > 0
  /\ rpc' = [rpc EXCEPT ![r] = "scan"]
  /\ seen' = [seen EXCEPT ![r] = total] /\ stored' = [stored EXCEPT ![r] = Published]
  /\ n' = [n EXCEPT ![r] = Min2(limit, Min2(total, Capacity))]
  /\ filtered' = [filtered EXCEPT ![r] = f]
  /\ idx' = [idx EXCEPT ![r] = total - 1]
  /\ scanned' = [scanned EXCEPT ![r] = 0]
  /\ result' = [result EXCEPT ![r] = <<>>]
  /\ UNCHANGED <<ring, wpc>>

\* GetRecent and GetRecentFiltered up to their loops
GetRecent(r, limit, f) ==
  /\ rpc[r] = "idle"
  /\ rpc' = [rpc EXCEPT ![r] = "scan"]
  /\ seen' = [seen EXCEPT ![r] = total] /\ stored' = [stored EXCEPT ![r] = Published]
  /\ n' = [n EXCEPT ![r] = Min2(limit, Min2(total, Capacity))]
  /\ filtered' = [filtered EXCEPT ![r] = f]
  /\ idx' = [idx EXCEPT ![r] = total]
  /\ scanned' = [scanned EXCEPT ![r] = 0]
  /\ result' = [result EXCEPT ![r] = <<>>]
  /\ UNCHANGED <<ring, wpc>>

ScanLimit(r) == IF filtered[r] THEN Min2(n[r] * Multiplier, ScanMax) ELSE Capacity

\* The condition of the loop
More(r) ==
  /\ idx[r] > seen[r] - Min2(seen[r], Capacity)
  /\ Len(result[r]) < n[r]
  /\ scanned[r] < ScanLimit(r)

\* Mutant: the ID check is gone.
MutTaken(r) == slots[SlotOf(idx[r])] # 0 /\ (filtered[r] => slots[SlotOf(idx[r])] \in Matching)

\* The slot still holds the spot the reader is after, and the spot matches.
Taken(r) == slots[SlotOf(idx[r])] = idx[r] /\ (filtered[r] => idx[r] \in Matching)

\* One round of the loop
Scan(r) ==
  /\ rpc[r] = "scan" /\ More(r)
  /\ result' = [result EXCEPT ![r] = IF Taken(r) THEN Append(@, slots[SlotOf(idx[r])]) ELSE @]
  /\ idx' = [idx EXCEPT ![r] = @ - 1]
  /\ scanned' = [scanned EXCEPT ![r] = @ + 1]
  /\ UNCHANGED <<ring, wpc, rpc, query>>

Return(r) ==
  /\ rpc[r] = "scan" /\ ~More(r)
  /\ rpc' = [rpc EXCEPT ![r] = "idle"]
  /\ UNCHANGED <<ring, wpc, query, idx, scanned, result>>

Next ==
  \/ Claim
  \/ Store
  \/ Refresh
  \/ Finish
  \/ \E r \in Readers, limit \in Limits, f \in BOOLEAN : GetRecent(r, limit, f)
  \/ \E r \in Readers : Scan(r) \/ Return(r)

Spec == Init /\ [][Next]_vars
-----------------------------------------------------------------------------
TypeOK ==
  /\ total \in 0 .. MaxSpots /\ slots \in [Slots -> 0 .. MaxSpots]
  /\ wpc \in {"idle", "claimed", "added", "refreshing"}
  /\ (wpc # "idle" => total > 0)
  /\ rpc \in [Readers -> {"idle", "scan"}]
  /\ seen \in [Readers -> 0 .. MaxSpots] /\ stored \in [Readers -> 0 .. MaxSpots]
  /\ filtered \in [Readers -> BOOLEAN] /\ n \in [Readers -> 0 .. Capacity]
  /\ idx \in [Readers -> 0 .. MaxSpots] /\ scanned \in [Readers -> 0 .. Capacity]
  /\ result \in [Readers -> Seq(Ids)]

\* The newest Capacity spots whose Add has returned are in their slots, also
\* between the two steps of a further Add (Add claims the ID before it stores).
NewestAreKept ==
  \A id \in Ids : (id <= Published /\ id > Published - Capacity) => slots[SlotOf(id)] = id

\* A query answers with the newest spots first, none twice, none older than the
\* ring held when the query began and none added later, although the pipeline
\* overwrites slots while the query walks them (GetRecent, the ID check).
NewestFirst ==
  \A r \in Readers :
     /\ \A i, j \in 1 .. Len(result[r]) : i < j => result[r][i] > result[r][j]
     /\ \A i \in 1 .. Len(result[r]) :
           result[r][i] > seen[r] - Capacity /\ result[r][i] <= seen[r]

In(s, e) == \E i \in 1 .. Len(s) : s[i] = e

\* A query misses no spot: one that was stored when the query began, that matches and
\* that the walk has passed is in the answer, unless a later spot has taken
\* its place in the meantime (GetRecent, GetRecentFiltered).
NothingMissed ==
  \A r \in Readers : \A id \in Ids :
     (id > idx[r] /\ id <= stored[r] /\ (filtered[r] => id \in Matching))
        => (In(result[r], id) \/ id <= total - Capacity)

\* Where a walk stands: it has looked at one slot for each spot it has passed, and
\* what it has picked up is newer than what it will look at next.
WalkInv ==
  \A r \in Readers :
     /\ stored[r] <= seen[r] /\ seen[r] <= total /\ stored[r] <= Published
     /\ idx[r] <= seen[r] /\ idx[r] >= seen[r] - Capacity
     /\ scanned[r] = seen[r] - idx[r]
     /\ \A i \in 1 .. Len(result[r]) : result[r][i] > idx[r] /\ result[r][i] <= seen[r]
     /\ \A i, j \in 1 .. Len(result[r]) : i < j => result[r][i] > result[r][j]
=============================================================================
