-------------------------- MODULE ReservoirLemmas ---------------------------
(***************************************************************************)
(* What the operators of ReservoirOps do to a reservoir value, whoever     *)
(* calls them: every one keeps its types and its capacity accounting, and  *)
(* makes of its table what the last part says.  The proofs about the       *)
(* reservoir, the adapter and the process rest on these lemmas.            *)
(***************************************************************************)
EXTENDS ReservoirOps, FiniteSetTheorems, TLAPS

-----------------------------------------------------------------------------
(* Counting bytes.                                                         *)

\* The ids up to a mark, and the bytes of a row, are finitely many.
LEMMA IntervalFinite ==
  ASSUME NEW n \in Nat
  PROVE  IsFiniteSet(1..n)
<1>1. 1 \in Int /\ n \in Int
  OBVIOUS
<1>2. QED
  BY <1>1, FS_Interval, Zenon

\* A finite set of rows holds finitely many bytes.
LEMMA ByteUnitsFinite ==
  ASSUME NEW rows, NEW S, IsFiniteSet(S), \A i \in S : rows[i].bytes \in Nat
  PROVE  /\ IsFiniteSet(ByteUnits(rows, S))
         /\ TotalBytes(rows, S) \in Nat
<1> DEFINE f == [i \in S |-> {i} \X (1..rows[i].bytes)]
           T == {{i} \X (1..rows[i].bytes) : i \in S}
<1>1. f \in Surjection(S, T)
  BY DEF Surjection
<1>2. IsFiniteSet(T)
  BY <1>1, FS_Surjection
<1>3. ASSUME NEW i \in S  PROVE IsFiniteSet({i} \X (1..rows[i].bytes))
  <2>1. IsFiniteSet({i})
    BY FS_Singleton
  <2>2. rows[i].bytes \in Nat
    OBVIOUS
  <2>3. IsFiniteSet(1..rows[i].bytes)
    BY <2>2, IntervalFinite
  <2>4. QED
    BY <2>1, <2>3, FS_Product
<1>4. \A t \in T : IsFiniteSet(t)
  BY <1>3
<1>5. IsFiniteSet(UNION T)
  BY <1>2, <1>4, FS_UNION
<1>6. QED
  BY <1>5, FS_CardinalityType DEF ByteUnits, TotalBytes

\* The bytes of disjoint sets of rows add up.
LEMMA TotalBytesUnion ==
  ASSUME NEW rows, NEW S, NEW T, IsFiniteSet(S), IsFiniteSet(T),
         S \cap T = {}, \A i \in S \cup T : rows[i].bytes \in Nat
  PROVE  TotalBytes(rows, S \cup T) = TotalBytes(rows, S) + TotalBytes(rows, T)
<1>1. ByteUnits(rows, S \cup T) = ByteUnits(rows, S) \cup ByteUnits(rows, T)
  BY DEF ByteUnits
<1>2. ByteUnits(rows, S) \cap ByteUnits(rows, T) = {}
  <2> SUFFICES ASSUME NEW u \in ByteUnits(rows, S), u \in ByteUnits(rows, T)
               PROVE  FALSE
    OBVIOUS
  <2>1. PICK i \in S : u \in {i} \X (1..rows[i].bytes)
    BY DEF ByteUnits
  <2>2. PICK j \in T : u \in {j} \X (1..rows[j].bytes)
    BY DEF ByteUnits
  <2>3. u[1] = i /\ u[1] = j
    BY <2>1, <2>2
  <2>4. QED
    BY <2>3
<1>3. IsFiniteSet(ByteUnits(rows, S)) /\ IsFiniteSet(ByteUnits(rows, T))
  BY ByteUnitsFinite
<1>4. TotalBytes(rows, S) \in Nat /\ TotalBytes(rows, T) \in Nat
  BY ByteUnitsFinite
<1>5. Cardinality(ByteUnits(rows, S) \cap ByteUnits(rows, T)) = 0
  BY <1>2, FS_EmptySet
<1>6. Cardinality(ByteUnits(rows, S) \cup ByteUnits(rows, T)) =
        Cardinality(ByteUnits(rows, S)) + Cardinality(ByteUnits(rows, T))
          - Cardinality(ByteUnits(rows, S) \cap ByteUnits(rows, T))
  BY <1>3, FS_Union
<1>7. TotalBytes(rows, S \cup T) =
        Cardinality(ByteUnits(rows, S) \cup ByteUnits(rows, T))
  BY <1>1 DEF TotalBytes
<1>8. /\ TotalBytes(rows, S) = Cardinality(ByteUnits(rows, S))
      /\ TotalBytes(rows, T) = Cardinality(ByteUnits(rows, T))
  BY DEF TotalBytes
<1>9. QED
  BY <1>4, <1>5, <1>6, <1>7, <1>8

\* One row holds as many bytes as its serialized event.
LEMMA TotalBytesOne ==
  ASSUME NEW rows, NEW i, rows[i].bytes \in Nat
  PROVE  TotalBytes(rows, {i}) = rows[i].bytes
<1>1. ByteUnits(rows, {i}) = {i} \X (1..rows[i].bytes)
  BY DEF ByteUnits
<1>2. IsFiniteSet({i}) /\ Cardinality({i}) = 1
  BY FS_Singleton
<1>3. rows[i].bytes \in Int /\ 1 \in Int
  OBVIOUS
<1>4. /\ IsFiniteSet(1..rows[i].bytes)
      /\ Cardinality(1..rows[i].bytes) =
           IF 1 > rows[i].bytes THEN 0 ELSE rows[i].bytes - 1 + 1
  BY <1>3, FS_Interval
<1>5. Cardinality({i} \X (1..rows[i].bytes)) = 1 * Cardinality(1..rows[i].bytes)
  BY <1>2, <1>4, FS_Product
<1>6. Cardinality(1..rows[i].bytes) = rows[i].bytes
  BY <1>3, <1>4
<1>7. TotalBytes(rows, {i}) = Cardinality({i} \X (1..rows[i].bytes))
  BY <1>1 DEF TotalBytes
<1>8. QED
  BY <1>3, <1>5, <1>6, <1>7

\* Only the byte column matters.
LEMMA TotalBytesSame ==
  ASSUME NEW rows, NEW other, NEW S, \A i \in S : rows[i].bytes = other[i].bytes
  PROVE  TotalBytes(rows, S) = TotalBytes(other, S)
BY DEF TotalBytes, ByteUnits

-----------------------------------------------------------------------------
(* Reservoir values.                                                       *)

Good(r) == IsReservoir(r) /\ AccountingMatches(r)

\* How far the cached count is from the persisted one.
Drift(r) == r.cached - r.pendingRows

\* What the type of a reservoir value says about its table.
LEMMA ReservoirFacts ==
  ASSUME NEW r, IsReservoir(r)
  PROVE  /\ r.rows \in [DOMAIN r.rows -> Row]
         /\ DOMAIN r.rows \subseteq 1..r.seq
         /\ \A ids \in SUBSET DOMAIN r.rows : IsFiniteSet(ids)
         /\ \A i \in DOMAIN r.rows : r.rows[i].bytes \in Nat
<1>1. /\ r.rows \in [DOMAIN r.rows -> Row]
      /\ DOMAIN r.rows \subseteq 1..r.seq
  BY DEF IsReservoir, IsTable
<1>2. r.seq \in Nat
  BY DEF IsReservoir
<1>3. IsFiniteSet(1..r.seq)
  BY <1>2, IntervalFinite
<1>4. \A ids \in SUBSET DOMAIN r.rows : IsFiniteSet(ids)
  BY <1>1, <1>3, FS_Subset
<1>5. QED
  BY <1>1, <1>4 DEF Row

\* A table over ids below the mark has the type of tables.
LEMMA TableType ==
  ASSUME NEW n \in Nat, NEW ids \in SUBSET (1..n), NEW t \in [ids -> Row]
  PROVE  IsTable(t, n)
BY DEF IsTable

\* A reservoir value written out, so that its updates can be computed.
LEMMA WithRows ==
  ASSUME NEW r, IsReservoir(r), NEW t
  PROVE  [r EXCEPT !.rows = t] =
           [rows |-> t, seq |-> r.seq, pendingRows |-> r.pendingRows,
            pendingBytes |-> r.pendingBytes, cached |-> r.cached]
BY DEF IsReservoir

LEMMA AdjustFields ==
  ASSUME NEW r, IsReservoir(r), NEW t, NEW dr \in Int, NEW db \in Int
  PROVE  AdjustCapacity([r EXCEPT !.rows = t], dr, db) =
           [rows |-> t, seq |-> r.seq, pendingRows |-> r.pendingRows + dr,
            pendingBytes |-> r.pendingBytes + db, cached |-> r.cached + dr]
<1> DEFINE s == r.seq
           p == r.pendingRows
           b == r.pendingBytes
           c == r.cached
           q0 == [rows |-> t, seq |-> s, pendingRows |-> p,
                  pendingBytes |-> b, cached |-> c]
           q1 == [rows |-> t, seq |-> s, pendingRows |-> p + dr,
                  pendingBytes |-> b, cached |-> c]
           q2 == [rows |-> t, seq |-> s, pendingRows |-> p + dr,
                  pendingBytes |-> b + db, cached |-> c]
           q3 == [rows |-> t, seq |-> s, pendingRows |-> p + dr,
                  pendingBytes |-> b + db, cached |-> c + dr]
<1>1. [r EXCEPT !.rows = t] = q0
  BY WithRows
<1> HIDE DEF s, p, b, c
<1>2. [q0 EXCEPT !.pendingRows = @ + dr] = q1
  OBVIOUS
<1>3. [q1 EXCEPT !.pendingBytes = @ + db] = q2
  OBVIOUS
<1>4. [q2 EXCEPT !.cached = @ + dr] = q3
  OBVIOUS
<1>5. AdjustCapacity(q0, dr, db)
        = [[[q0 EXCEPT !.pendingRows = @ + dr] EXCEPT !.pendingBytes = @ + db]
             EXCEPT !.cached = @ + dr]
  BY DEF AdjustCapacity
<1>6. AdjustCapacity(q0, dr, db) = q3
  BY <1>2, <1>3, <1>4, <1>5
<1> HIDE DEF q0, q3
<1>7. AdjustCapacity([r EXCEPT !.rows = t], dr, db) = q3
  BY <1>1, <1>6
<1>8. QED
  BY <1>7 DEF q3, s, p, b, c

\* The heart of the accounting: the delta that MoveRows applies, read before
\* the update, is exactly the change of the pending rows and bytes.
LEMMA MoveRowsGood ==
  ASSUME NEW r, Good(r), NEW ids \in SUBSET DOMAIN r.rows,
         NEW next \in ReplayStates, NEW moved \in [DOMAIN r.rows -> Row],
         \A i \in DOMAIN r.rows :
           /\ moved[i].bytes = r.rows[i].bytes
           /\ moved[i].state = IF i \in ids THEN next ELSE r.rows[i].state
  PROVE  /\ Good(MoveRows(r, ids, next, moved))
         /\ Drift(MoveRows(r, ids, next, moved)) = Drift(r)
<1> DEFINE before == InState(r.rows, PendingStates)
           after == InState(moved, PendingStates)
           flips == {i \in ids : (r.rows[i].state \in PendingStates)
                                   # (next \in PendingStates)}
           sign == IF next \in PendingStates THEN 1 ELSE -1
           m == MoveRows(r, ids, next, moved)
<1>1. /\ IsReservoir(r) /\ r.pendingRows = Cardinality(before)
      /\ r.pendingBytes = TotalBytes(r.rows, before)
  BY DEF Good, AccountingMatches
<1>2. /\ IsFiniteSet(before) /\ IsFiniteSet(after) /\ IsFiniteSet(flips)
      /\ before \subseteq DOMAIN r.rows /\ flips \subseteq DOMAIN r.rows
      /\ after \subseteq DOMAIN r.rows
      /\ \A i \in DOMAIN r.rows : r.rows[i].bytes \in Nat
  <2>1. /\ before \in SUBSET DOMAIN r.rows
        /\ after \in SUBSET DOMAIN r.rows
        /\ flips \in SUBSET DOMAIN r.rows
    BY DEF InState
  <2>2. QED
    BY <1>1, <2>1, ReservoirFacts
<1>3. /\ Cardinality(before) \in Nat /\ Cardinality(flips) \in Nat
      /\ TotalBytes(r.rows, before) \in Nat /\ TotalBytes(r.rows, flips) \in Nat
  BY <1>2, FS_CardinalityType, ByteUnitsFinite
<1>4. /\ Cardinality(after) = Cardinality(before) + sign * Cardinality(flips)
      /\ TotalBytes(r.rows, after)
           = TotalBytes(r.rows, before) + sign * TotalBytes(r.rows, flips)
  <2>1. CASE next \in PendingStates
    <3>1. after = before \cup flips /\ before \cap flips = {}
      BY <2>1, <1>2 DEF InState
    <3>2. Cardinality(after) = Cardinality(before) + Cardinality(flips)
      <4>1. Cardinality(before \cap flips) = 0
        BY <3>1, FS_EmptySet
      <4>2. Cardinality(before \cup flips) = Cardinality(before)
              + Cardinality(flips) - Cardinality(before \cap flips)
        BY <1>2, FS_Union
      <4>3. QED
        BY <3>1, <4>1, <4>2, <1>3
    <3>3. TotalBytes(r.rows, after)
            = TotalBytes(r.rows, before) + TotalBytes(r.rows, flips)
      BY <3>1, <1>2, TotalBytesUnion
    <3>4. sign = 1
      BY <2>1
    <3>5. QED
      BY <3>2, <3>3, <3>4, <1>3
  <2>2. CASE next \notin PendingStates
    <3>1. before = after \cup flips /\ after \cap flips = {}
      BY <2>2, <1>2 DEF InState
    <3>2. /\ Cardinality(after) \in Nat /\ TotalBytes(r.rows, after) \in Nat
      BY <1>2, FS_CardinalityType, ByteUnitsFinite
    <3>3. Cardinality(before) = Cardinality(after) + Cardinality(flips)
      <4>1. Cardinality(after \cap flips) = 0
        BY <3>1, FS_EmptySet
      <4>2. Cardinality(after \cup flips) = Cardinality(after)
              + Cardinality(flips) - Cardinality(after \cap flips)
        BY <1>2, FS_Union
      <4>3. QED
        BY <3>1, <3>2, <4>1, <4>2, <1>3
    <3>4. TotalBytes(r.rows, before)
            = TotalBytes(r.rows, after) + TotalBytes(r.rows, flips)
      BY <3>1, <1>2, TotalBytesUnion
    <3>5. sign = -1
      BY <2>2
    <3>6. QED
      BY <3>2, <3>3, <3>4, <3>5, <1>3
  <2>3. QED
    BY <2>1, <2>2
<1>5. TotalBytes(moved, after) = TotalBytes(r.rows, after)
  BY <1>2, TotalBytesSame
<1>6. /\ r.seq \in Nat /\ r.pendingRows \in Int /\ r.pendingBytes \in Int
      /\ r.cached \in Int
  BY <1>1 DEF IsReservoir
<1>7. m = [rows |-> moved, seq |-> r.seq,
           pendingRows |-> r.pendingRows + sign * Cardinality(flips),
           pendingBytes |-> r.pendingBytes + sign * TotalBytes(r.rows, flips),
           cached |-> r.cached + sign * Cardinality(flips)]
  <2>1. m = AdjustCapacity([r EXCEPT !.rows = moved], sign * Cardinality(flips),
                           sign * TotalBytes(r.rows, flips))
    BY DEF MoveRows
  <2>2. /\ sign * Cardinality(flips) \in Int
        /\ sign * TotalBytes(r.rows, flips) \in Int
    BY <1>3
  <2>3. \A dr, db \in Int :
          AdjustCapacity([r EXCEPT !.rows = moved], dr, db) =
            [rows |-> moved, seq |-> r.seq, pendingRows |-> r.pendingRows + dr,
             pendingBytes |-> r.pendingBytes + db, cached |-> r.cached + dr]
    BY <1>1, AdjustFields
  <2> HIDE DEF sign, flips
  <2>4. QED
    BY <2>1, <2>2, <2>3
<1>8. IsTable(moved, r.seq)
  BY <1>1, <1>6, ReservoirFacts, TableType
<1>9. IsReservoir(m)
  BY <1>3, <1>6, <1>7, <1>8 DEF IsReservoir
<1>10. AccountingMatches(m)
  BY <1>1, <1>4, <1>5, <1>7 DEF AccountingMatches
<1>11. Drift(m) = Drift(r)
  BY <1>3, <1>6, <1>7 DEF Drift
<1>12. QED
  BY <1>9, <1>10, <1>11 DEF Good

-----------------------------------------------------------------------------
(* Each operation keeps a good reservoir good and the drift as it was.     *)

LEMMA UpdateReplayRowsGood ==
  ASSUME NEW r, Good(r), NEW ids, NEW next \in ReplayStates,
         NEW retryAt \in OptionalNat, NEW t \in Nat
  PROVE  /\ Good(UpdateReplayRows(r, ids, next, retryAt, t))
         /\ Drift(UpdateReplayRows(r, ids, next, retryAt, t)) = Drift(r)
<1> DEFINE hit == ids \cap DOMAIN r.rows
           update(row) == [row EXCEPT !.state = next, !.retryAt = retryAt,
                             !.claimedAt = NULL,
                             !.terminalAt = IF next \in TerminalStates
                                            THEN t ELSE NULL]
           moved == [i \in DOMAIN r.rows |->
                       IF i \in ids THEN update(r.rows[i]) ELSE r.rows[i]]
<1>1. \A i \in DOMAIN r.rows : r.rows[i] \in Row
  BY ReservoirFacts DEF Good
<1>2. ASSUME NEW row \in Row
      PROVE  /\ update(row) \in Row
             /\ update(row).bytes = row.bytes
             /\ update(row).state = next
  BY DEF Row, OptionalNat
<1> HIDE DEF update
<1>3. moved \in [DOMAIN r.rows -> Row]
  BY <1>1, <1>2
<1>4. \A i \in DOMAIN r.rows :
        /\ moved[i].bytes = r.rows[i].bytes
        /\ moved[i].state = IF i \in hit THEN next ELSE r.rows[i].state
  BY <1>1, <1>2
<1>5. UpdateReplayRows(r, ids, next, retryAt, t) = MoveRows(r, hit, next, moved)
  BY DEF UpdateReplayRows, update
<1> HIDE DEF moved
<1>6. hit \in SUBSET DOMAIN r.rows
  OBVIOUS
<1> HIDE DEF hit
<1>7. QED
  BY <1>3, <1>4, <1>5, <1>6, MoveRowsGood

LEMMA UpdateReplayStateGood ==
  ASSUME NEW r, Good(r), NEW fromStates, NEW next \in ReplayStates
  PROVE  /\ Good(UpdateReplayState(r, fromStates, next))
         /\ Drift(UpdateReplayState(r, fromStates, next)) = Drift(r)
<1> DEFINE hit == InState(r.rows, fromStates)
           moved == [i \in DOMAIN r.rows |->
                       IF r.rows[i].state \in fromStates
                       THEN [r.rows[i] EXCEPT !.state = next] ELSE r.rows[i]]
<1>1. \A i \in DOMAIN r.rows : r.rows[i] \in Row
  BY ReservoirFacts DEF Good
<1>2. ASSUME NEW row \in Row
      PROVE  /\ [row EXCEPT !.state = next] \in Row
             /\ [row EXCEPT !.state = next].bytes = row.bytes
             /\ [row EXCEPT !.state = next].state = next
  BY DEF Row
<1>3. moved \in [DOMAIN r.rows -> Row]
  BY <1>1, <1>2
<1>4. \A i \in DOMAIN r.rows :
        /\ moved[i].bytes = r.rows[i].bytes
        /\ moved[i].state = IF i \in hit THEN next ELSE r.rows[i].state
  BY <1>1, <1>2 DEF InState
<1>5. UpdateReplayState(r, fromStates, next) = MoveRows(r, hit, next, moved)
  BY DEF UpdateReplayState
<1>6. hit \in SUBSET DOMAIN r.rows
  BY DEF InState
<1> HIDE DEF moved, hit
<1>7. QED
  BY <1>3, <1>4, <1>5, <1>6, MoveRowsGood

\* A change of columns that moves no row across the pending boundary.
LEMMA SamePendingGood ==
  ASSUME NEW r, Good(r), NEW t \in [DOMAIN r.rows -> Row],
         \A i \in DOMAIN r.rows :
           /\ t[i].bytes = r.rows[i].bytes
           /\ t[i].state \in PendingStates <=> r.rows[i].state \in PendingStates
  PROVE  /\ Good([r EXCEPT !.rows = t])
         /\ Drift([r EXCEPT !.rows = t]) = Drift(r)
<1>1. IsReservoir(r) /\ AccountingMatches(r)
  BY DEF Good
<1>2. InState(t, PendingStates) = InState(r.rows, PendingStates)
  BY DEF InState
<1>3. TotalBytes(t, InState(r.rows, PendingStates))
        = TotalBytes(r.rows, InState(r.rows, PendingStates))
  BY TotalBytesSame DEF InState
<1>4. [r EXCEPT !.rows = t] =
        [rows |-> t, seq |-> r.seq, pendingRows |-> r.pendingRows,
         pendingBytes |-> r.pendingBytes, cached |-> r.cached]
  BY <1>1, WithRows
<1>5. /\ r.seq \in Nat /\ r.pendingRows \in Int /\ r.pendingBytes \in Int
      /\ r.cached \in Int
  BY <1>1 DEF IsReservoir
<1>6. IsTable(t, r.seq)
  BY <1>1, <1>5, ReservoirFacts, TableType
<1>7. IsReservoir([r EXCEPT !.rows = t])
  BY <1>4, <1>5, <1>6 DEF IsReservoir
<1>8. AccountingMatches([r EXCEPT !.rows = t])
  BY <1>1, <1>2, <1>3, <1>4 DEF AccountingMatches
<1>9. QED
  BY <1>4, <1>7, <1>8 DEF Good, Drift

LEMMA ClaimGood ==
  ASSUME NEW r, Good(r), NEW limit, NEW t \in Nat
  PROVE  /\ Good(ClaimReplayBatch(r, limit, t))
         /\ Drift(ClaimReplayBatch(r, limit, t)) = Drift(r)
<1> DEFINE batch == ClaimBatch(r, limit, t)
           claim(row) == [row EXCEPT !.state = "replaying", !.retryAt = NULL,
                            !.claimedAt = t, !.mode = "replay_through_dedupe"]
           claimed == [i \in DOMAIN r.rows |->
                         IF i \in batch THEN claim(r.rows[i]) ELSE r.rows[i]]
<1>1. \A i \in DOMAIN r.rows : r.rows[i] \in Row
  BY ReservoirFacts DEF Good
<1>2. ASSUME NEW row \in Row
      PROVE  /\ claim(row) \in Row
             /\ claim(row).bytes = row.bytes
             /\ claim(row).state = "replaying"
  BY DEF Row, OptionalNat, ReplayStates, DeliveryModes
<1>3. \A i \in batch : i \in DOMAIN r.rows /\ r.rows[i].state = "pending"
  BY DEF ClaimBatch, First, ClaimableRows, InState
<1>4. ClaimReplayBatch(r, limit, t) = [r EXCEPT !.rows = claimed]
  BY DEF ClaimReplayBatch
<1> HIDE DEF claim, batch
<1>5. claimed \in [DOMAIN r.rows -> Row]
  BY <1>1, <1>2
<1>6. \A i \in DOMAIN r.rows :
        /\ claimed[i].bytes = r.rows[i].bytes
        /\ claimed[i].state \in PendingStates <=> r.rows[i].state \in PendingStates
  BY <1>1, <1>2, <1>3 DEF PendingStates
<1> HIDE DEF claimed
<1>7. QED
  BY <1>4, <1>5, <1>6, SamePendingGood

\* A new row gets an id above every other and, when pending, counts itself.
LEMMA AppendGood ==
  ASSUME NEW r, Good(r), NEW bytes \in Nat, NEW mode \in DeliveryModes,
         NEW state \in ReplayStates, NEW ingestAt \in Nat
  PROVE  /\ Good(AppendIngressEvent(r, bytes, mode, state, ingestAt))
         /\ Drift(AppendIngressEvent(r, bytes, mode, state, ingestAt)) = Drift(r)
<1> DEFINE id == r.seq + 1
           row == [ingestAt |-> ingestAt, bytes |-> bytes, mode |-> mode,
                   state |-> state, retryAt |-> NULL, claimedAt |-> NULL,
                   terminalAt |-> IF state \in TerminalStates
                                  THEN ingestAt ELSE NULL]
           rows == [i \in (DOMAIN r.rows) \cup {id} |->
                      IF i = id THEN row ELSE r.rows[i]]
           before == InState(r.rows, PendingStates)
           after == InState(rows, PendingStates)
           inserted == [r EXCEPT !.seq = id, !.rows = rows]
           n == AppendIngressEvent(r, bytes, mode, state, ingestAt)
           dr == IF state \in PendingStates THEN 1 ELSE 0
           db == IF state \in PendingStates THEN bytes ELSE 0
<1>1. /\ IsReservoir(r) /\ r.pendingRows = Cardinality(before)
      /\ r.pendingBytes = TotalBytes(r.rows, before)
  BY DEF Good, AccountingMatches
<1>2. /\ r.seq \in Nat /\ r.pendingRows \in Int /\ r.pendingBytes \in Int
      /\ r.cached \in Int
  BY <1>1 DEF IsReservoir
<1>3. /\ id \notin DOMAIN r.rows /\ id \in Nat
      /\ (DOMAIN r.rows) \cup {id} \in SUBSET (1..id)
  <2>1. DOMAIN r.rows \subseteq 1..r.seq
    BY <1>1, ReservoirFacts
  <2>2. QED
    BY <1>2, <2>1
<1>4. row \in Row /\ row.state = state /\ row.bytes = bytes
  BY DEF Row, OptionalNat
<1>5. /\ \A i \in DOMAIN r.rows : r.rows[i] \in Row /\ r.rows[i].bytes \in Nat
      /\ \A ids \in SUBSET DOMAIN r.rows : IsFiniteSet(ids)
  BY <1>1, ReservoirFacts
<1> HIDE DEF id, row
<1>6. /\ rows \in [(DOMAIN r.rows) \cup {id} -> Row]
      /\ rows[id] = row
      /\ \A i \in DOMAIN r.rows : rows[i] = r.rows[i]
  BY <1>3, <1>4, <1>5
<1>7. IsTable(rows, id)
  BY <1>3, <1>6, TableType
<1>8. DOMAIN rows = (DOMAIN r.rows) \cup {id}
  OBVIOUS
<1> HIDE DEF rows
<1>9. /\ before \in SUBSET DOMAIN r.rows /\ id \notin before
      /\ after = IF state \in PendingStates THEN before \cup {id} ELSE before
  BY <1>3, <1>4, <1>6, <1>8 DEF InState
<1>10. /\ IsFiniteSet(before) /\ IsFiniteSet({id})
       /\ Cardinality(before) \in Nat
       /\ \A i \in before \cup {id} : rows[i].bytes \in Nat
  <2>1. rows[id].bytes \in Nat
    BY <1>4, <1>6
  <2>2. \A i \in before : rows[i].bytes \in Nat
    BY <1>5, <1>6, <1>9
  <2>3. QED
    BY <2>1, <2>2, <1>5, <1>9, FS_Singleton, FS_CardinalityType
<1>11. TotalBytes(rows, before) = TotalBytes(r.rows, before)
  BY <1>6, <1>9, TotalBytesSame
<1> HIDE DEF before
<1>12. /\ Cardinality(after) = r.pendingRows + dr
       /\ TotalBytes(rows, after) = r.pendingBytes + db
  <2>1. CASE state \in PendingStates
    <3>1. after = before \cup {id}
      BY <2>1, <1>9
    <3>2. Cardinality(before \cup {id}) = Cardinality(before) + 1
      BY <1>9, <1>10, FS_AddElement
    <3>3. TotalBytes(rows, before \cup {id})
            = TotalBytes(rows, before) + TotalBytes(rows, {id})
      BY <1>9, <1>10, TotalBytesUnion
    <3>4. TotalBytes(rows, {id}) = bytes
      <4>1. rows[id].bytes = bytes /\ rows[id].bytes \in Nat
        BY <1>4, <1>6
      <4>2. QED
        BY <4>1, TotalBytesOne
    <3>5. dr = 1 /\ db = bytes
      BY <2>1
    <3>6. QED
      BY <3>1, <3>2, <3>3, <3>4, <3>5, <1>1, <1>11
  <2>2. CASE state \notin PendingStates
    <3>1. after = before /\ dr = 0 /\ db = 0
      BY <2>2, <1>9
    <3>2. QED
      BY <3>1, <1>1, <1>2, <1>11
  <2>3. QED
    BY <2>1, <2>2
<1> HIDE DEF after
<1> DEFINE value(p, b, c) == [rows |-> rows, seq |-> id, pendingRows |-> p,
                              pendingBytes |-> b, cached |-> c]
<1>13. inserted = value(r.pendingRows, r.pendingBytes, r.cached)
  <2> DEFINE old == r.rows
             p == r.pendingRows
             b == r.pendingBytes
             c == r.cached
             seq == r.seq
             q == [rows |-> old, seq |-> seq, pendingRows |-> p,
                   pendingBytes |-> b, cached |-> c]
  <2>1. r = q
    BY <1>1 DEF IsReservoir
  <2> HIDE DEF old, p, b, c, seq
  <2> DEFINE q1 == [rows |-> old, seq |-> id, pendingRows |-> p,
                    pendingBytes |-> b, cached |-> c]
  <2>2. [q EXCEPT !.seq = id] = q1 /\ [q1 EXCEPT !.rows = rows] = value(p, b, c)
    OBVIOUS
  <2>3. [q EXCEPT !.seq = id, !.rows = rows]
          = [[q EXCEPT !.seq = id] EXCEPT !.rows = rows]
    OBVIOUS
  <2>4. [q EXCEPT !.seq = id, !.rows = rows] = value(p, b, c)
    BY <2>2, <2>3
  <2> HIDE DEF q
  <2>5. QED
    BY <2>1, <2>4 DEF p, b, c
<1>14. n = IF state \in PendingStates
           THEN AdjustCapacity(inserted, 1, bytes) ELSE inserted
  BY DEF AppendIngressEvent, NextRowId, id, row, rows
<1>15. n = value(r.pendingRows + dr, r.pendingBytes + db, r.cached + dr)
  <2>1. CASE state \in PendingStates
    <3>1. IsReservoir(inserted)
      BY <1>2, <1>3, <1>7, <1>13 DEF IsReservoir
    <3>2. [inserted EXCEPT !.rows = rows] = inserted
      BY <1>13
    <3>3. /\ inserted.seq = id /\ inserted.pendingRows = r.pendingRows
          /\ inserted.pendingBytes = r.pendingBytes
          /\ inserted.cached = r.cached
      BY <1>13
    <3> HIDE DEF inserted
    <3>4. AdjustCapacity([inserted EXCEPT !.rows = rows], 1, bytes)
            = [rows |-> rows, seq |-> inserted.seq,
               pendingRows |-> inserted.pendingRows + 1,
               pendingBytes |-> inserted.pendingBytes + bytes,
               cached |-> inserted.cached + 1]
      BY <3>1, AdjustFields
    <3>5. QED
      BY <2>1, <1>14, <3>2, <3>3, <3>4
  <2>2. CASE state \notin PendingStates
    BY <2>2, <1>2, <1>13, <1>14
  <2>3. QED
    BY <2>1, <2>2
<1>16. dr \in Int /\ db \in Int
  OBVIOUS
<1> HIDE DEF dr, db
<1>17. IsReservoir(n)
  BY <1>2, <1>3, <1>7, <1>15, <1>16 DEF IsReservoir
<1>18. AccountingMatches(n)
  BY <1>12, <1>15 DEF AccountingMatches, after
<1>19. Drift(n) = Drift(r)
  BY <1>2, <1>15, <1>16 DEF Drift
<1>20. QED
  BY <1>17, <1>18, <1>19 DEF Good

\* Retention deletes only terminal rows, which nothing counts.
LEMMA DeleteGood ==
  ASSUME NEW r, Good(r), NEW t \in Nat
  PROVE  /\ Good(DeleteExpiredTerminalRows(r, t))
         /\ Drift(DeleteExpiredTerminalRows(r, t)) = Drift(r)
<1> DEFINE expired == ExpiredTerminalRows(r, t)
           gone == First([i \in expired |-> r.rows[i].terminalAt],
                         expired, PruneBatchSize)
           left == [i \in (DOMAIN r.rows) \ gone |-> r.rows[i]]
           n == [r EXCEPT !.rows = left]
<1>1. IsReservoir(r) /\ AccountingMatches(r)
  BY DEF Good
<1>2. DeleteExpiredTerminalRows(r, t) = n
  BY DEF DeleteExpiredTerminalRows
<1>3. \A i \in gone : i \in DOMAIN r.rows /\ r.rows[i].state \in TerminalStates
  BY DEF First, ExpiredTerminalRows, InState
<1> HIDE DEF gone
<1>4. /\ DOMAIN left = (DOMAIN r.rows) \ gone
      /\ \A i \in DOMAIN left : left[i] = r.rows[i]
  OBVIOUS
<1>5. left \in [(DOMAIN r.rows) \ gone -> Row]
  BY <1>1, ReservoirFacts
<1> HIDE DEF left
<1>6. InState(left, PendingStates) = InState(r.rows, PendingStates)
  BY <1>3, <1>4 DEF InState, PendingStates, TerminalStates
<1>7. TotalBytes(left, InState(r.rows, PendingStates))
        = TotalBytes(r.rows, InState(r.rows, PendingStates))
  <2>1. \A i \in InState(left, PendingStates) : left[i].bytes = r.rows[i].bytes
    BY <1>4 DEF InState
  <2>2. QED
    BY <2>1, <1>6, TotalBytesSame
<1>8. n = [rows |-> left, seq |-> r.seq, pendingRows |-> r.pendingRows,
           pendingBytes |-> r.pendingBytes, cached |-> r.cached]
  BY <1>1, WithRows
<1>9. /\ r.seq \in Nat /\ r.pendingRows \in Int /\ r.pendingBytes \in Int
      /\ r.cached \in Int
  BY <1>1 DEF IsReservoir
<1>10. IsTable(left, r.seq)
  <2>1. (DOMAIN r.rows) \ gone \in SUBSET (1..r.seq)
    BY <1>1, ReservoirFacts
  <2>2. QED
    BY <2>1, <1>5, <1>9, TableType
<1>11. IsReservoir(n)
  BY <1>8, <1>9, <1>10 DEF IsReservoir
<1>12. AccountingMatches(n)
  BY <1>1, <1>6, <1>7, <1>8 DEF AccountingMatches
<1>13. QED
  BY <1>2, <1>8, <1>11, <1>12 DEF Good, Drift

\* The cached count is no part of the file's accounting.
LEMMA CachedGood ==
  ASSUME NEW r, Good(r), NEW c \in Int
  PROVE  /\ Good([r EXCEPT !.cached = c])
         /\ Drift([r EXCEPT !.cached = c]) = c - r.pendingRows
<1> DEFINE n == [r EXCEPT !.cached = c]
<1>1. IsReservoir(r) /\ AccountingMatches(r)
  BY DEF Good
<1>2. n = [rows |-> r.rows, seq |-> r.seq, pendingRows |-> r.pendingRows,
           pendingBytes |-> r.pendingBytes, cached |-> c]
  BY <1>1 DEF IsReservoir
<1>3. IsReservoir(n)
  BY <1>1, <1>2 DEF IsReservoir
<1>4. AccountingMatches(n)
  BY <1>1, <1>2 DEF AccountingMatches
<1>5. QED
  BY <1>2, <1>3, <1>4 DEF Good, Drift

\* A restart returns claims to pending and reads the count back.
LEMMA RecoverGood ==
  ASSUME NEW r, Good(r)
  PROVE  /\ Good(RecoverRestartState(r))
         /\ Drift(RecoverRestartState(r)) = 0
<1> DEFINE release(row) == [row EXCEPT !.state = "pending", !.claimedAt = NULL]
           t == [i \in DOMAIN r.rows |->
                   IF r.rows[i].state = "replaying"
                   THEN release(r.rows[i]) ELSE r.rows[i]]
           q == [r EXCEPT !.rows = t]
           n == RecoverRestartState(r)
<1>1. /\ IsReservoir(r)
      /\ \A i \in DOMAIN r.rows : r.rows[i] \in Row
  BY ReservoirFacts DEF Good
<1>2. ASSUME NEW row \in Row
      PROVE  /\ release(row) \in Row
             /\ release(row).bytes = row.bytes
             /\ release(row).state = "pending"
  BY DEF Row, OptionalNat, ReplayStates
<1>3. n = [r EXCEPT !.cached = r.pendingRows, !.rows = t]
  BY DEF RecoverRestartState
<1> HIDE DEF release
<1>4. t \in [DOMAIN r.rows -> Row]
  BY <1>1, <1>2
<1>5. \A i \in DOMAIN r.rows :
        /\ t[i].bytes = r.rows[i].bytes
        /\ t[i].state \in PendingStates <=> r.rows[i].state \in PendingStates
  BY <1>1, <1>2 DEF PendingStates
<1> HIDE DEF t
<1>6. Good(q)
  BY <1>4, <1>5, SamePendingGood
<1>7. q = [rows |-> t, seq |-> r.seq, pendingRows |-> r.pendingRows,
           pendingBytes |-> r.pendingBytes, cached |-> r.cached]
  BY <1>1, WithRows
<1>8. n = [q EXCEPT !.cached = q.pendingRows]
  <2>1. [r EXCEPT !.cached = r.pendingRows, !.rows = t]
          = [[r EXCEPT !.cached = r.pendingRows] EXCEPT !.rows = t]
    OBVIOUS
  <2>2. r = [rows |-> r.rows, seq |-> r.seq, pendingRows |-> r.pendingRows,
             pendingBytes |-> r.pendingBytes, cached |-> r.cached]
    BY <1>1 DEF IsReservoir
  <2> DEFINE old == r.rows
             s == r.seq
             p == r.pendingRows
             b == r.pendingBytes
             c == r.cached
             r0 == [rows |-> old, seq |-> s, pendingRows |-> p,
                    pendingBytes |-> b, cached |-> c]
             q0 == [rows |-> t, seq |-> s, pendingRows |-> p,
                    pendingBytes |-> b, cached |-> c]
             r1 == [rows |-> old, seq |-> s, pendingRows |-> p,
                    pendingBytes |-> b, cached |-> p]
             r2 == [rows |-> t, seq |-> s, pendingRows |-> p,
                    pendingBytes |-> b, cached |-> p]
  <2>3. r = r0 /\ q = q0
    BY <2>2, <1>7
  <2> HIDE DEF old, s, p, b, c
  <2>4. /\ [r0 EXCEPT !.cached = p] = r1
        /\ [r1 EXCEPT !.rows = t] = r2
        /\ [q0 EXCEPT !.cached = p] = r2
        /\ q0.pendingRows = p
    OBVIOUS
  <2> HIDE DEF r0, r1, r2, q0
  <2>5. r.pendingRows = p
    BY DEF p
  <2> HIDE DEF q
  <2>6. n = [[r EXCEPT !.cached = p] EXCEPT !.rows = t]
    BY <1>3, <2>1, <2>5
  <2>7. [r EXCEPT !.cached = p] = r1 /\ [q EXCEPT !.cached = p] = r2
    BY <2>3, <2>4
  <2>8. n = r2 /\ q.pendingRows = p
    BY <2>3, <2>4, <2>6, <2>7
  <2>9. QED
    BY <2>7, <2>8
<1> HIDE DEF q, n
<1>9. Good(n) /\ Drift(n) = 0
  <2>1. q.pendingRows \in Int
    BY <1>6 DEF Good, IsReservoir
  <2>2. QED
    BY <2>1, <1>6, <1>8, CachedGood
<1>10. QED
  BY <1>9 DEF n

\* The reservoir of a file in which nothing was ever stored.
LEMMA EmptyGood == Good(EmptyReservoir) /\ Drift(EmptyReservoir) = 0
<1> DEFINE none == [i \in {} |-> NULL]
<1>1. IsTable(none, 0)
  <2>1. none \in [{} -> Row] /\ 0 \in Nat /\ {} \in SUBSET (1..0)
    OBVIOUS
  <2>2. QED
    BY <2>1, TableType
<1>2. /\ InState(none, PendingStates) = {}
      /\ ByteUnits(none, {}) = {}
  BY DEF InState, ByteUnits
<1>3. Cardinality({}) = 0 /\ TotalBytes(none, {}) = 0
  BY <1>2, FS_EmptySet DEF TotalBytes
<1> HIDE DEF none
<1>4. EmptyReservoir = [rows |-> none, seq |-> 0, pendingRows |-> 0,
                        pendingBytes |-> 0, cached |-> 0]
  BY DEF EmptyReservoir, none
<1>5. IsReservoir(EmptyReservoir)
  BY <1>1, <1>4 DEF IsReservoir
<1>6. AccountingMatches(EmptyReservoir) /\ Drift(EmptyReservoir) = 0
  BY <1>2, <1>3, <1>4 DEF AccountingMatches, Drift
<1>7. QED
  BY <1>5, <1>6 DEF Good

-----------------------------------------------------------------------------
(* What each operation makes of the table.                                 *)

\* Only the table changes in [r EXCEPT !.rows = t].
LEMMA RowsReplaced ==
  ASSUME NEW r, IsReservoir(r), NEW t
  PROVE  [r EXCEPT !.rows = t].rows = t /\ [r EXCEPT !.rows = t].seq = r.seq
BY WithRows

\* Moving rows replaces the table by the one it is given.
LEMMA MoveRowsTable ==
  ASSUME NEW r, IsReservoir(r), NEW ids, NEW next, NEW moved
  PROVE  /\ MoveRows(r, ids, next, moved).rows = moved
         /\ MoveRows(r, ids, next, moved).seq = r.seq
<1>1. \A q, dr, db :
        /\ q \in [rows: {q.rows}, seq: Nat,
                  pendingRows: Int, pendingBytes: Int, cached: Int]
        => /\ AdjustCapacity(q, dr, db).rows = q.rows
           /\ AdjustCapacity(q, dr, db).seq = q.seq
  BY DEF AdjustCapacity
<1> DEFINE q == [r EXCEPT !.rows = moved]
<1>2. q = [rows |-> moved, seq |-> r.seq, pendingRows |-> r.pendingRows,
           pendingBytes |-> r.pendingBytes, cached |-> r.cached]
  BY WithRows
<1>3. /\ q.rows = moved /\ q.seq = r.seq
      /\ q \in [rows: {q.rows}, seq: Nat,
                pendingRows: Int, pendingBytes: Int, cached: Int]
  BY <1>2 DEF IsReservoir
<1>4. \E dr, db : MoveRows(r, ids, next, moved) = AdjustCapacity(q, dr, db)
  BY DEF MoveRows
<1> HIDE DEF q
<1>5. QED
  BY <1>1, <1>3, <1>4

\* The update of one row by #updateReplayRows.
Updated(row, next, retryAt, t) ==
  [row EXCEPT !.state = next, !.retryAt = retryAt, !.claimedAt = NULL,
              !.terminalAt = IF next \in TerminalStates THEN t ELSE NULL]

LEMMA UpdateReplayRowsTable ==
  ASSUME NEW r, IsReservoir(r), NEW ids, NEW next, NEW retryAt, NEW t
  PROVE  /\ UpdateReplayRows(r, ids, next, retryAt, t).seq = r.seq
         /\ UpdateReplayRows(r, ids, next, retryAt, t).rows =
              [i \in DOMAIN r.rows |->
                 IF i \in ids THEN Updated(r.rows[i], next, retryAt, t)
                 ELSE r.rows[i]]
<1> DEFINE moved == [i \in DOMAIN r.rows |->
                       IF i \in ids THEN Updated(r.rows[i], next, retryAt, t)
                       ELSE r.rows[i]]
           n == UpdateReplayRows(r, ids, next, retryAt, t)
<1>1. n = MoveRows(r, ids \cap DOMAIN r.rows, next, moved)
  BY Zenon DEF UpdateReplayRows, Updated
<1> HIDE DEF moved, n
<1>2. n.rows = moved /\ n.seq = r.seq
  BY <1>1, MoveRowsTable
<1>3. QED
  BY <1>2 DEF n, moved

LEMMA UpdateReplayStateTable ==
  ASSUME NEW r, IsReservoir(r), NEW fromStates, NEW next
  PROVE  /\ UpdateReplayState(r, fromStates, next).seq = r.seq
         /\ DOMAIN UpdateReplayState(r, fromStates, next).rows = DOMAIN r.rows
BY MoveRowsTable DEF UpdateReplayState

\* A claimed row, and the table after a claim.
ClaimedRow(row, t) ==
  [row EXCEPT !.state = "replaying", !.retryAt = NULL,
              !.claimedAt = t, !.mode = "replay_through_dedupe"]

LEMMA ClaimTable ==
  ASSUME NEW r, IsReservoir(r), NEW limit, NEW t
  PROVE  /\ ClaimReplayBatch(r, limit, t).seq = r.seq
         /\ ClaimReplayBatch(r, limit, t).rows =
              [i \in DOMAIN r.rows |->
                 IF i \in ClaimBatch(r, limit, t) THEN ClaimedRow(r.rows[i], t)
                 ELSE r.rows[i]]
BY RowsReplaced DEF ClaimReplayBatch, ClaimedRow

\* A released row, and the table after a restart.
Released(row) == [row EXCEPT !.state = "pending", !.claimedAt = NULL]

LEMMA RecoverTable ==
  ASSUME NEW r, IsReservoir(r)
  PROVE  /\ RecoverRestartState(r).seq = r.seq
         /\ RecoverRestartState(r).rows =
              [i \in DOMAIN r.rows |->
                 IF r.rows[i].state = "replaying" THEN Released(r.rows[i])
                 ELSE r.rows[i]]
<1> DEFINE t == [i \in DOMAIN r.rows |->
                   IF r.rows[i].state = "replaying" THEN Released(r.rows[i])
                   ELSE r.rows[i]]
<1>1. RecoverRestartState(r) = [r EXCEPT !.cached = r.pendingRows, !.rows = t]
  BY DEF RecoverRestartState, Released
<1> HIDE DEF t
<1>2. [r EXCEPT !.cached = r.pendingRows, !.rows = t].rows = t
  BY DEF IsReservoir
<1>3. [r EXCEPT !.cached = r.pendingRows, !.rows = t].seq = r.seq
  BY DEF IsReservoir
<1>4. QED
  BY <1>1, <1>2, <1>3 DEF t

\* The rows that retention deletes in one pass.
Expired(r, t) ==
  First([i \in ExpiredTerminalRows(r, t) |-> r.rows[i].terminalAt],
        ExpiredTerminalRows(r, t), PruneBatchSize)

LEMMA DeleteTable ==
  ASSUME NEW r, IsReservoir(r), NEW t
  PROVE  /\ DeleteExpiredTerminalRows(r, t).seq = r.seq
         /\ DeleteExpiredTerminalRows(r, t).rows =
              [i \in (DOMAIN r.rows) \ Expired(r, t) |-> r.rows[i]]
         /\ Expired(r, t) \subseteq ExpiredTerminalRows(r, t)
<1>1. Expired(r, t) \subseteq ExpiredTerminalRows(r, t)
  BY DEF Expired, First
<1>2. QED
  BY <1>1, RowsReplaced DEF DeleteExpiredTerminalRows, Expired

\* The row of a new event.
NewRow(bytes, mode, state, ingestAt) ==
  [ingestAt |-> ingestAt, bytes |-> bytes, mode |-> mode, state |-> state,
   retryAt |-> NULL, claimedAt |-> NULL,
   terminalAt |-> IF state \in TerminalStates THEN ingestAt ELSE NULL]

LEMMA AppendTable ==
  ASSUME NEW r, IsReservoir(r), NEW bytes, NEW mode, NEW state, NEW ingestAt
  PROVE  /\ AppendIngressEvent(r, bytes, mode, state, ingestAt).seq = r.seq + 1
         /\ AppendIngressEvent(r, bytes, mode, state, ingestAt).rows =
              [i \in (DOMAIN r.rows) \cup {r.seq + 1} |->
                 IF i = r.seq + 1 THEN NewRow(bytes, mode, state, ingestAt)
                 ELSE r.rows[i]]
<1> DEFINE id == r.seq + 1
           t == [i \in (DOMAIN r.rows) \cup {id} |->
                   IF i = id THEN NewRow(bytes, mode, state, ingestAt)
                   ELSE r.rows[i]]
           inserted == [r EXCEPT !.seq = id, !.rows = t]
           n == AppendIngressEvent(r, bytes, mode, state, ingestAt)
<1>1. n = inserted \/ \E dr, db : n = AdjustCapacity(inserted, dr, db)
  BY Zenon DEF AppendIngressEvent, NextRowId, NewRow
<1>2. id \in Nat
  BY DEF IsReservoir
<1> HIDE DEF id, t
<1>3. /\ inserted.rows = t /\ inserted.seq = id
      /\ inserted \in [rows: {inserted.rows}, seq: Nat,
                       pendingRows: Int, pendingBytes: Int, cached: Int]
  BY <1>2 DEF IsReservoir
<1>4. \A q, dr, db :
        /\ q \in [rows: {q.rows}, seq: Nat,
                  pendingRows: Int, pendingBytes: Int, cached: Int]
        => /\ AdjustCapacity(q, dr, db).rows = q.rows
           /\ AdjustCapacity(q, dr, db).seq = q.seq
  BY DEF AdjustCapacity
<1> HIDE DEF inserted, n
<1>5. n.rows = t /\ n.seq = id
  BY <1>1, <1>3, <1>4
<1>6. QED
  BY <1>5 DEF n, t, id

-----------------------------------------------------------------------------
(* The order of a batch.                                                   *)

\* A row that a batch in order of key leaves behind comes after those it takes.
LEMMA FirstInOrder ==
  ASSUME NEW ids, IsFiniteSet(ids), NEW key, \A i \in ids : key[i] \in Nat,
         ids \subseteq Nat, NEW n \in Nat,
         NEW i \in First(key, ids, n), NEW j \in ids, j \notin First(key, ids, n)
  PROVE  key[i] < key[j] \/ (key[i] = key[j] /\ i < j)
<1> DEFINE Before(k) == {m \in ids : \/ key[m] < key[k]
                                     \/ key[m] = key[k] /\ m < k}
<1>1. i \in ids /\ Cardinality(Before(i)) < n /\ ~(Cardinality(Before(j)) < n)
  BY DEF First
<1>2. i # j
  OBVIOUS
<1>3. SUFFICES ASSUME key[j] < key[i] \/ (key[j] = key[i] /\ j < i)
               PROVE  FALSE
  <2>1. key[i] \in Nat /\ key[j] \in Nat /\ i \in Nat /\ j \in Nat
    BY <1>1
  <2>2. QED
    BY <1>2, <2>1
<1>4. Before(j) \subseteq Before(i)
  <2> SUFFICES ASSUME NEW m \in Before(j) PROVE m \in Before(i)
    OBVIOUS
  <2>1. /\ key[m] \in Nat /\ key[i] \in Nat /\ key[j] \in Nat
        /\ m \in Nat /\ i \in Nat /\ j \in Nat
    BY <1>1
  <2>2. QED
    BY <1>3, <2>1
<1>5. IsFiniteSet(Before(i)) /\ Before(i) \subseteq ids /\ Before(j) \subseteq ids
  BY FS_Subset
<1>6. IsFiniteSet(Before(j))
  BY <1>5, FS_Subset
<1>7. Cardinality(Before(j)) <= Cardinality(Before(i))
  BY <1>4, <1>5, FS_Subset
<1>8. Cardinality(Before(j)) \in Nat /\ Cardinality(Before(i)) \in Nat
  BY <1>5, <1>6, FS_CardinalityType
<1> HIDE DEF Before
<1>9. QED
  BY <1>1, <1>7, <1>8

-----------------------------------------------------------------------------
(* Columns that agree with the state.                                      *)

Consistent(row) ==
  /\ row.claimedAt # NULL <=> row.state = "replaying"
  /\ row.terminalAt # NULL <=> row.state \in TerminalStates
  /\ row.retryAt # NULL => row.state = "pending"

\* A row that is moved stays consistent; what each move makes of the state.
LEMMA MovedRow ==
  ASSUME NEW row \in Row, NEW t \in Nat, NEW retryAt \in OptionalNat
  PROVE  /\ LET new == Updated(row, "delivered", NULL, t)
            IN  Consistent(new) /\ new.state = "delivered"
         /\ LET new == Updated(row, "pending", retryAt, t)
            IN  Consistent(new) /\ new.state = "pending"
         /\ LET new == Updated(row, "dead_letter", NULL, t)
            IN  Consistent(new) /\ new.state = "dead_letter" /\ new.terminalAt = t
         /\ LET new == ClaimedRow(row, t)
            IN  /\ new.state = "replaying"
                /\ row.state = "pending" /\ Consistent(row) => Consistent(new)
         /\ LET new == Released(row)
            IN  /\ new.state = "pending"
                /\ row.state = "replaying" /\ Consistent(row) => Consistent(new)
<1>1. t # NULL
  BY NullAssumption
<1>2. LET new == Updated(row, "delivered", NULL, t)
      IN  Consistent(new) /\ new.state = "delivered"
  BY <1>1 DEF Row, Updated, Consistent, TerminalStates
<1>3. LET new == Updated(row, "pending", retryAt, t)
      IN  Consistent(new) /\ new.state = "pending"
  BY <1>1 DEF Row, Updated, Consistent, TerminalStates
<1>4. LET new == Updated(row, "dead_letter", NULL, t)
      IN  Consistent(new) /\ new.state = "dead_letter" /\ new.terminalAt = t
  BY <1>1 DEF Row, Updated, Consistent, TerminalStates
<1>5. LET new == ClaimedRow(row, t)
      IN  /\ new.state = "replaying"
          /\ row.state = "pending" /\ Consistent(row) => Consistent(new)
  BY <1>1 DEF Row, ClaimedRow, Consistent, TerminalStates
<1>6. LET new == Released(row)
      IN  /\ new.state = "pending"
          /\ row.state = "replaying" /\ Consistent(row) => Consistent(new)
  BY <1>1 DEF Row, Released, Consistent, TerminalStates
<1>7. QED
  BY <1>2, <1>3, <1>4, <1>5, <1>6

\* A row is open or settled, never both.
LEMMA OpenOrSettled ==
  ASSUME NEW r, IsReservoir(r)
  PROVE  LET open == InState(r.rows, PendingStates)
             settled == InState(r.rows, TerminalStates)
         IN  open \cap settled = {} /\ open \cup settled = DOMAIN r.rows
<1>1. \A i \in DOMAIN r.rows : r.rows[i].state \in ReplayStates
  BY ReservoirFacts DEF Row
<1>2. /\ ReplayStates = PendingStates \cup TerminalStates
      /\ PendingStates \cap TerminalStates = {}
  BY DEF ReplayStates, PendingStates, TerminalStates
<1>3. QED
  BY <1>1, <1>2 DEF InState
=============================================================================
