--------------------------- MODULE RuntimeLemmas ----------------------------
(***************************************************************************)
(* What the operators of ReplayOps and RuntimeOps do to a monitor record,  *)
(* whoever calls them: which rows they write off as delivered, and when    *)
(* they may leave a session that holds live flow back no longer.           *)
(***************************************************************************)
EXTENDS RuntimeOps, ReservoirLemmas, WellFoundedInduction

-----------------------------------------------------------------------------
(* The reservoir of a monitor.                                             *)

DeliveredRows(r) == InState(r.rows, {"delivered"})

\* r may become n by calls that write off the rows ids at most.
Moves(r, n, ids) ==
  /\ Good(n)
  /\ Drift(r) = 0 => Drift(n) = 0
  /\ n.seq = r.seq
  /\ DeliveredRows(n) \subseteq DeliveredRows(r) \cup ids

LEMMA SoundFacts ==
  ASSUME NEW r, Good(r)
  PROVE  /\ IsReservoir(r) /\ r.seq \in Nat
         /\ DOMAIN r.rows \subseteq 1..r.seq
         /\ Drift(r) = 0 => r.cached \in Nat
<1>1. IsReservoir(r) /\ AccountingMatches(r)
  BY DEF Good
<1>2. IsFiniteSet(InState(r.rows, PendingStates))
  BY <1>1, ReservoirFacts DEF InState
<1>3. r.pendingRows \in Nat
  BY <1>1, <1>2, FS_CardinalityType DEF AccountingMatches
<1>4. r.seq \in Nat /\ (Drift(r) = 0 => r.cached = r.pendingRows)
  BY <1>1 DEF Drift, IsReservoir
<1>5. QED
  BY <1>1, <1>3, <1>4, ReservoirFacts

LEMMA MovesNot == ASSUME NEW r, Good(r), NEW ids PROVE Moves(r, r, ids)
  BY DEF Moves

LEMMA MovesTwice ==
  ASSUME NEW r, NEW n, NEW p, NEW ids, NEW jds, Moves(r, n, ids), Moves(n, p, jds)
  PROVE  Moves(r, p, ids \cup jds)
  BY DEF Moves

\* Rewriting rows writes off those at most whose new state says so.
LEMMA Rewriting ==
  ASSUME NEW r, NEW n, NEW ids, DOMAIN n.rows = DOMAIN r.rows,
         \A i \in DOMAIN r.rows :
           n.rows[i] = r.rows[i] \/ n.rows[i].state # "delivered" \/ i \in ids
  PROVE  DeliveredRows(n) \subseteq DeliveredRows(r) \cup ids
  BY DEF DeliveredRows, InState

LEMMA UpdateMoves ==
  ASSUME NEW r, Good(r), NEW ids, NEW next \in ReplayStates,
         NEW retryAt \in OptionalNat, NEW t \in Nat
  PROVE  Moves(r, UpdateReplayRows(r, ids, next, retryAt, t),
               IF next = "delivered" THEN ids ELSE {})
<1> DEFINE n == UpdateReplayRows(r, ids, next, retryAt, t)
<1>1. IsReservoir(r)
  BY SoundFacts
<1>2. Good(n) /\ Drift(n) = Drift(r)
  BY <1>1, UpdateReplayRowsGood
<1>3. /\ n.seq = r.seq
      /\ n.rows = [i \in DOMAIN r.rows |->
                     IF i \in ids THEN Updated(r.rows[i], next, retryAt, t)
                     ELSE r.rows[i]]
  BY <1>1, UpdateReplayRowsTable
<1>4. \A i \in DOMAIN r.rows : Updated(r.rows[i], next, retryAt, t).state = next
  BY <1>1, ReservoirFacts DEF Updated, Row
<1> HIDE DEF n
<1>5. DOMAIN n.rows = DOMAIN r.rows
  BY <1>3
<1>6. ASSUME NEW i \in DOMAIN r.rows
      PROVE  \/ n.rows[i] = r.rows[i] \/ n.rows[i].state # "delivered"
             \/ i \in (IF next = "delivered" THEN ids ELSE {})
  <2>1. n.rows[i] = IF i \in ids THEN Updated(r.rows[i], next, retryAt, t) ELSE r.rows[i]
    BY <1>3
  <2>2. QED
    BY <1>4, <2>1
<1>7. DeliveredRows(n) \subseteq DeliveredRows(r) \cup (IF next = "delivered" THEN ids ELSE {})
  BY <1>5, <1>6, Rewriting, Zenon
<1>8. n.seq = r.seq
  BY <1>3
<1>9. QED
  BY <1>2, <1>7, <1>8, Zenon DEF Moves, n

\* The named uses of it.
LEMMA NamedUpdatesMove ==
  ASSUME NEW r, Good(r), NEW ids, NEW t \in Nat
  PROVE  /\ Moves(r, MarkDelivered(r, ids, t), ids)
         /\ Moves(r, DeadLetter(r, ids, t), {})
         /\ \A retryAt \in OptionalNat : Moves(r, ResetToPending(r, ids, retryAt, t), {})
<1>1. /\ "delivered" \in ReplayStates /\ "dead_letter" \in ReplayStates
      /\ "pending" \in ReplayStates /\ NULL \in OptionalNat
  BY DEF ReplayStates, OptionalNat
<1>2. Moves(r, MarkDelivered(r, ids, t), ids)
  BY <1>1, UpdateMoves DEF MarkDelivered
<1>3. Moves(r, DeadLetter(r, ids, t), {})
  <2>1. Moves(r, UpdateReplayRows(r, ids, "dead_letter", NULL, t),
              IF "dead_letter" = "delivered" THEN ids ELSE {})
    BY <1>1, UpdateMoves
  <2>2. QED
    BY <2>1 DEF DeadLetter
<1>4. ASSUME NEW retryAt \in OptionalNat
      PROVE  Moves(r, ResetToPending(r, ids, retryAt, t), {})
  <2>1. Moves(r, UpdateReplayRows(r, ids, "pending", retryAt, t),
              IF "pending" = "delivered" THEN ids ELSE {})
    BY <1>1, UpdateMoves
  <2>2. QED
    BY <2>1 DEF ResetToPending
<1>5. QED
  BY <1>2, <1>3, <1>4

LEMMA ClaimMoves ==
  ASSUME NEW r, Good(r), NEW limit, NEW t \in Nat
  PROVE  Moves(r, ClaimReplayBatch(r, limit, t), {})
<1> DEFINE n == ClaimReplayBatch(r, limit, t)
<1>1. IsReservoir(r)
  BY SoundFacts
<1>2. Good(n) /\ Drift(n) = Drift(r)
  BY <1>1, ClaimGood
<1>3. /\ n.seq = r.seq
      /\ n.rows = [i \in DOMAIN r.rows |->
                     IF i \in ClaimBatch(r, limit, t) THEN ClaimedRow(r.rows[i], t)
                     ELSE r.rows[i]]
  BY <1>1, ClaimTable
<1>4. \A i \in DOMAIN r.rows : ClaimedRow(r.rows[i], t).state = "replaying"
  BY <1>1, ReservoirFacts DEF ClaimedRow, Row
<1> HIDE DEF n
<1>5. DOMAIN n.rows = DOMAIN r.rows
  BY <1>3
<1>6. ASSUME NEW i \in DOMAIN r.rows
      PROVE  \/ n.rows[i] = r.rows[i] \/ n.rows[i].state # "delivered"
             \/ i \in {}
  <2>1. n.rows[i] = IF i \in ClaimBatch(r, limit, t) THEN ClaimedRow(r.rows[i], t) ELSE r.rows[i]
    BY <1>3
  <2>2. QED
    BY <1>4, <2>1
<1>7. DeliveredRows(n) \subseteq DeliveredRows(r) \cup {}
  BY <1>5, <1>6, Rewriting, Zenon
<1>8. n.seq = r.seq
  BY <1>3
<1>9. QED
  BY <1>2, <1>7, <1>8, Zenon DEF Moves, n

LEMMA ReclaimMoves ==
  ASSUME NEW r, Good(r), NEW age, NEW t \in Nat
  PROVE  /\ Moves(r, ReclaimStaleReplayRows(r, age, t), {})
         /\ \A passes : Moves(r, ReclaimPasses(r, age, passes, t), {})
<1>1. NULL \in OptionalNat
  BY DEF OptionalNat
<1>2. QED
  BY <1>1, NamedUpdatesMove DEF ReclaimStaleReplayRows, ReclaimPasses

LEMMA PruneMoves ==
  ASSUME NEW r, Good(r), NEW fullOutage, NEW t \in Nat
  PROVE  /\ Moves(r, MarkExpiredPendingRows(r, fullOutage, t), {})
         /\ Moves(r, PruneExpired(r, fullOutage, t), {})
<1> DEFINE m == MarkExpiredPendingRows(r, fullOutage, t)
           n == DeleteExpiredTerminalRows(m, t)
<1>1. Moves(r, m, {})
  BY NamedUpdatesMove DEF MarkExpiredPendingRows
<1>2. Good(m)
  BY <1>1 DEF Moves
<1> HIDE DEF m
<1>3. IsReservoir(m)
  BY <1>2, SoundFacts
<1>4. Good(n) /\ Drift(n) = Drift(m)
  BY <1>2, <1>3, DeleteGood
<1>5. n.seq = m.seq /\ n.rows = [i \in (DOMAIN m.rows) \ Expired(m, t) |-> m.rows[i]]
  BY <1>3, DeleteTable
<1> HIDE DEF n
<1>6. Moves(m, n, {})
  BY <1>4, <1>5 DEF Moves, DeliveredRows, InState
<1>7. Moves(r, n, {})
  <2>1. Moves(r, n, {} \cup {})
    BY <1>1, <1>6, MovesTwice
  <2>2. QED
    BY <2>1
<1>8. QED
  BY <1>1, <1>7 DEF m, n, PruneExpired

LEMMA RecoverMoves ==
  ASSUME NEW r, Good(r)
  PROVE  /\ Moves(r, RecoverRestartState(r), {})
         /\ Drift(RecoverRestartState(r)) = 0
<1> DEFINE n == RecoverRestartState(r)
<1>1. IsReservoir(r)
  BY SoundFacts
<1>2. Good(n) /\ Drift(n) = 0
  BY <1>1, RecoverGood
<1>3. /\ n.seq = r.seq
      /\ n.rows = [i \in DOMAIN r.rows |->
                     IF r.rows[i].state = "replaying" THEN Released(r.rows[i])
                     ELSE r.rows[i]]
  BY <1>1, RecoverTable
<1>4. \A i \in DOMAIN r.rows : Released(r.rows[i]).state = "pending"
  BY <1>1, ReservoirFacts DEF Released, Row
<1> HIDE DEF n
<1>5. DOMAIN n.rows = DOMAIN r.rows
  BY <1>3
<1>6. ASSUME NEW i \in DOMAIN r.rows
      PROVE  \/ n.rows[i] = r.rows[i] \/ n.rows[i].state # "delivered"
             \/ i \in {}
  <2>1. n.rows[i] = IF r.rows[i].state = "replaying" THEN Released(r.rows[i]) ELSE r.rows[i]
    BY <1>3
  <2>2. QED
    BY <1>4, <2>1
<1>7. DeliveredRows(n) \subseteq DeliveredRows(r) \cup {}
  BY <1>5, <1>6, Rewriting, Zenon
<1>8. n.seq = r.seq
  BY <1>3
<1>9. QED
  BY <1>2, <1>7, <1>8, Zenon DEF Moves, n

\* Storing a pending event.
LEMMA AppendMoves ==
  ASSUME NEW r, Good(r), NEW bytes \in Nat, NEW mode \in DeliveryModes,
         NEW ingestAt \in Nat, NEW state \in ReplayStates
  PROVE  LET n == AppendIngressEvent(r, bytes, mode, state, ingestAt)
         IN  /\ Good(n) /\ Drift(n) = Drift(r)
             /\ n.seq = r.seq + 1
             /\ DeliveredRows(n) \subseteq
                  DeliveredRows(r) \cup (IF state = "delivered" THEN {n.seq} ELSE {})
<1> DEFINE n == AppendIngressEvent(r, bytes, mode, state, ingestAt)
<1>1. IsReservoir(r)
  BY SoundFacts
<1>2. Good(n) /\ Drift(n) = Drift(r)
  BY <1>1, AppendGood
<1>3. /\ n.seq = r.seq + 1
      /\ n.rows = [i \in (DOMAIN r.rows) \cup {r.seq + 1} |->
                     IF i = r.seq + 1 THEN NewRow(bytes, mode, state, ingestAt)
                     ELSE r.rows[i]]
  BY <1>1, AppendTable
<1>4. NewRow(bytes, mode, state, ingestAt).state = state
  BY DEF NewRow
<1> HIDE DEF n
<1>5. DeliveredRows(n) \subseteq DeliveredRows(r) \cup (IF state = "delivered" THEN {n.seq} ELSE {})
  <2>1. SUFFICES ASSUME NEW i \in DeliveredRows(n), i \notin DeliveredRows(r)
                 PROVE  state = "delivered" /\ i = n.seq
    OBVIOUS
  <2>2. i \in DOMAIN n.rows /\ n.rows[i].state = "delivered"
    BY DEF DeliveredRows, InState
  <2>3. i = r.seq + 1
    BY <1>3, <2>1, <2>2 DEF DeliveredRows, InState
  <2>4. QED
    BY <1>3, <1>4, <2>2, <2>3
<1>6. QED
  BY <1>2, <1>3, <1>5 DEF n

-----------------------------------------------------------------------------
(* What becomes of single rows.                                            *)

\* A row is not older than first, and if retention gave it up, its window had
\* passed.
Timely(row, first) ==
  /\ row.ingestAt >= first
  /\ row.terminalAt # NULL => row.terminalAt >= first
  /\ row.state = "dead_letter" =>
       \/ row.terminalAt >= row.ingestAt + RollingBufferWindow
       \/ row.terminalAt >= row.ingestAt + FullOutageMaxWindow

\* Sane rows stay sane.
Sane(row, first) == Consistent(row) /\ Timely(row, first)

\* No retention lets a row go sooner that is not older than first.
Outlived(first, t) ==
  \/ first + DeliveredRetention <= t
  \/ first + RollingBufferWindow + DeadLetterRetention <= t
  \/ first + FullOutageMaxWindow + DeadLetterRetention <= t

\* No claim made at t can take the row from who claimed it at since, unless
\* the backoff is over.
Guarded(row, since, t) ==
  \/ row.state \in TerminalStates
  \/ since + RetryBackoff <= t
  \/ row.state = "replaying" /\ row.claimedAt # NULL /\ row.claimedAt >= since
  \/ row.state = "pending" /\ row.retryAt # NULL /\ row.retryAt >= since + RetryBackoff

\* An open row that a claim at s can take.
Due(row, s) ==
  /\ row.state = "pending" => row.retryAt = NULL \/ row.retryAt <= s
  /\ row.state = "replaying" => row.claimedAt = NULL \/ row.claimedAt + RetryBackoff <= s

RowRests(a, b, t) ==
  /\ b.ingestAt = a.ingestAt
  /\ Consistent(a) => Consistent(b)
  /\ \A first \in 0..t : Sane(a, first) => Sane(b, first)

\* r becomes n at t: its rows stay sound, and those that go have outlived
\* their retention.
Stays(r, n, t) ==
  /\ DOMAIN n.rows \subseteq DOMAIN r.rows
  /\ \A i \in DOMAIN n.rows : RowRests(r.rows[i], n.rows[i], t)
  /\ \A i \in (DOMAIN r.rows) \ DOMAIN n.rows :
       \A first \in 0..t : Sane(r.rows[i], first) => Outlived(first, t)

\* Also, only the rows freed lose their guard, and only those taken are due
\* later than before, by a backoff at most.
Rests(r, n, freed, taken, t) ==
  /\ Stays(r, n, t)
  /\ \A i \in DOMAIN n.rows :
       /\ i \notin freed =>
            \A since \in 0..t :
              Guarded(r.rows[i], since, t) => Guarded(n.rows[i], since, t)
       /\ \A s \in Nat :
            /\ i \in taken => s >= t + RetryBackoff
            /\ Due(r.rows[i], s)
            => Due(n.rows[i], s)

LEMMA RestsNot ==
  ASSUME NEW r, NEW n, n.rows = r.rows, NEW freed, NEW taken, NEW t
  PROVE  Rests(r, n, freed, taken, t)
  BY DEF Rests, Stays, RowRests

LEMMA RestsTwice ==
  ASSUME NEW r, NEW n, NEW p, NEW freed, NEW taken, NEW taken2, NEW t,
         Rests(r, n, {}, taken, t), Rests(n, p, freed, taken2, t)
  PROVE  Rests(r, p, freed, taken \cup taken2, t)
<1>1. DOMAIN p.rows \subseteq DOMAIN n.rows /\ DOMAIN n.rows \subseteq DOMAIN r.rows
  BY DEF Rests, Stays
<1>2. ASSUME NEW i \in DOMAIN p.rows
      PROVE  /\ RowRests(r.rows[i], p.rows[i], t)
             /\ i \notin freed =>
                  \A since \in 0..t :
                    Guarded(r.rows[i], since, t) => Guarded(p.rows[i], since, t)
             /\ \A s \in Nat :
                  /\ i \in taken \cup taken2 => s >= t + RetryBackoff
                  /\ Due(r.rows[i], s)
                  => Due(p.rows[i], s)
  <2>1. i \in DOMAIN n.rows
    BY <1>1
  <2>2. RowRests(r.rows[i], n.rows[i], t) /\ RowRests(n.rows[i], p.rows[i], t)
    BY <2>1 DEF Rests, Stays
  <2>3. RowRests(r.rows[i], p.rows[i], t)
    BY <2>2 DEF RowRests
  <2>4. QED
    BY <2>1, <2>3 DEF Rests
<1>3. ASSUME NEW i \in (DOMAIN r.rows) \ DOMAIN p.rows, NEW first \in 0..t,
             Sane(r.rows[i], first)
      PROVE  Outlived(first, t)
  <2>1. CASE i \in DOMAIN n.rows
    <3>1. RowRests(r.rows[i], n.rows[i], t)
      BY <2>1 DEF Rests, Stays
    <3>2. QED
      BY <1>3, <2>1, <3>1 DEF Rests, Stays, RowRests
  <2>2. CASE i \notin DOMAIN n.rows
    BY <1>3, <2>2 DEF Rests, Stays
  <2>3. QED
    BY <2>1, <2>2
<1>4. QED
  BY <1>1, <1>2, <1>3 DEF Rests, Stays

\* What the writes do to a row.
LEMMA RowWrites ==
  ASSUME NEW a \in Row, NEW t \in Nat
  PROVE  /\ LET b == Updated(a, "delivered", NULL, t)
            IN  /\ RowRests(a, b, t)
                /\ \A since : Guarded(b, since, t)
                /\ \A s : Due(b, s)
         /\ LET b == Updated(a, "dead_letter", NULL, t)
            IN  /\ \/ a.ingestAt <= t - FullOutageMaxWindow
                   \/ a.ingestAt <= t - RollingBufferWindow
                   => RowRests(a, b, t)
                /\ \A since : Guarded(b, since, t)
                /\ \A s : Due(b, s)
         /\ LET b == Updated(a, "pending", NULL, t)
            IN  /\ RowRests(a, b, t)
                /\ \A s : Due(b, s)
                /\ \A since \in Nat :
                     /\ a.state = "replaying"
                     /\ a.claimedAt = NULL \/ a.claimedAt <= t - RetryBackoff
                     /\ Guarded(a, since, t)
                     => Guarded(b, since, t)
         /\ LET b == Updated(a, "pending", t + RetryBackoff, t)
            IN  /\ RowRests(a, b, t)
                /\ \A since \in 0..t : Guarded(b, since, t)
                /\ \A s \in Nat : s >= t + RetryBackoff => Due(b, s)
         /\ LET b == ClaimedRow(a, t)
            IN  /\ a.state = "pending" => RowRests(a, b, t)
                /\ \A since \in 0..t : Guarded(b, since, t)
                /\ \A s \in Nat : s >= t + RetryBackoff => Due(b, s)
         /\ LET b == Released(a)
            IN  a.state = "replaying" => RowRests(a, b, t)
<1> USE ReplayAssumption, RetentionAssumption, NullAssumption
<1>1. a = [ingestAt |-> a.ingestAt, bytes |-> a.bytes, mode |-> a.mode, state |-> a.state,
           retryAt |-> a.retryAt, claimedAt |-> a.claimedAt, terminalAt |-> a.terminalAt]
      /\ a.ingestAt \in Nat /\ a.retryAt \in OptionalNat /\ a.claimedAt \in OptionalNat
      /\ a.terminalAt \in OptionalNat /\ a.state \in ReplayStates
  BY DEF Row
<1>2. ASSUME NEW next \in ReplayStates, NEW retryAt
      PROVE  LET b == Updated(a, next, retryAt, t)
             IN  /\ b.ingestAt = a.ingestAt /\ b.state = next /\ b.retryAt = retryAt
                 /\ b.claimedAt = NULL
                 /\ b.terminalAt = IF next \in TerminalStates THEN t ELSE NULL
  BY DEF Updated, Row
<1>3. LET b == ClaimedRow(a, t)
      IN  /\ b.ingestAt = a.ingestAt /\ b.state = "replaying" /\ b.retryAt = NULL
          /\ b.claimedAt = t /\ b.terminalAt = a.terminalAt
  BY DEF ClaimedRow, Row
<1>4. LET b == Released(a)
      IN  /\ b.ingestAt = a.ingestAt /\ b.state = "pending" /\ b.retryAt = a.retryAt
          /\ b.claimedAt = NULL /\ b.terminalAt = a.terminalAt
  BY DEF Released, Row
<1>5. /\ "delivered" \in ReplayStates /\ "dead_letter" \in ReplayStates
      /\ "pending" \in ReplayStates
      /\ "delivered" \in TerminalStates /\ "dead_letter" \in TerminalStates
      /\ "pending" \notin TerminalStates /\ "replaying" \notin TerminalStates
      /\ \A x \in Nat : x # NULL
  BY DEF ReplayStates, TerminalStates
<1>6. LET b == Updated(a, "delivered", NULL, t)
      IN  /\ RowRests(a, b, t)
          /\ \A since : Guarded(b, since, t)
          /\ \A s : Due(b, s)
  <2> DEFINE b == Updated(a, "delivered", NULL, t)
  <2>1. /\ b.ingestAt = a.ingestAt /\ b.state = "delivered" /\ b.retryAt = NULL
        /\ b.claimedAt = NULL /\ b.terminalAt = t
    BY <1>2, <1>5
  <2> HIDE DEF b
  <2>2. QED
    BY <1>1, <1>5, <2>1 DEF RowRests, Sane, Timely, Consistent, Guarded, Due, b
<1>7. LET b == Updated(a, "dead_letter", NULL, t)
      IN  /\ \/ a.ingestAt <= t - FullOutageMaxWindow
             \/ a.ingestAt <= t - RollingBufferWindow
             => RowRests(a, b, t)
          /\ \A since : Guarded(b, since, t)
          /\ \A s : Due(b, s)
  <2> DEFINE b == Updated(a, "dead_letter", NULL, t)
  <2>1. /\ b.ingestAt = a.ingestAt /\ b.state = "dead_letter" /\ b.retryAt = NULL
        /\ b.claimedAt = NULL /\ b.terminalAt = t
    BY <1>2, <1>5
  <2> HIDE DEF b
  <2>2. QED
    BY <1>1, <1>5, <2>1 DEF RowRests, Sane, Timely, Consistent, Guarded, Due, b
<1>8. LET b == Updated(a, "pending", NULL, t)
      IN  /\ RowRests(a, b, t)
          /\ \A s : Due(b, s)
          /\ \A since \in Nat :
               /\ a.state = "replaying"
               /\ a.claimedAt = NULL \/ a.claimedAt <= t - RetryBackoff
               /\ Guarded(a, since, t)
               => Guarded(b, since, t)
  <2> DEFINE b == Updated(a, "pending", NULL, t)
  <2>1. /\ b.ingestAt = a.ingestAt /\ b.state = "pending" /\ b.retryAt = NULL
        /\ b.claimedAt = NULL /\ b.terminalAt = NULL
    BY <1>2, <1>5
  <2> HIDE DEF b
  <2>2. QED
    BY <1>1, <1>5, <2>1 DEF RowRests, Sane, Timely, Consistent, Guarded, Due, b, OptionalNat
<1>9. LET b == Updated(a, "pending", t + RetryBackoff, t)
      IN  /\ RowRests(a, b, t)
          /\ \A since \in 0..t : Guarded(b, since, t)
          /\ \A s \in Nat : s >= t + RetryBackoff => Due(b, s)
  <2> DEFINE b == Updated(a, "pending", t + RetryBackoff, t)
  <2>1. /\ b.ingestAt = a.ingestAt /\ b.state = "pending" /\ b.retryAt = t + RetryBackoff
        /\ b.claimedAt = NULL /\ b.terminalAt = NULL
    BY <1>2, <1>5
  <2> HIDE DEF b
  <2>2. QED
    BY <1>1, <1>5, <2>1 DEF RowRests, Sane, Timely, Consistent, Guarded, Due, b
<1>10. LET b == ClaimedRow(a, t)
       IN  /\ a.state = "pending" => RowRests(a, b, t)
           /\ \A since \in 0..t : Guarded(b, since, t)
           /\ \A s \in Nat : s >= t + RetryBackoff => Due(b, s)
  <2> DEFINE b == ClaimedRow(a, t)
  <2>1. /\ b.ingestAt = a.ingestAt /\ b.state = "replaying" /\ b.retryAt = NULL
        /\ b.claimedAt = t /\ b.terminalAt = a.terminalAt
    BY <1>3
  <2> HIDE DEF b
  <2>2. QED
    BY <1>1, <1>5, <2>1 DEF RowRests, Sane, Timely, Consistent, Guarded, Due, b
<1>11. LET b == Released(a)
       IN  a.state = "replaying" => RowRests(a, b, t)
  <2> DEFINE b == Released(a)
  <2>1. /\ b.ingestAt = a.ingestAt /\ b.state = "pending" /\ b.retryAt = a.retryAt
        /\ b.claimedAt = NULL /\ b.terminalAt = a.terminalAt
    BY <1>4
  <2> HIDE DEF b
  <2>2. QED
    BY <1>1, <1>5, <2>1 DEF RowRests, Sane, Timely, Consistent, Guarded, Due, b
<1>12. QED
  BY <1>6, <1>7, <1>8, <1>9, <1>10, <1>11, Zenon

\* The writes of the reservoir.
LEMMA UpdateRests ==
  ASSUME NEW r, Good(r), NEW ids, NEW t \in Nat
  PROVE  /\ Rests(r, MarkDelivered(r, ids, t), {}, {}, t)
         /\ Rests(r, ResetToPending(r, ids, t + RetryBackoff, t), {}, ids, t)
         /\ Rests(r, ResetToPending(r, ids, NULL, t), ids, {}, t)
         /\ ids \subseteq StaleRows(r, RetryBackoff, t) =>
              Rests(r, ResetToPending(r, ids, NULL, t), {}, {}, t)
         /\ \A fullOutage :
              ids \subseteq ExpiredPendingRows(r, fullOutage, t) =>
                Rests(r, DeadLetter(r, ids, t), {}, {}, t)
<1> DEFINE at(n, next, retryAt) ==
             n.rows = [i \in DOMAIN r.rows |->
                         IF i \in ids THEN Updated(r.rows[i], next, retryAt, t)
                         ELSE r.rows[i]]
<1>1. IsReservoir(r) /\ \A i \in DOMAIN r.rows : r.rows[i] \in Row
  BY SoundFacts, ReservoirFacts
<1>2. \A next, retryAt : at(UpdateReplayRows(r, ids, next, retryAt, t), next, retryAt)
  BY <1>1, UpdateReplayRowsTable
\* It is enough to look at the rows that are named.
<1>3. ASSUME NEW n, NEW next, NEW retryAt, at(n, next, retryAt), NEW freed, NEW taken,
             \A i \in ids \cap DOMAIN r.rows :
               LET b == Updated(r.rows[i], next, retryAt, t)
               IN  /\ RowRests(r.rows[i], b, t)
                   /\ i \notin freed =>
                        \A since \in 0..t :
                          Guarded(r.rows[i], since, t) => Guarded(b, since, t)
                   /\ \A s \in Nat :
                        /\ i \in taken => s >= t + RetryBackoff
                        /\ Due(r.rows[i], s)
                        => Due(b, s)
      PROVE  Rests(r, n, freed, taken, t)
  <2>1. DOMAIN n.rows = DOMAIN r.rows
    BY <1>3
  <2>2. ASSUME NEW i \in DOMAIN r.rows
        PROVE  \/ n.rows[i] = r.rows[i]
               \/ i \in ids /\ n.rows[i] = Updated(r.rows[i], next, retryAt, t)
    BY <1>3
  <2>3. QED
    BY <1>3, <2>1, <2>2 DEF Rests, Stays, RowRests
<1> HIDE DEF at
<1>4. Rests(r, MarkDelivered(r, ids, t), {}, {}, t)
  BY <1>1, <1>2, <1>3, RowWrites DEF MarkDelivered
<1>5. Rests(r, ResetToPending(r, ids, t + RetryBackoff, t), {}, ids, t)
  BY <1>1, <1>2, <1>3, RowWrites DEF ResetToPending
<1>6. Rests(r, ResetToPending(r, ids, NULL, t), ids, {}, t)
  BY <1>1, <1>2, <1>3, RowWrites DEF ResetToPending
<1>7. ASSUME ids \subseteq StaleRows(r, RetryBackoff, t)
      PROVE  Rests(r, ResetToPending(r, ids, NULL, t), {}, {}, t)
  <2>1. \A i \in ids : /\ r.rows[i].state = "replaying"
                       /\ \/ r.rows[i].claimedAt = NULL
                          \/ r.rows[i].claimedAt <= t - RetryBackoff
    BY <1>7 DEF StaleRows, InState
  <2>2. QED
    BY <1>1, <1>2, <1>3, <2>1, RowWrites DEF ResetToPending
<1>8. ASSUME NEW fullOutage, ids \subseteq ExpiredPendingRows(r, fullOutage, t)
      PROVE  Rests(r, DeadLetter(r, ids, t), {}, {}, t)
  <2>1. \A i \in ids : \/ r.rows[i].ingestAt <= t - FullOutageMaxWindow
                       \/ r.rows[i].ingestAt <= t - RollingBufferWindow
    BY <1>8, Zenon DEF ExpiredPendingRows
  <2>2. QED
    BY <1>1, <1>2, <1>3, <2>1, RowWrites DEF DeadLetter
<1>9. QED
  BY <1>4, <1>5, <1>6, <1>7, <1>8

LEMMA ReclaimRests ==
  ASSUME NEW r, Good(r), NEW t \in Nat
  PROVE  /\ Rests(r, ReclaimStaleReplayRows(r, RetryBackoff, t), {}, {}, t)
         /\ \A passes : Rests(r, ReclaimPasses(r, RetryBackoff, passes, t), {}, {}, t)
<1>1. \A passes : First(IngestOrder(r.rows), StaleRows(r, RetryBackoff, t),
                        passes * PruneBatchSize)
                    \subseteq StaleRows(r, RetryBackoff, t)
  BY DEF First
<1>2. QED
  BY <1>1, UpdateRests DEF ReclaimStaleReplayRows, ReclaimPasses

LEMMA ClaimRests ==
  ASSUME NEW r, Good(r), NEW limit, NEW t \in Nat
  PROVE  Rests(r, ClaimReplayBatch(r, limit, t), {}, ClaimBatch(r, limit, t), t)
<1> DEFINE n == ClaimReplayBatch(r, limit, t)
           ids == ClaimBatch(r, limit, t)
<1>1. IsReservoir(r) /\ \A i \in DOMAIN r.rows : r.rows[i] \in Row
  BY SoundFacts, ReservoirFacts
<1>2. n.rows = [i \in DOMAIN r.rows |->
                  IF i \in ids THEN ClaimedRow(r.rows[i], t) ELSE r.rows[i]]
  BY <1>1, ClaimTable
<1>3. \A i \in ids : r.rows[i].state = "pending"
  BY DEF ClaimBatch, First, ClaimableRows, InState
<1> HIDE DEF n, ids
<1>4. DOMAIN n.rows = DOMAIN r.rows
  BY <1>2
<1>5. ASSUME NEW i \in DOMAIN r.rows
      PROVE  \/ n.rows[i] = r.rows[i]
             \/ i \in ids /\ n.rows[i] = ClaimedRow(r.rows[i], t)
  BY <1>2
<1>6. Rests(r, n, {}, ids, t)
  BY <1>1, <1>3, <1>4, <1>5, RowWrites DEF Rests, Stays, RowRests
<1>7. QED
  BY <1>6 DEF n, ids

LEMMA PruneRests ==
  ASSUME NEW r, Good(r), NEW fullOutage, NEW t \in Nat
  PROVE  /\ Rests(r, MarkExpiredPendingRows(r, fullOutage, t), {}, {}, t)
         /\ Rests(r, PruneExpired(r, fullOutage, t), {}, {}, t)
<1> DEFINE m == MarkExpiredPendingRows(r, fullOutage, t)
           n == DeleteExpiredTerminalRows(m, t)
           gone == Expired(m, t)
<1>1. Rests(r, m, {}, {}, t)
  <2>1. First(IngestOrder(r.rows), ExpiredPendingRows(r, fullOutage, t), PruneBatchSize)
          \subseteq ExpiredPendingRows(r, fullOutage, t)
    BY DEF First
  <2>2. QED
    BY <2>1, UpdateRests DEF MarkExpiredPendingRows
<1>2. Good(m) /\ IsReservoir(m) /\ \A i \in DOMAIN m.rows : m.rows[i] \in Row
  <2>1. Good(m)
    BY PruneMoves DEF Moves
  <2> HIDE DEF m
  <2>2. QED
    BY <2>1, SoundFacts, ReservoirFacts
<1> HIDE DEF m
<1>3. n.rows = [i \in (DOMAIN m.rows) \ gone |-> m.rows[i]]
      /\ gone \subseteq ExpiredTerminalRows(m, t)
  BY <1>2, DeleteTable
<1> HIDE DEF n, gone
<1>4. ASSUME NEW i \in DOMAIN m.rows, i \in ExpiredTerminalRows(m, t),
             NEW first \in 0..t, Sane(m.rows[i], first)
      PROVE  Outlived(first, t)
  <2> DEFINE row == m.rows[i]
  <2>1. /\ row.terminalAt # NULL
        /\ row.state \in TerminalStates
        /\ row.terminalAt <= t - (IF row.state = "delivered" THEN DeliveredRetention
                                  ELSE DeadLetterRetention)
    BY <1>4 DEF ExpiredTerminalRows, InState
  <2>2. row \in Row
    BY <1>2
  <2>3. /\ row.terminalAt \in Nat /\ row.ingestAt \in Nat
        /\ first <= row.ingestAt /\ first <= row.terminalAt
    BY <1>4, <2>1, <2>2 DEF Row, OptionalNat, Sane, Timely
  <2> HIDE DEF row
  <2>4. row.state = "dead_letter" =>
          \/ row.terminalAt >= row.ingestAt + RollingBufferWindow
          \/ row.terminalAt >= row.ingestAt + FullOutageMaxWindow
    BY <1>4 DEF Sane, Timely, row
  <2>5. QED
    BY <2>1, <2>3, <2>4, RetentionAssumption DEF TerminalStates, Outlived, row
<1>5. Rests(m, n, {}, {}, t)
  <2>1. DOMAIN n.rows = (DOMAIN m.rows) \ gone /\ \A i \in DOMAIN n.rows : n.rows[i] = m.rows[i]
    BY <1>3
  <2>2. QED
    BY <1>3, <1>4, <2>1 DEF Rests, Stays, RowRests
<1>6. Rests(r, n, {}, {} \cup {}, t)
  BY <1>1, <1>5, RestsTwice
<1>7. n = PruneExpired(r, fullOutage, t)
  BY DEF n, m, PruneExpired
<1>8. QED
  BY <1>1, <1>6, <1>7 DEF m

LEMMA RecoverStays ==
  ASSUME NEW r, Good(r), NEW t \in Nat
  PROVE  Stays(r, RecoverRestartState(r), t)
<1> DEFINE n == RecoverRestartState(r)
<1>1. IsReservoir(r) /\ \A i \in DOMAIN r.rows : r.rows[i] \in Row
  BY SoundFacts, ReservoirFacts
<1>2. n.rows = [i \in DOMAIN r.rows |->
                  IF r.rows[i].state = "replaying" THEN Released(r.rows[i]) ELSE r.rows[i]]
  BY <1>1, RecoverTable
<1> HIDE DEF n
<1>3. DOMAIN n.rows = DOMAIN r.rows
  BY <1>2
<1>4. \A i \in DOMAIN r.rows :
        \/ n.rows[i] = r.rows[i]
        \/ r.rows[i].state = "replaying" /\ n.rows[i] = Released(r.rows[i])
  BY <1>2
<1>5. QED
  BY <1>1, <1>3, <1>4, RowWrites DEF Stays, RowRests, n

-----------------------------------------------------------------------------
(* The books.                                                              *)

IsTerminal(row) == row.state \in TerminalStates

\* r becomes n by calls that take up again the settled rows ids at most.
Reopens(r, n, ids) ==
  /\ DOMAIN n.rows = DOMAIN r.rows
  /\ \A i \in (DOMAIN r.rows) \ ids : IsTerminal(r.rows[i]) => IsTerminal(n.rows[i])

\* r becomes n by a call that strikes settled rows off; without a retention of
\* dead letters also those that it has just given up.
Strikes(r, n) ==
  /\ DOMAIN n.rows \subseteq DOMAIN r.rows
  /\ \A i \in DOMAIN n.rows : IsTerminal(r.rows[i]) => IsTerminal(n.rows[i])
  /\ \A i \in (DOMAIN r.rows) \ DOMAIN n.rows :
       DeadLetterRetention = 0 \/ IsTerminal(r.rows[i])

LEMMA ReopensNot ==
  ASSUME NEW r, NEW n, n.rows = r.rows, NEW ids
  PROVE  Reopens(r, n, ids)
  BY DEF Reopens

LEMMA ReopensTwice ==
  ASSUME NEW r, NEW n, NEW p, NEW ids, Reopens(r, n, {}), Reopens(n, p, ids)
  PROVE  Reopens(r, p, ids)
  BY DEF Reopens

LEMMA StrikesAfter ==
  ASSUME NEW r, NEW n, NEW p, Reopens(r, n, {}), Strikes(n, p),
         \A i \in DOMAIN r.rows : IsTerminal(n.rows[i]) => IsTerminal(r.rows[i])
  PROVE  Strikes(r, p)
  BY DEF Reopens, Strikes

LEMMA UpdateReopens ==
  ASSUME NEW r, Good(r), NEW ids, NEW retryAt, NEW t
  PROVE  /\ Reopens(r, MarkDelivered(r, ids, t), {})
         /\ Reopens(r, DeadLetter(r, ids, t), {})
         /\ Reopens(r, ResetToPending(r, ids, retryAt, t), ids)
         /\ ids \subseteq InState(r.rows, PendingStates) =>
              Reopens(r, ResetToPending(r, ids, retryAt, t), {})
         /\ \A i \in DOMAIN r.rows :
              IsTerminal(ResetToPending(r, ids, retryAt, t).rows[i]) => IsTerminal(r.rows[i])
<1>1. IsReservoir(r) /\ \A i \in DOMAIN r.rows : r.rows[i] \in Row
  BY SoundFacts, ReservoirFacts
<1>2. \A next, at : LET n == UpdateReplayRows(r, ids, next, at, t)
                    IN  n.rows = [i \in DOMAIN r.rows |->
                                    IF i \in ids THEN Updated(r.rows[i], next, at, t)
                                    ELSE r.rows[i]]
  BY <1>1, UpdateReplayRowsTable
<1>3. \A next, at : \A i \in DOMAIN r.rows : Updated(r.rows[i], next, at, t).state = next
  BY <1>1 DEF Updated, Row
<1>4. ASSUME NEW next, NEW at
      PROVE  LET n == UpdateReplayRows(r, ids, next, at, t)
             IN  /\ Reopens(r, n, ids)
                 /\ next \in TerminalStates => Reopens(r, n, {})
                 /\ ids \subseteq InState(r.rows, PendingStates) => Reopens(r, n, {})
                 /\ next \notin TerminalStates =>
                      \A i \in DOMAIN r.rows : IsTerminal(n.rows[i]) => IsTerminal(r.rows[i])
  <2> DEFINE n == UpdateReplayRows(r, ids, next, at, t)
  <2>1. n.rows = [i \in DOMAIN r.rows |->
                    IF i \in ids THEN Updated(r.rows[i], next, at, t) ELSE r.rows[i]]
    BY <1>2
  <2> HIDE DEF n
  <2>2. /\ DOMAIN n.rows = DOMAIN r.rows
        /\ \A i \in DOMAIN r.rows :
             \/ n.rows[i] = r.rows[i]
             \/ i \in ids /\ n.rows[i].state = next
    BY <1>3, <2>1
  <2>3. \A i \in InState(r.rows, PendingStates) : ~IsTerminal(r.rows[i])
    BY DEF InState, IsTerminal, PendingStates, TerminalStates
  <2>4. QED
    BY <2>2, <2>3 DEF Reopens, IsTerminal, n
<1>5. /\ "delivered" \in TerminalStates /\ "dead_letter" \in TerminalStates
      /\ "pending" \notin TerminalStates
  BY DEF TerminalStates
<1>6. QED
  BY <1>4, <1>5 DEF MarkDelivered, DeadLetter, ResetToPending

LEMMA ReclaimReopens ==
  ASSUME NEW r, Good(r), NEW age, NEW t
  PROVE  /\ Reopens(r, ReclaimStaleReplayRows(r, age, t), {})
         /\ \A passes : Reopens(r, ReclaimPasses(r, age, passes, t), {})
         /\ \A i \in DOMAIN r.rows :
              IsTerminal(ReclaimStaleReplayRows(r, age, t).rows[i]) => IsTerminal(r.rows[i])
<1>1. StaleRows(r, age, t) \subseteq InState(r.rows, PendingStates)
  BY DEF StaleRows, InState, PendingStates
<1>2. \A n : First(IngestOrder(r.rows), StaleRows(r, age, t), n) \subseteq StaleRows(r, age, t)
  BY DEF First
<1>3. QED
  BY <1>1, <1>2, UpdateReopens DEF ReclaimStaleReplayRows, ReclaimPasses

LEMMA ClaimReopens ==
  ASSUME NEW r, Good(r), NEW limit, NEW t
  PROVE  Reopens(r, ClaimReplayBatch(r, limit, t), {})
<1> DEFINE n == ClaimReplayBatch(r, limit, t)
           ids == ClaimBatch(r, limit, t)
<1>1. n.rows = [i \in DOMAIN r.rows |->
                  IF i \in ids THEN ClaimedRow(r.rows[i], t) ELSE r.rows[i]]
  BY SoundFacts, ClaimTable
<1>2. \A i \in ids : r.rows[i].state = "pending"
  BY DEF ClaimBatch, First, ClaimableRows, InState
<1> HIDE DEF n, ids
<1>3. DOMAIN n.rows = DOMAIN r.rows
      /\ \A i \in (DOMAIN r.rows) \ ids : n.rows[i] = r.rows[i]
  BY <1>1
<1>4. Reopens(r, n, {})
  BY <1>2, <1>3 DEF Reopens, IsTerminal, TerminalStates
<1>5. QED
  BY <1>4 DEF n

LEMMA RecoverReopens ==
  ASSUME NEW r, Good(r)
  PROVE  Reopens(r, RecoverRestartState(r), {})
<1> DEFINE n == RecoverRestartState(r)
<1>1. n.rows = [i \in DOMAIN r.rows |->
                  IF r.rows[i].state = "replaying" THEN Released(r.rows[i]) ELSE r.rows[i]]
  BY SoundFacts, RecoverTable
<1> HIDE DEF n
<1>2. DOMAIN n.rows = DOMAIN r.rows
      /\ \A i \in DOMAIN r.rows : r.rows[i].state # "replaying" => n.rows[i] = r.rows[i]
  BY <1>1
<1>3. Reopens(r, n, {})
  BY <1>2 DEF Reopens, IsTerminal, TerminalStates
<1>4. QED
  BY <1>3 DEF n

\* What is marked at t has been terminal for no time, so that only a retention
\* of zero lets the same call strike it off.
LEMMA PruneStrikes ==
  ASSUME NEW r, Good(r), NEW fullOutage, NEW t \in Nat
  PROVE  /\ Strikes(r, MarkExpiredPendingRows(r, fullOutage, t))
         /\ Strikes(r, PruneExpired(r, fullOutage, t))
<1> DEFINE ids == First(IngestOrder(r.rows), ExpiredPendingRows(r, fullOutage, t),
                        PruneBatchSize)
           m == MarkExpiredPendingRows(r, fullOutage, t)
           n == DeleteExpiredTerminalRows(m, t)
           gone == Expired(m, t)
<1>1. m.rows = [i \in DOMAIN r.rows |->
                  IF i \in ids THEN Updated(r.rows[i], "dead_letter", NULL, t)
                  ELSE r.rows[i]]
  BY UpdateReplayRowsTable DEF MarkExpiredPendingRows, DeadLetter, Good
<1>2. \A i \in DOMAIN r.rows : r.rows[i] \in Row
  BY ReservoirFacts DEF Good
<1>3. ASSUME NEW row \in Row
      PROVE  /\ Updated(row, "dead_letter", NULL, t).state = "dead_letter"
             /\ Updated(row, "dead_letter", NULL, t).terminalAt = t
  BY DEF Row, Updated, TerminalStates
<1>4. IsReservoir(m)
  BY PruneMoves, SoundFacts DEF Moves
<1> HIDE DEF ids, m
<1>5. /\ DOMAIN m.rows = DOMAIN r.rows
      /\ \A i \in DOMAIN r.rows :
           \/ m.rows[i] = r.rows[i]
           \/ m.rows[i].state = "dead_letter" /\ m.rows[i].terminalAt = t
  BY <1>1, <1>2, <1>3
<1>6. n.rows = [i \in (DOMAIN m.rows) \ gone |-> m.rows[i]]
      /\ gone \subseteq ExpiredTerminalRows(m, t)
  BY <1>4, DeleteTable
<1> HIDE DEF n, gone
<1>7. \A row : row.state = "dead_letter" => IsTerminal(row)
  BY DEF IsTerminal, TerminalStates
<1>8. Strikes(r, m)
  BY <1>5, <1>7 DEF Strikes
<1>9. ASSUME NEW i \in gone \cap DOMAIN r.rows, DeadLetterRetention # 0
      PROVE  IsTerminal(r.rows[i])
  <2>1. /\ m.rows[i].state \in TerminalStates
        /\ m.rows[i].terminalAt <= t - (IF m.rows[i].state = "delivered"
                                        THEN DeliveredRetention ELSE DeadLetterRetention)
    BY <1>6, <1>9 DEF ExpiredTerminalRows, InState
  <2>2. ~(m.rows[i].state = "dead_letter" /\ m.rows[i].terminalAt = t)
    BY <2>1, <1>9, RetentionAssumption
  <2>3. QED
    BY <1>5, <2>1, <2>2 DEF IsTerminal
<1>10. Strikes(r, n)
  <2>1. /\ DOMAIN n.rows = (DOMAIN r.rows) \ gone
        /\ \A i \in DOMAIN n.rows : n.rows[i] = m.rows[i]
    BY <1>5, <1>6
  <2>2. QED
    BY <1>5, <1>7, <1>9, <2>1 DEF Strikes
<1>11. n = PruneExpired(r, fullOutage, t)
  BY DEF n, m, PruneExpired
<1>12. QED
  BY <1>8, <1>10, <1>11 DEF m

\* The row of a new event is sound and due.
LEMMA NewRowSane ==
  ASSUME NEW bytes, NEW mode, NEW state \in {"pending", "delivered"}, NEW t \in Nat
  PROVE  LET row == NewRow(bytes, mode, state, t)
         IN  /\ row.ingestAt = t /\ \A s : Due(row, s)
             /\ \A first \in 0..t : Sane(row, first)
  BY NullAssumption DEF NewRow, Sane, Consistent, Timely, Due, TerminalStates

-----------------------------------------------------------------------------
(* The monitor.                                                            *)

SoundMon(m) == IsMonitor(m) /\ Good(m.res)

\* A session in one of these states closes no gate.
OpenStates == {"idle", "aborted"}

\* m may become n by calls that write off the rows ids at most, and that end a
\* session only when nothing is left to replay.
SessionKept(m, n) ==
  n.session.state \in OpenStates =>
    n.session.state = m.session.state \/ n.res.cached = 0
Keeps(m, n, ids) ==
  /\ SoundMon(n)
  /\ Moves(m.res, n.res, ids)
  /\ SessionKept(m, n)

\* The rows stay as they are, and a session that runs or waits goes on.
Steady(m, n) ==
  /\ n.res = m.res
  /\ \/ /\ n.session.state = m.session.state
        /\ n.session.retryAt = m.session.retryAt
     \/ m.session.state = "completed" /\ n.session.state = "idle"

LEMMA MonitorParts ==
  ASSUME NEW m, SoundMon(m)
  PROVE  /\ Good(m.res) /\ IsReservoir(m.res)
         /\ m.session \in Session /\ m.health \in HealthTable
         /\ m.res.seq \in Nat
         /\ DOMAIN m.res.rows \subseteq 1..m.res.seq
<1>1. Good(m.res)
  BY DEF SoundMon
<1>2. m.session \in Session /\ m.health \in HealthTable
  BY DEF SoundMon, IsMonitor
<1>3. QED
  BY <1>1, <1>2, SoundFacts

LEMMA KeepsNot == ASSUME NEW m, SoundMon(m), NEW ids PROVE Keeps(m, m, ids)
  BY MovesNot DEF Keeps, SessionKept, SoundMon

LEMMA KeepsThen ==
  ASSUME NEW m, NEW n, NEW p, NEW ids, NEW jds, Keeps(m, n, ids), Keeps(n, p, jds),
         \/ n.session.state = m.session.state
         \/ n.session.state \notin OpenStates
         \/ p.res = n.res
  PROVE  Keeps(m, p, ids \cup jds)
<1>1. Moves(m.res, p.res, ids \cup jds)
  BY MovesTwice DEF Keeps
<1>2. SessionKept(m, p)
  BY DEF Keeps, SessionKept
<1>3. QED
  BY <1>1, <1>2 DEF Keeps

LEMMA KeepsTwice ==
  ASSUME NEW m, NEW n, NEW p, NEW ids, Keeps(m, n, {}), Keeps(n, p, ids),
         \/ n.session.state = m.session.state
         \/ n.session.state \notin OpenStates
         \/ p.res = n.res
  PROVE  Keeps(m, p, ids)
<1>1. Keeps(m, p, {} \cup ids)
  BY KeepsThen
<1>2. {} \cup ids = ids
  OBVIOUS
<1>3. QED
  BY <1>1, <1>2

\* A call on the reservoir alone.
LEMMA ResReplaced ==
  ASSUME NEW m, SoundMon(m), NEW r, NEW ids, Moves(m.res, r, ids)
  PROVE  LET n == [m EXCEPT !.res = r]
         IN  /\ Keeps(m, n, ids)
             /\ n.res = r /\ n.session = m.session /\ n.health = m.health
<1> DEFINE n == [m EXCEPT !.res = r]
<1>1. IsMonitor(m) /\ IsReservoir(r) /\ Good(r)
  BY SoundFacts DEF SoundMon, Moves
<1>2. n.res = r /\ n.session = m.session /\ n.health = m.health
  BY <1>1 DEF IsMonitor
<1>3. n \in [res: {n.res}, session: Session, health: HealthTable, needed: BOOLEAN,
             observed: BOOLEAN, evidence: SUBSET Components, ready: BOOLEAN]
  BY <1>1 DEF IsMonitor
<1> HIDE DEF n
<1>4. IsMonitor(n)
  BY <1>1, <1>2, <1>3 DEF IsMonitor
<1>5. QED
  BY <1>1, <1>2, <1>4 DEF Keeps, SoundMon, SessionKept, n

\* A change of the session alone.
LEMMA SessionReplaced ==
  ASSUME NEW m, SoundMon(m), NEW s \in Session,
         \/ s.state \notin OpenStates
         \/ s.state = m.session.state
         \/ m.res.cached = 0
  PROVE  LET n == [m EXCEPT !.session = s]
         IN  /\ Keeps(m, n, {})
             /\ n.res = m.res /\ n.session = s /\ n.health = m.health
<1> DEFINE n == [m EXCEPT !.session = s]
<1>1. IsMonitor(m) /\ Good(m.res) /\ IsReservoir(m.res)
  BY MonitorParts DEF SoundMon
<1>2. n.res = m.res /\ n.session = s /\ n.health = m.health
  BY <1>1 DEF IsMonitor
<1>3. n \in [res: {n.res}, session: Session, health: HealthTable, needed: BOOLEAN,
             observed: BOOLEAN, evidence: SUBSET Components, ready: BOOLEAN]
  BY <1>1 DEF IsMonitor
<1> HIDE DEF n
<1>4. IsMonitor(n)
  BY <1>1, <1>2, <1>3 DEF IsMonitor
<1>5. Moves(m.res, n.res, {})
  BY <1>1, <1>2, MovesNot
<1>6. QED
  BY <1>1, <1>2, <1>4, <1>5 DEF Keeps, SoundMon, SessionKept, n

LEMMA FreshSession ==
  ASSUME NEW state \in SessionStates
  PROVE  Fresh(state) \in Session /\ Fresh(state).state = state
  BY DEF Fresh, Session, OptionalNat

-----------------------------------------------------------------------------
(* Replay.                                                                 *)

LEMMA QueueKeeps ==
  ASSUME NEW m, SoundMon(m), NEW t
  PROVE  LET n == QueueIfNeeded(m, t)
         IN  /\ Keeps(m, n, {}) /\ n.res = m.res /\ n.health = m.health
             /\ n.session = m.session \/ n.session.state = "queued"
<1>1. CASE QueueIfNeeded(m, t) = m
  BY <1>1, KeepsNot
<1>2. CASE QueueIfNeeded(m, t) = [m EXCEPT !.session = Fresh("queued")]
  <2>1. Fresh("queued") \in Session /\ Fresh("queued").state = "queued"
    BY FreshSession DEF SessionStates
  <2>2. "queued" \notin OpenStates
    BY DEF OpenStates
  <2>3. QED
    BY <1>2, <2>1, <2>2, SessionReplaced
<1>3. QED
  BY <1>1, <1>2 DEF QueueIfNeeded

\* A start ends the session where nothing is pending, else it runs.
LEMMA StartKeeps ==
  ASSUME NEW m, SoundMon(m), NEW n, n = Start(m)
  PROVE  /\ Keeps(m, n, {}) /\ n.res = m.res /\ n.health = m.health
         /\ n.session.state = "running" \/ n.res.cached = 0
<1>1. /\ Fresh("idle") \in Session /\ Fresh("idle").state = "idle"
      /\ Fresh("running") \in Session /\ Fresh("running").state = "running"
  BY FreshSession DEF SessionStates
<1>2. "running" \notin OpenStates
  BY DEF OpenStates
<1>3. \/ m.res.cached = 0 /\ n = [m EXCEPT !.session = Fresh("idle")]
      \/ m.session.state = "running" /\ n = m
      \/ n = [m EXCEPT !.session = Fresh("running")]
  BY DEF Start, Backlog
<1>4. CASE m.res.cached = 0 /\ n = [m EXCEPT !.session = Fresh("idle")]
  BY <1>1, <1>4, SessionReplaced
<1>5. CASE m.session.state = "running" /\ n = m
  BY <1>5, KeepsNot
<1>6. CASE n = [m EXCEPT !.session = Fresh("running")]
  BY <1>1, <1>2, <1>6, SessionReplaced
<1>7. QED
  BY <1>3, <1>4, <1>5, <1>6

LEMMA ClaimStartedKeeps ==
  ASSUME NEW m, SoundMon(m)
  PROVE  LET n == ClaimStarted(m)
         IN  Keeps(m, n, {}) /\ n.res = m.res /\ n.health = m.health
<1>1. CASE m.session.state = "queued"
  BY <1>1, StartKeeps DEF ClaimStarted
<1>2. CASE m.session.state # "queued"
  BY <1>2, KeepsNot DEF ClaimStarted
<1>3. QED
  BY <1>1, <1>2

\* What a claim that may go on works with.
LEMMA ClaimReadyKeeps ==
  ASSUME NEW m, SoundMon(m), MayClaim(m), NEW t \in Nat
  PROVE  LET n == ClaimReady(m, t)
         IN  Keeps(m, n, {}) /\ n.session.state = "running" /\ n.res.seq = m.res.seq
<1> DEFINE c == ClaimStarted(m)
           r == ReclaimStaleReplayRows(c.res, RetryBackoff, t)
           n == [c EXCEPT !.res = r]
<1>1. Keeps(m, c, {}) /\ c.res = m.res /\ c.session.state = "running"
  BY ClaimStartedKeeps DEF MayClaim
<1>2. ClaimReady(m, t) = n
  BY <1>1 DEF ClaimReady, Keeps, SoundMon, IsMonitor
<1> HIDE DEF c
<1>3. SoundMon(c) /\ Good(c.res)
  BY <1>1 DEF Keeps, SoundMon
<1>4. Moves(c.res, r, {})
  BY <1>3, ReclaimMoves
<1> HIDE DEF r
<1>5. Keeps(c, n, {}) /\ n.res = r /\ n.session = c.session
  BY <1>3, <1>4, ResReplaced
<1> HIDE DEF n
<1>6. "running" \notin OpenStates
  BY DEF OpenStates
<1>7. Keeps(m, n, {})
  BY <1>1, <1>5, <1>6, KeepsTwice
<1>8. n.res.seq = m.res.seq
  BY <1>7 DEF Keeps, Moves
<1>9. QED
  BY <1>1, <1>2, <1>5, <1>7, <1>8

\* A claim: nothing is written off, and the rows it takes are stored.
LEMMA ClaimKeeps ==
  ASSUME NEW m, SoundMon(m), MayClaim(m), NEW limit, NEW t \in Nat
  PROVE  /\ Keeps(m, ClaimNextBatch(m, limit, t), {})
         /\ BatchOf(m, limit, t) \subseteq 1..m.res.seq
<1> DEFINE y == ClaimReady(m, t)
           r == ClaimReplayBatch(y.res, limit, t)
<1>1. Keeps(m, y, {}) /\ y.session.state = "running" /\ y.res.seq = m.res.seq
  BY ClaimReadyKeeps
<1>2. SoundMon(y) /\ Good(y.res)
  BY <1>1 DEF Keeps, SoundMon
<1> HIDE DEF y
<1>3. BatchOf(m, limit, t) \subseteq 1..m.res.seq
  <2>1. BatchOf(m, limit, t) \subseteq DOMAIN y.res.rows
    BY DEF BatchOf, ClaimBatch, ClaimableRows, First, InState, y
  <2>2. QED
    BY <1>1, <1>2, <2>1, MonitorParts
<1>4. "running" \notin OpenStates /\ "completed" \notin OpenStates
  BY DEF OpenStates
<1>5. \/ ClaimNextBatch(m, limit, t) = [y EXCEPT !.res = r]
      \/ ClaimNextBatch(m, limit, t) = Complete(y)
      \/ ClaimNextBatch(m, limit, t) = y
  BY <1>2 DEF ClaimNextBatch, y, SoundMon, IsMonitor
<1>6. Keeps(m, [y EXCEPT !.res = r], {})
  <2>1. Moves(y.res, r, {})
    BY <1>2, ClaimMoves
  <2> HIDE DEF r
  <2>2. Keeps(y, [y EXCEPT !.res = r], {})
    BY <1>2, <2>1, ResReplaced
  <2>3. QED
    BY <1>1, <1>4, <2>2, KeepsTwice
<1>7. Keeps(m, Complete(y), {})
  <2>1. Fresh("completed") \in Session /\ Fresh("completed").state = "completed"
    BY FreshSession DEF SessionStates
  <2>2. Keeps(y, Complete(y), {})
    BY <1>2, <1>4, <2>1, SessionReplaced DEF Complete
  <2>3. QED
    BY <1>1, <1>4, <2>2, KeepsTwice
<1>8. QED
  BY <1>1, <1>3, <1>5, <1>6, <1>7

\* A claim that fails in one of its writes.
LEMMA ClaimPrefixesKeep ==
  ASSUME NEW m, SoundMon(m), NEW t \in Nat, NEW n \in ClaimPrefixes(m, t)
  PROVE  Keeps(m, n, {})
<1> DEFINE c == ClaimStarted(m)
<1>1. Keeps(m, c, {}) /\ SoundMon(c)
  BY ClaimStartedKeeps DEF Keeps
<1>2. CASE n = m
  BY <1>2, KeepsNot
<1>3. CASE n = c
  BY <1>1, <1>3
<1>4. CASE MayClaim(m) /\ n \in PartlyReclaimed(c, t)
  <2>1. c.session.state = "running" /\ "running" \notin OpenStates
    BY <1>4 DEF MayClaim, OpenStates
  <2> HIDE DEF c
  <2>2. PICK k : n = [c EXCEPT !.res = ReclaimPasses(c.res, RetryBackoff, k, t)]
    <3>1. PICK k \in 0..Cardinality(StaleRows(c.res, RetryBackoff, t)) :
                 n = [c EXCEPT !.res = ReclaimPasses(@, RetryBackoff, k, t)]
      BY <1>4, Zenon DEF PartlyReclaimed
    <3>2. n = [c EXCEPT !.res = ReclaimPasses(c.res, RetryBackoff, k, t)]
      BY <1>1, <3>1 DEF SoundMon, IsMonitor
    <3>3. QED
      BY <3>2
  <2>3. Moves(c.res, ReclaimPasses(c.res, RetryBackoff, k, t), {})
    BY <1>1, ReclaimMoves DEF SoundMon
  <2>4. Keeps(c, n, {})
    BY <1>1, <2>2, <2>3, ResReplaced
  <2>5. QED
    BY <1>1, <2>1, <2>4, KeepsTwice
<1>5. QED
  BY <1>2, <1>3, <1>4, Zenon DEF ClaimPrefixes

LEMMA DeliveredKeeps ==
  ASSUME NEW m, SoundMon(m), NEW ids, NEW t \in Nat
  PROVE  LET n == RowsDelivered(m, ids, t)
         IN  Keeps(m, n, ids) /\ n.session = m.session
<1> DEFINE r == MarkDelivered(m.res, ids, t)
<1>1. RowsDelivered(m, ids, t) = [m EXCEPT !.res = r]
  BY DEF RowsDelivered, SoundMon, IsMonitor
<1>2. Moves(m.res, r, ids)
  BY NamedUpdatesMove DEF SoundMon
<1> HIDE DEF r
<1>3. QED
  BY <1>1, <1>2, ResReplaced

\* An acknowledgement writes off the rows it names.
LEMMA AcknowledgeKeeps ==
  ASSUME NEW m, SoundMon(m), NEW ids, NEW t \in Nat
  PROVE  /\ Keeps(m, AcknowledgeBatch(m, ids, t), ids)
         /\ \A n \in AcknowledgePrefixes(m, ids, t) :
              Keeps(m, n, ids) /\ n.session = m.session
<1> DEFINE d == RowsDelivered(m, ids, t)
<1>1. Keeps(m, d, ids) /\ d.session = m.session /\ SoundMon(d)
  BY DeliveredKeeps DEF Keeps
<1>2. \/ AcknowledgeBatch(m, ids, t) = d
      \/ AcknowledgeBatch(m, ids, t) = Complete(d)
  BY DEF AcknowledgeBatch
<1>3. \A n \in AcknowledgePrefixes(m, ids, t) : n = m \/ n = d
  BY DEF AcknowledgePrefixes
<1> HIDE DEF d
<1>4. Keeps(m, Complete(d), ids)
  <2>1. /\ Fresh("completed") \in Session /\ Fresh("completed").state = "completed"
        /\ "completed" \notin OpenStates
    BY FreshSession DEF SessionStates, OpenStates
  <2>2. Keeps(d, Complete(d), {}) /\ Complete(d).res = d.res
        /\ Complete(d).session = Fresh("completed")
    BY <1>1, <2>1, SessionReplaced DEF Complete
  <2>3. QED
    BY <1>1, <2>1, <2>2 DEF Keeps, SessionKept
<1>5. QED
  BY <1>1, <1>2, <1>3, <1>4, KeepsNot

\* A failure writes off nothing, whatever rows it names.
LEMMA FailKeeps ==
  ASSUME NEW m, SoundMon(m), NEW ids, NEW t \in Nat
  PROVE  /\ Keeps(m, Fail(m, ids, t), {})
         /\ \A n \in FailPrefixes(m, ids, t) : Keeps(m, n, {})
<1> DEFINE r == ResetToPending(m.res, ids, t + RetryBackoff, t)
           y == [m EXCEPT !.res = r]
           s == [y.session EXCEPT !.state = "failed", !.retryAt = t + RetryBackoff]
<1>1. RowsRetried(m, ids, t) = y
  BY DEF RowsRetried, SoundMon, IsMonitor
<1>2. t + RetryBackoff \in Nat /\ t + RetryBackoff \in OptionalNat
  BY ReplayAssumption DEF OptionalNat
<1>3. Moves(m.res, r, {})
  BY <1>2, NamedUpdatesMove DEF SoundMon
<1> HIDE DEF r
<1>4. Keeps(m, y, {}) /\ y.session = m.session
  BY <1>3, ResReplaced
<1> HIDE DEF y
<1>5. SoundMon(y) /\ y.session \in Session
  BY <1>4, MonitorParts DEF Keeps
<1>6. s \in Session /\ s.state = "failed" /\ "failed" \notin OpenStates
  BY <1>2, <1>5 DEF Session, SessionStates, OpenStates
<1>7. Fail(m, ids, t) = [y EXCEPT !.session = s]
  <2>1. Fail(m, ids, t) = [y EXCEPT !.session.state = "failed",
                                    !.session.retryAt = t + RetryBackoff]
    BY <1>1 DEF Fail
  <2>2. y \in [res: {y.res}, session: Session, health: HealthTable, needed: BOOLEAN,
               observed: BOOLEAN, evidence: SUBSET Components, ready: BOOLEAN]
    BY <1>5 DEF SoundMon, IsMonitor
  <2>3. QED
    BY <2>1, <2>2 DEF Session
<1> HIDE DEF s
<1>8. Keeps(y, Fail(m, ids, t), {})
  BY <1>5, <1>6, <1>7, SessionReplaced
<1>9. Keeps(m, Fail(m, ids, t), {})
  BY <1>4, <1>8, KeepsTwice
<1>10. \A n \in FailPrefixes(m, ids, t) : n = m \/ n = y
  BY <1>1 DEF FailPrefixes
<1>11. QED
  BY <1>4, <1>9, <1>10, KeepsNot

\* The gate opens on a confirmation only where nothing is left to replay.
LEMMA RecoveryKeeps ==
  ASSUME NEW m, SoundMon(m), NEW component, NEW state, NEW allHealthy
  PROVE  LET n == RecoveryObserved(m, component, state, allHealthy)
         IN  /\ Keeps(m, n, {}) /\ Steady(m, n) /\ n.health = m.health
             /\ \A p \in RecoveryPrefixes(m, component, state, allHealthy) :
                  Keeps(m, p, {}) /\ Steady(m, p)
<1> DEFINE count == IF m.session.heartbeats + 1 < RequiredHeartbeats
                    THEN m.session.heartbeats + 1 ELSE RequiredHeartbeats
           n == RecoveryObserved(m, component, state, allHealthy)
           beats(k) == [m EXCEPT !.session = [m.session EXCEPT !.heartbeats = k]]
<1>1. m.session \in Session /\ m.session.heartbeats \in Nat
  BY MonitorParts DEF Session
<1>2. count \in Nat
  BY <1>1, ReplayAssumption
<1> HIDE DEF count
<1>3. \A k : [m EXCEPT !.session.heartbeats = k] = beats(k)
  BY DEF SoundMon, IsMonitor
<1> DEFINE c == RecoveryCounted(m, component, state, allHealthy)
<1>4. c = m \/ c = beats(0) \/ c = beats(count)
  <2>1. c = IF Disregarded(m, component) THEN m
            ELSE [m EXCEPT !.session.heartbeats =
                    IF Confirms(state, allHealthy) THEN count ELSE 0]
    BY DEF RecoveryCounted, count
  <2> HIDE DEF c, beats
  <2>2. QED
    BY <1>3, <2>1, Zenon
<1> HIDE DEF c, beats
<1>5. \/ n = c
      \/ /\ m.session.state = "completed" /\ m.res.cached = 0
         /\ n = [m EXCEPT !.session = Fresh("idle")]
  BY Zenon DEF RecoveryObserved, Backlog, c
<1> HIDE DEF n
<1>6. ASSUME NEW k \in Nat
      PROVE  /\ Keeps(m, beats(k), {}) /\ Steady(m, beats(k))
             /\ beats(k).health = m.health
  <2> DEFINE s == [m.session EXCEPT !.heartbeats = k]
  <2>1. s \in Session
    BY <1>1 DEF Session
  <2>2. s.state = m.session.state /\ s.retryAt = m.session.retryAt
    BY <1>1 DEF Session
  <2> HIDE DEF s
  <2>3. LET y == [m EXCEPT !.session = s]
        IN  /\ Keeps(m, y, {}) /\ y.res = m.res /\ y.session = s
            /\ y.health = m.health
    BY <2>1, <2>2, SessionReplaced
  <2>4. QED
    BY <2>2, <2>3 DEF Steady, beats, s
<1>7. Keeps(m, c, {}) /\ Steady(m, c) /\ c.health = m.health
  <2>1. CASE c = m
    BY <2>1, KeepsNot DEF Steady
  <2>2. CASE c = beats(0) \/ c = beats(count)
    <3>1. 0 \in Nat
      OBVIOUS
    <3>2. QED
      BY <1>2, <1>6, <2>2, <3>1
  <2>3. QED
    BY <1>4, <2>1, <2>2
<1>8. Keeps(m, n, {}) /\ Steady(m, n) /\ n.health = m.health
  <2>1. CASE n = c
    BY <1>7, <2>1
  <2>2. CASE /\ m.session.state = "completed" /\ m.res.cached = 0
             /\ n = [m EXCEPT !.session = Fresh("idle")]
    <3>1. Fresh("idle") \in Session /\ Fresh("idle").state = "idle"
      BY FreshSession DEF SessionStates
    <3>2. LET y == [m EXCEPT !.session = Fresh("idle")]
          IN  /\ Keeps(m, y, {}) /\ y.res = m.res /\ y.session = Fresh("idle")
              /\ y.health = m.health
      BY <2>2, <3>1, SessionReplaced
    <3>3. QED
      BY <2>2, <3>1, <3>2 DEF Steady
  <2>3. QED
    BY <1>5, <2>1, <2>2
<1>9. \A p \in RecoveryPrefixes(m, component, state, allHealthy) :
        Keeps(m, p, {}) /\ Steady(m, p)
  <2>1. Keeps(m, m, {}) /\ Steady(m, m)
    BY KeepsNot DEF Steady
  <2>2. RecoveryPrefixes(m, component, state, allHealthy) = {m, c}
    BY DEF RecoveryPrefixes, c
  <2>3. QED
    BY <1>7, <2>1, <2>2
<1>10. QED
  BY <1>8, <1>9 DEF n

-----------------------------------------------------------------------------
(* Health.                                                                 *)

\* Only flags and the health table differ.
LEMMA FlagsChanged ==
  ASSUME NEW m, SoundMon(m), NEW n, IsMonitor(n), n.res = m.res, n.session = m.session
  PROVE  Keeps(m, n, {})
<1>1. Good(m.res) /\ Moves(m.res, m.res, {})
  BY MovesNot DEF SoundMon
<1>2. QED
  BY <1>1 DEF Keeps, SoundMon, SessionKept

LEMMA ComponentUpdatedType ==
  ASSUME NEW h \in HealthTable, NEW c \in Components, NEW s \in HealthStates, NEW t \in Nat
  PROVE  ComponentUpdated(h, c, s, t) \in HealthTable
  BY DEF ComponentUpdated, HealthTable

LEMMA StatesRefreshedType ==
  ASSUME NEW h \in HealthTable, NEW t \in Nat
  PROVE  StatesRefreshed(h, t) \in HealthTable
<1> DEFINE derived(c) == StateFromElapsed(c, t - h[c].heartbeatAt)
<1>1. \A c \in Components : derived(c) \in HealthStates
  BY DEF StateFromElapsed, HealthStates
<1> HIDE DEF derived
<1>2. \A c \in Components : ComponentUpdated(h, c, derived(c), t) \in HealthTable
  BY <1>1, ComponentUpdatedType
<1>3. StatesRefreshed(h, t) =
        [c \in Components |-> IF derived(c) # h[c].state
                              THEN ComponentUpdated(h, c, derived(c), t)[c] ELSE h[c]]
  BY DEF StatesRefreshed, derived
<1>4. \A c \in Components :
        /\ ComponentUpdated(h, c, derived(c), t)[c] \in [state: HealthStates, heartbeatAt: Nat]
        /\ h[c] \in [state: HealthStates, heartbeatAt: Nat]
  BY <1>2 DEF HealthTable
<1>5. QED
  BY <1>3, <1>4 DEF HealthTable

LEMMA EvidenceKeeps ==
  ASSUME NEW m, SoundMon(m), NEW h \in HealthTable, NEW c \in Components, NEW state,
         NEW n, n = EvidenceRecorded([m EXCEPT !.health = h], c, state)
  PROVE  IsMonitor(n) /\ n.res = m.res /\ n.session = m.session /\ n.health = h
<1> DEFINE y == [m EXCEPT !.health = h]
           seen == IF state = "online" THEN y.evidence \cup {c} ELSE y.evidence
<1>1. /\ y \in [res: {y.res}, session: Session, health: HealthTable, needed: BOOLEAN,
                observed: BOOLEAN, evidence: SUBSET Components, ready: BOOLEAN]
      /\ y.res = m.res /\ y.session = m.session /\ y.health = h
  BY DEF SoundMon, IsMonitor
<1>2. IsMonitor(y)
  BY <1>1 DEF SoundMon, IsMonitor
<1> HIDE DEF y
<1>3. seen \in SUBSET Components
  BY <1>1
<1>4. n = y \/ n = [y EXCEPT !.evidence = seen, !.ready = @ \/ seen = Components]
  BY DEF EvidenceRecorded, y
<1> HIDE DEF seen
<1>5. \A b \in BOOLEAN :
        LET p == [y EXCEPT !.evidence = seen, !.ready = b]
        IN  /\ p.res = y.res /\ p.session = y.session /\ p.health = y.health
            /\ p \in [res: {p.res}, session: Session, health: HealthTable, needed: BOOLEAN,
                      observed: BOOLEAN, evidence: SUBSET Components, ready: BOOLEAN]
  BY <1>1, <1>3
<1>6. \E b \in BOOLEAN :
        [y EXCEPT !.evidence = seen, !.ready = @ \/ seen = Components]
          = [y EXCEPT !.evidence = seen, !.ready = b]
  <2>1. [y EXCEPT !.evidence = seen, !.ready = @ \/ seen = Components]
          = [y EXCEPT !.evidence = seen, !.ready = (y.ready \/ seen = Components)]
    BY <1>1
  <2>2. (y.ready \/ seen = Components) \in BOOLEAN
    OBVIOUS
  <2>3. QED
    BY <2>1, <2>2, Zenon
<1>7. CASE n = y
  BY <1>1, <1>2, <1>7
<1>8. CASE n = [y EXCEPT !.evidence = seen, !.ready = @ \/ seen = Components]
  <2>1. PICK b \in BOOLEAN : n = [y EXCEPT !.evidence = seen, !.ready = b]
    BY <1>6, <1>8, Zenon
  <2>2. /\ n.res = y.res /\ n.session = y.session /\ n.health = y.health
        /\ n \in [res: {n.res}, session: Session, health: HealthTable, needed: BOOLEAN,
                  observed: BOOLEAN, evidence: SUBSET Components, ready: BOOLEAN]
    BY <1>5, <2>1, Zenon
  <2>3. QED
    BY <1>1, <1>2, <2>2 DEF IsMonitor
<1>9. QED
  BY <1>4, <1>7, <1>8

\* Two flags are set after it.
LEMMA FlagsKept ==
  ASSUME NEW m, IsMonitor(m), NEW a \in BOOLEAN, NEW b \in BOOLEAN
  PROVE  /\ LET n == [m EXCEPT !.observed = a, !.needed = b]
            IN  IsMonitor(n) /\ n.res = m.res /\ n.session = m.session /\ n.health = m.health
         /\ LET n == [m EXCEPT !.needed = b]
            IN  IsMonitor(n) /\ n.res = m.res /\ n.session = m.session /\ n.health = m.health
  BY DEF IsMonitor

LEMMA NeedResetKeeps ==
  ASSUME NEW m, SoundMon(m)
  PROVE  LET n == NeedReset(m)
         IN  Keeps(m, n, {}) /\ n.res = m.res /\ n.session = m.session /\ n.health = m.health
<1>1. NeedReset(m) = m \/ NeedReset(m) = [m EXCEPT !.needed = FALSE]
  BY DEF NeedReset
<1>2. CASE NeedReset(m) = m
  BY <1>2, KeepsNot
<1>3. CASE NeedReset(m) = [m EXCEPT !.needed = FALSE]
  <2>1. LET n == [m EXCEPT !.needed = FALSE]
        IN  IsMonitor(n) /\ n.res = m.res /\ n.session = m.session /\ n.health = m.health
    BY FlagsKept, Zenon DEF SoundMon
  <2>2. QED
    BY <1>3, <2>1, FlagsChanged
<1>4. QED
  BY <1>1, <1>2, <1>3

LEMMA HealthFlaggedKeeps ==
  ASSUME NEW m, SoundMon(m), NEW c \in Components, NEW s \in HealthStates, NEW t \in Nat
  PROVE  /\ LET n == HealthTracked(m, c, s, t)
            IN  Keeps(m, n, {}) /\ n.res = m.res /\ n.session = m.session
         /\ LET n == HealthFlagged(m, c, s, t)
            IN  Keeps(m, n, {}) /\ n.res = m.res /\ n.session = m.session
<1> DEFINE y == HealthTracked(m, c, s, t)
           h == ComponentUpdated(m.health, c, s, t)
<1>1. h \in HealthTable
  BY MonitorParts, ComponentUpdatedType
<1>2. y = EvidenceRecorded([m EXCEPT !.health = h], c, s)
  BY DEF HealthTracked, SoundMon, IsMonitor
<1> HIDE DEF h, y
<1>3. IsMonitor(y) /\ y.res = m.res /\ y.session = m.session
  BY <1>1, <1>2, EvidenceKeeps
<1>4. Keeps(m, y, {})
  BY <1>3, FlagsChanged
<1> DEFINE a == y.observed \/ (c # "transport" /\ StateOf(m, c) # s)
           b == y.needed \/ (c # "transport" /\ s = "offline")
           n == HealthFlagged(m, c, s, t)
<1>5. n = [y EXCEPT !.observed = a, !.needed = b]
  <2>1. n = [y EXCEPT !.observed = @ \/ (c # "transport" /\ StateOf(m, c) # s),
                      !.needed = @ \/ (c # "transport" /\ s = "offline")]
    BY Zenon DEF HealthFlagged, y
  <2>2. y \in [res: {y.res}, session: Session, health: HealthTable, needed: BOOLEAN,
               observed: BOOLEAN, evidence: SUBSET Components, ready: BOOLEAN]
    BY <1>3 DEF IsMonitor
  <2>3. \A u, v : [[y EXCEPT !.observed = u] EXCEPT !.needed = v]
                    = [y EXCEPT !.observed = u, !.needed = v]
    OBVIOUS
  <2>4. \A u : [y EXCEPT !.observed = u].needed = y.needed
    BY <2>2
  <2>5. QED
    BY <2>1, <2>4, Zenon
<1>6. a \in BOOLEAN /\ b \in BOOLEAN
  OBVIOUS
<1> HIDE DEF a, b
<1>7. IsMonitor(n) /\ n.res = y.res /\ n.session = y.session
  <2> DEFINE q == [y EXCEPT !.observed = a, !.needed = b]
  <2>1. IsMonitor(q) /\ q.res = y.res /\ q.session = y.session
    BY <1>3, <1>6, FlagsKept
  <2> HIDE DEF q, n
  <2>2. n = q
    BY <1>5 DEF q
  <2>3. QED
    BY <2>1, <2>2
<1>8. Keeps(m, n, {}) /\ n.res = m.res /\ n.session = m.session
  BY <1>3, <1>7, FlagsChanged
<1>9. QED
  BY <1>3, <1>4, <1>8 DEF n, y

\* A report of a component's health.
LEMMA HealthKeeps ==
  ASSUME NEW m, SoundMon(m), NEW c \in Components, NEW s \in HealthStates, NEW t \in Nat
  PROVE  \A n \in {HealthUpdated(m, c, s, t)} \cup HealthPrefixes(m, c, s, t) :
           Keeps(m, n, {}) /\ Steady(m, n)
<1> DEFINE f == HealthFlagged(m, c, s, t)
           g == RecoveryObserved(f, c, s, TargetsOnline(f))
           n == NeedReset(g)
<1>1. /\ Keeps(m, f, {}) /\ f.res = m.res /\ f.session = m.session
      /\ Keeps(m, HealthTracked(m, c, s, t), {}) /\ Steady(m, HealthTracked(m, c, s, t))
  BY HealthFlaggedKeeps DEF Steady
<1>2. HealthUpdated(m, c, s, t) = n
  BY DEF HealthUpdated
<1> DEFINE early == RecoveryPrefixes(f, c, s, TargetsOnline(f))
<1>3. HealthPrefixes(m, c, s, t) = {HealthTracked(m, c, s, t)} \cup early
  BY DEF HealthPrefixes
<1>4. SoundMon(f)
  BY <1>1 DEF Keeps
<1> HIDE DEF f
<1>5. /\ Keeps(f, g, {}) /\ Steady(f, g)
      /\ \A x \in early : Keeps(f, x, {}) /\ Steady(f, x)
  BY <1>4, RecoveryKeeps
<1> HIDE DEF early
<1>6. Keeps(m, g, {}) /\ Steady(m, g) /\ SoundMon(g)
  <2>1. Keeps(m, g, {})
    BY <1>1, <1>5, KeepsTwice DEF Steady
  <2>2. QED
    BY <1>1, <1>5, <2>1 DEF Keeps, Steady
<1> HIDE DEF g
<1>7. Keeps(g, n, {}) /\ n.res = g.res /\ n.session = g.session
  BY <1>6, NeedResetKeeps
<1> HIDE DEF n
<1>8. Keeps(m, n, {}) /\ Steady(m, n)
  BY <1>6, <1>7, KeepsTwice DEF Steady
<1>9. \A x \in early : Keeps(m, x, {}) /\ Steady(m, x)
  BY <1>1, <1>5, KeepsTwice DEF Steady
<1>10. QED
  BY <1>1, <1>2, <1>3, <1>8, <1>9

\* A heartbeat.
LEMMA HeartbeatKeeps ==
  ASSUME NEW m, SoundMon(m), NEW c \in Components, NEW t \in Nat
  PROVE  \A n \in {HeartbeatSeen(m, c, t)} \cup HeartbeatPrefixes(m, c, t) :
           Keeps(m, n, {}) /\ Steady(m, n)
<1> DEFINE f == HeartbeatTracked(m, c, t)
           g == RecoveryObserved(f, c, "online", TargetsOnline(f))
           n == NeedReset(g)
           h == HeartbeatObserved(m.health, c, t)
<1>1. h \in HealthTable
  <2>1. "online" \in HealthStates
    BY DEF HealthStates
  <2>2. QED
    BY <2>1, MonitorParts, ComponentUpdatedType DEF HeartbeatObserved
<1>2. f = EvidenceRecorded([m EXCEPT !.health = h], c, "online")
  BY DEF HeartbeatTracked, SoundMon, IsMonitor
<1> HIDE DEF h
<1> DEFINE early == RecoveryPrefixes(f, c, "online", TargetsOnline(f))
<1>3. HeartbeatSeen(m, c, t) = n /\ HeartbeatPrefixes(m, c, t) = early
  BY DEF HeartbeatSeen, HeartbeatPrefixes
<1> HIDE DEF f
<1>4. Keeps(m, f, {}) /\ f.res = m.res /\ f.session = m.session /\ SoundMon(f)
  <2>1. IsMonitor(f) /\ f.res = m.res /\ f.session = m.session
    BY <1>1, <1>2, EvidenceKeeps
  <2>2. QED
    BY <2>1, FlagsChanged DEF Keeps
<1>5. /\ Keeps(f, g, {}) /\ Steady(f, g)
      /\ \A x \in early : Keeps(f, x, {}) /\ Steady(f, x)
  BY <1>4, RecoveryKeeps
<1> HIDE DEF early
<1>6. Keeps(m, g, {}) /\ Steady(m, g) /\ SoundMon(g)
  <2>1. Keeps(m, g, {})
    BY <1>4, <1>5, KeepsTwice DEF Steady
  <2>2. QED
    BY <1>4, <1>5, <2>1 DEF Keeps, Steady
<1> HIDE DEF g
<1>7. Keeps(g, n, {}) /\ n.res = g.res /\ n.session = g.session
  BY <1>6, NeedResetKeeps
<1> HIDE DEF n
<1>8. Keeps(m, n, {}) /\ Steady(m, n)
  BY <1>6, <1>7, KeepsTwice DEF Steady
<1>9. \A x \in early : Keeps(m, x, {}) /\ Steady(m, x)
  BY <1>4, <1>5, KeepsTwice DEF Steady
<1>10. QED
  BY <1>3, <1>8, <1>9

\* A refresh of the derived states.
LEMMA RefreshKeeps ==
  ASSUME NEW m, SoundMon(m), NEW t \in Nat
  PROVE  \A n \in {RefreshTracked(m, t), HealthRefreshed(m, t)} :
           Keeps(m, n, {}) /\ Steady(m, n)
<1> DEFINE h == StatesRefreshed(m.health, t)
           f == [m EXCEPT !.health = h]
           n == NeedReset(f)
<1>1. h \in HealthTable
  BY MonitorParts, StatesRefreshedType
<1>2. RefreshTracked(m, t) = f
  BY DEF RefreshTracked, SoundMon, IsMonitor
<1> HIDE DEF h
<1>3. /\ f.res = m.res /\ f.session = m.session
      /\ f \in [res: {f.res}, session: Session, health: HealthTable, needed: BOOLEAN,
                observed: BOOLEAN, evidence: SUBSET Components, ready: BOOLEAN]
  BY <1>1 DEF SoundMon, IsMonitor
<1> HIDE DEF f
<1>4. IsMonitor(f)
  BY <1>3 DEF SoundMon, IsMonitor
<1>5. Keeps(m, f, {}) /\ SoundMon(f)
  BY <1>3, <1>4, FlagsChanged DEF Keeps
<1>6. Keeps(f, n, {}) /\ n.res = f.res /\ n.session = f.session
  BY <1>5, NeedResetKeeps
<1>7. HealthRefreshed(m, t) = n
  BY <1>2 DEF HealthRefreshed
<1> HIDE DEF n
<1>8. Keeps(m, n, {})
  BY <1>5, <1>6, KeepsTwice
<1>9. QED
  BY <1>2, <1>3, <1>5, <1>6, <1>7, <1>8 DEF Steady

-----------------------------------------------------------------------------
(* The runtime's other operations.                                         *)

\* Retention.
LEMMA PruneKeeps ==
  ASSUME NEW m, SoundMon(m), NEW t \in Nat
  PROVE  /\ Keeps(m, Pruned(m, t), {})
         /\ \A n \in PrunePrefixes(m, t) : Keeps(m, n, {})
<1> DEFINE r == ReclaimStaleReplayRows(m.res, RetryBackoff, t)
           y == [m EXCEPT !.res = r]
           p == PruneExpired(y.res, FullOutage(m), t)
           q == MarkExpiredPendingRows(y.res, FullOutage(m), t)
<1>1. Good(m.res)
  BY MonitorParts
<1>2. ClaimsReclaimed(m, t) = y
  BY DEF ClaimsReclaimed, SoundMon, IsMonitor
<1>3. Moves(m.res, r, {})
  BY <1>1, ReclaimMoves
<1> HIDE DEF r
<1>4. Keeps(m, y, {}) /\ y.session = m.session /\ SoundMon(y) /\ Good(y.res)
  BY <1>3, ResReplaced DEF Keeps, SoundMon
<1> HIDE DEF y
<1>5. Pruned(m, t) = [y EXCEPT !.res = p]
  BY <1>2, <1>4 DEF Pruned, SoundMon, IsMonitor
<1>6. Moves(y.res, p, {}) /\ Moves(y.res, q, {})
  BY <1>4, PruneMoves
<1> HIDE DEF p, q
<1>7. Keeps(y, [y EXCEPT !.res = p], {}) /\ Keeps(y, [y EXCEPT !.res = q], {})
  BY <1>4, <1>6, ResReplaced
<1>8. Keeps(m, [y EXCEPT !.res = p], {}) /\ Keeps(m, [y EXCEPT !.res = q], {})
  BY <1>4, <1>7, KeepsTwice
<1>9. ASSUME NEW n \in PartlyReclaimed(m, t)
      PROVE  Keeps(m, n, {})
  <2>1. PICK k : n = [m EXCEPT !.res = ReclaimPasses(m.res, RetryBackoff, k, t)]
    <3>1. PICK k \in 0..Cardinality(StaleRows(m.res, RetryBackoff, t)) :
                 n = [m EXCEPT !.res = ReclaimPasses(@, RetryBackoff, k, t)]
      BY <1>9, Zenon DEF PartlyReclaimed
    <3>2. n = [m EXCEPT !.res = ReclaimPasses(m.res, RetryBackoff, k, t)]
      BY <3>1 DEF SoundMon, IsMonitor
    <3>3. QED
      BY <3>2
  <2>2. Moves(m.res, ReclaimPasses(m.res, RetryBackoff, k, t), {})
    BY <1>1, ReclaimMoves
  <2>3. QED
    BY <2>1, <2>2, ResReplaced
<1>10. ASSUME NEW n \in PrunePrefixes(m, t)
       PROVE  n \in PartlyReclaimed(m, t) \/ n = [y EXCEPT !.res = q]
  <2>1. n \in PartlyReclaimed(m, t)
          \/ n = [y EXCEPT !.res = MarkExpiredPendingRows(@, FullOutage(m), t)]
    BY <1>2, <1>10, Zenon DEF PrunePrefixes
  <2>2. [y EXCEPT !.res = MarkExpiredPendingRows(@, FullOutage(m), t)]
          = [y EXCEPT !.res = q]
    BY <1>4 DEF q, SoundMon, IsMonitor
  <2>3. QED
    BY <2>1, <2>2
<1>11. QED
  BY <1>5, <1>8, <1>9, <1>10

\* A claim for replay, that may go on, that throws, or that is cut short.
LEMMA BatchClaimedKeeps ==
  ASSUME NEW m, SoundMon(m), NEW limit, NEW t \in Nat
  PROVE  /\ ClaimAllowed(m, t) =>
              /\ Keeps(m, BatchClaimed(m, limit, t), {})
              /\ ReplayBatch(m, limit, t) \subseteq 1..m.res.seq
         /\ Keeps(m, ClaimRejected(m, t), {})
         /\ \A n \in ClaimInterrupted(m, t) : Keeps(m, n, {})
<1> DEFINE q == QueueIfNeeded(m, t)
<1>1. /\ Keeps(m, q, {}) /\ q.res = m.res
      /\ q.session = m.session \/ q.session.state = "queued"
      /\ SoundMon(q)
  BY QueueKeeps DEF Keeps
<1>2. /\ ClaimAllowed(m, t) => MayClaim(q)
      /\ BatchClaimed(m, limit, t) = ClaimNextBatch(q, limit, t)
      /\ ReplayBatch(m, limit, t) = BatchOf(q, limit, t)
      /\ ClaimRejected(m, t) = m \/ ClaimRejected(m, t) = ClaimStarted(q)
      /\ \A n \in ClaimInterrupted(m, t) : n = m \/ n \in ClaimPrefixes(q, t)
  BY DEF ClaimAllowed, BatchClaimed, ReplayBatch, ClaimRejected, ClaimInterrupted
<1> HIDE DEF q
<1>3. ASSUME NEW n, Keeps(q, n, {})  PROVE Keeps(m, n, {})
  <2>1. "queued" \notin OpenStates
    BY DEF OpenStates
  <2>2. QED
    BY <1>1, <1>3, <2>1, KeepsTwice
<1>4. ClaimAllowed(m, t) =>
        /\ Keeps(m, BatchClaimed(m, limit, t), {})
        /\ ReplayBatch(m, limit, t) \subseteq 1..m.res.seq
  BY <1>1, <1>2, <1>3, ClaimKeeps
<1>5. Keeps(m, ClaimRejected(m, t), {})
  BY <1>1, <1>2, <1>3, ClaimStartedKeeps, KeepsNot
<1>6. \A n \in ClaimInterrupted(m, t) : Keeps(m, n, {})
  BY <1>1, <1>2, <1>3, ClaimPrefixesKeep, KeepsNot
<1>7. QED
  BY <1>4, <1>5, <1>6

\* A set of numbers has a least one.
LEMMA LeastExists ==
  ASSUME NEW T, T \subseteq Nat, T # {}
  PROVE  \E a \in T : \A b \in T : a <= b
<1> DEFINE below(n) == 1..n
           S == {below(n) : n \in T}
<1>1. \A n \in T : IsFiniteSet(below(n))
  BY IntervalFinite
<1>2. S # {}
  OBVIOUS
<1>3. \A Y \in S : IsFiniteSet(Y)
  BY <1>1
<1> DEFINE all == UNION S
<1>4. S \subseteq FiniteSubsetsOf(all)
  BY <1>3 DEF FiniteSubsetsOf
<1>5. IsWellFoundedOn(StrictSubsetOrdering(all), FiniteSubsetsOf(all))
  BY FS_StrictSubsetOrderingWellFounded
<1> HIDE DEF S, all
<1>6. PICK X \in S : \A Y \in S : ~(<<Y, X>> \in StrictSubsetOrdering(all))
  BY <1>2, <1>4, <1>5, WFMin
<1>7. PICK a \in T : X = below(a)
  BY <1>6 DEF S
<1>8. ASSUME NEW b \in T, b < a  PROVE FALSE
  <2>1. below(b) \in S /\ below(a) \in S
    BY <1>7, <1>8 DEF S
  <2>2. below(b) \subseteq all /\ below(a) \subseteq all
    BY <2>1 DEF all
  <2>3. below(b) \subseteq below(a) /\ a \in below(a) /\ a \notin below(b)
    BY <1>8
  <2> HIDE DEF below
  <2>4. below(b) \subseteq below(a) /\ below(b) # below(a)
    BY <2>3
  <2>5. <<below(b), below(a)>> \in StrictSubsetOrdering(all)
    BY <2>2, <2>4 DEF StrictSubsetOrdering
  <2>6. QED
    BY <1>6, <1>7, <2>1, <2>5
<1>9. QED
  BY <1>8

\* The session a start rebuilds from the rows closes the gate over a backlog.
LEMMA RestartSessionType ==
  ASSUME NEW r, Good(r), NEW t \in Nat
  PROVE  LET s == RestartSession(r, t)
         IN  s \in Session /\ (s.state \in OpenStates => r.cached = 0)
<1> DEFINE waiting == RetryWaiting(r, t)
           times == {r.rows[i].retryAt : i \in waiting}
           s == RestartSession(r, t)
<1>1. /\ Fresh("idle") \in Session /\ Fresh("failed") \in Session /\ Fresh("queued") \in Session
      /\ Fresh("queued").state = "queued"
  BY FreshSession DEF SessionStates
<1>2. "queued" \notin OpenStates /\ "failed" \notin OpenStates
  BY DEF OpenStates
<1>3. IsReservoir(r)
  BY SoundFacts
<1>4. CASE r.cached = 0
  BY <1>1, <1>4 DEF RestartSession
<1>5. CASE r.cached # 0 /\ Cardinality(waiting) = r.cached
  <2>1. waiting # {}
    BY <1>5, FS_EmptySet
  <2>2. \A i \in waiting : r.rows[i].retryAt \in Nat
    BY <1>3, ReservoirFacts DEF RetryWaiting, InState, Row, OptionalNat
  <2>3. times \subseteq Nat /\ times # {}
    BY <2>1, <2>2
  <2>4. EarliestRetry(r, t) = CHOOSE a \in times : \A b \in times : a <= b
    BY DEF EarliestRetry
  <2> HIDE DEF times
  <2>5. EarliestRetry(r, t) \in Nat
    BY <2>3, <2>4, LeastExists
  <2>6. s = [Fresh("failed") EXCEPT !.retryAt = EarliestRetry(r, t)]
    BY <1>5 DEF RestartSession
  <2>7. s = [state |-> "failed", retryAt |-> EarliestRetry(r, t), heartbeats |-> 0]
    BY <2>6 DEF Fresh
  <2> HIDE DEF s
  <2>8. QED
    BY <1>2, <2>5, <2>7 DEF s, Session, SessionStates, OptionalNat
<1>6. CASE r.cached # 0 /\ Cardinality(waiting) # r.cached
  BY <1>1, <1>2, <1>6 DEF RestartSession
<1>7. QED
  BY <1>4, <1>5, <1>6

\* A start on a sound file.
LEMMA OpenedKeeps ==
  ASSUME NEW r, Good(r), NEW t \in Nat
  PROVE  LET n == Opened(r, t)
         IN  /\ SoundMon(n)
             /\ Moves(r, n.res, {}) /\ Drift(n.res) = 0
             /\ n.session.state \in OpenStates => n.res.cached = 0
             /\ n.res = RecoverRestartState(r)
<1> DEFINE v == RecoverRestartState(r)
           s == RestartSession(v, t)
           h == InitialHealth(t)
           n == Opened(r, t)
<1>1. Moves(r, v, {}) /\ Good(v) /\ Drift(v) = 0
  BY RecoverMoves DEF Moves
<1> HIDE DEF v
<1>2. s \in Session /\ (s.state \in OpenStates => v.cached = 0)
  BY <1>1, RestartSessionType
<1> HIDE DEF s
<1>3. h \in HealthTable
  BY DEF InitialHealth, HealthTable, HealthStates
<1> HIDE DEF h
<1>4. n = [res |-> v, session |-> s, health |-> h, needed |-> v.cached > 0,
           observed |-> v.cached > 0, evidence |-> {}, ready |-> ~ConservativeStartup]
  BY DEF Opened, v, s, h
<1>5. \A a \in BOOLEAN : \A b \in BOOLEAN :
        LET x == [res |-> v, session |-> s, health |-> h, needed |-> a,
                  observed |-> a, evidence |-> {}, ready |-> b]
        IN  /\ x \in [res: {x.res}, session: Session, health: HealthTable, needed: BOOLEAN,
                      observed: BOOLEAN, evidence: SUBSET Components, ready: BOOLEAN]
            /\ x.res = v /\ x.session = s
  BY <1>2, <1>3
<1>6. (v.cached > 0) \in BOOLEAN /\ (~ConservativeStartup) \in BOOLEAN
  OBVIOUS
<1> HIDE DEF n
<1>7. /\ n \in [res: {n.res}, session: Session, health: HealthTable, needed: BOOLEAN,
                observed: BOOLEAN, evidence: SUBSET Components, ready: BOOLEAN]
      /\ n.res = v /\ n.session = s
  BY <1>4, <1>5, <1>6, Zenon
<1>8. IsMonitor(n)
  BY <1>1, <1>7, SoundFacts DEF IsMonitor
<1>9. QED
  BY <1>1, <1>2, <1>7, <1>8 DEF SoundMon, n, v

\* An event is stored.
LEMMA IngestedSound ==
  ASSUME NEW m, SoundMon(m), NEW bytes \in Nat, NEW t \in Nat
  PROVE  LET n == Ingested(m, bytes, t)
         IN  /\ SoundMon(n) /\ n.session = m.session
             /\ Drift(n.res) = Drift(m.res)
             /\ n.res.seq = m.res.seq + 1
             /\ DeliveredRows(n.res) \subseteq DeliveredRows(m.res)
<1> DEFINE r == AppendIngressEvent(m.res, bytes, DeliveryMode(m), "pending", t)
           n == [m EXCEPT !.res = r]
<1>1. Ingested(m, bytes, t) = n
  BY DEF Ingested, SoundMon, IsMonitor
<1>2. DeliveryMode(m) \in DeliveryModes /\ "pending" \in ReplayStates
  BY DEF DeliveryMode, RoutingMode, DeliveryModes, ReplayStates
<1>3. /\ Good(r) /\ Drift(r) = Drift(m.res) /\ r.seq = m.res.seq + 1
      /\ DeliveredRows(r) \subseteq DeliveredRows(m.res) \cup {}
  <2>1. DeliveredRows(r) \subseteq
          DeliveredRows(m.res) \cup (IF "pending" = "delivered" THEN {r.seq} ELSE {})
    BY <1>2, MonitorParts, AppendMoves
  <2>2. QED
    BY <2>1, <1>2, MonitorParts, AppendMoves
<1> HIDE DEF r
<1>4. IsReservoir(r)
  BY <1>3, SoundFacts
<1>5. /\ n.res = r /\ n.session = m.session
      /\ n \in [res: {n.res}, session: Session, health: HealthTable, needed: BOOLEAN,
                observed: BOOLEAN, evidence: SUBSET Components, ready: BOOLEAN]
  BY DEF SoundMon, IsMonitor
<1> HIDE DEF n
<1>6. QED
  BY <1>1, <1>3, <1>4, <1>5 DEF SoundMon, IsMonitor

\* A session that is kept in this sense opens the gate over no backlog.
LEMMA GateKept ==
  ASSUME NEW m, NEW n, SoundMon(n), Drift(n.res) = 0, SessionKept(m, n),
         GateClosed(m), ~GateClosed(n)
  PROVE  Backlog(n) = 0
<1>1. n.res.cached \in Nat /\ n.session \in Session
  BY MonitorParts, SoundFacts
<1>2. n.session.state \in SessionStates
  BY <1>1 DEF Session
<1>3. CASE n.session.state \in {"queued", "running", "failed"}
  BY <1>3 DEF GateClosed
<1>4. CASE n.session.state = "completed"
  BY <1>1, <1>4 DEF GateClosed, Backlog
<1>5. CASE n.session.state \in OpenStates
  <2>1. m.session.state # n.session.state
    BY <1>5 DEF GateClosed, OpenStates
  <2>2. QED
    BY <1>5, <2>1 DEF SessionKept, Backlog
<1>6. QED
  BY <1>2, <1>3, <1>4, <1>5 DEF SessionStates, OpenStates

-----------------------------------------------------------------------------
(* What the calls do to single rows.                                       *)

\* A claim takes the batch it answers with, and no other row is due later.
LEMMA BatchRests ==
  ASSUME NEW m, SoundMon(m), NEW limit, NEW t \in Nat
  PROVE  /\ Rests(m.res, BatchClaimed(m, limit, t).res, {}, ReplayBatch(m, limit, t), t)
         /\ ClaimRejected(m, t).res = m.res
         /\ Reopens(m.res, BatchClaimed(m, limit, t).res, {})
         /\ \A n \in ClaimInterrupted(m, t) :
              Rests(m.res, n.res, {}, {}, t) /\ Reopens(m.res, n.res, {})
<1> DEFINE q == QueueIfNeeded(m, t)
           c == ClaimStarted(q)
           y == ClaimReady(q, t)
           batch == BatchOf(q, limit, t)
<1>1. SoundMon(q) /\ q.res = m.res
  BY QueueKeeps DEF Keeps
<1>2. /\ BatchClaimed(m, limit, t) = ClaimNextBatch(q, limit, t)
      /\ ReplayBatch(m, limit, t) = batch
      /\ ClaimRejected(m, t) = m \/ ClaimRejected(m, t) = c
      /\ \A n \in ClaimInterrupted(m, t) : n = m \/ n \in ClaimPrefixes(q, t)
  BY DEF BatchClaimed, ReplayBatch, ClaimRejected, ClaimInterrupted
<1> HIDE DEF q
<1>3. SoundMon(c) /\ c.res = m.res /\ Good(c.res)
  BY <1>1, ClaimStartedKeeps DEF Keeps, SoundMon
<1>4. y = [c EXCEPT !.res = ReclaimStaleReplayRows(c.res, RetryBackoff, t)]
  BY <1>3 DEF ClaimReady, SoundMon, IsMonitor
<1>5. y.res = ReclaimStaleReplayRows(m.res, RetryBackoff, t)
  BY <1>3, <1>4 DEF SoundMon, IsMonitor
<1>6. y \in [res: {y.res}, session: Session, health: HealthTable, needed: BOOLEAN,
             observed: BOOLEAN, evidence: SUBSET Components, ready: BOOLEAN]
  BY <1>3, <1>4 DEF SoundMon, IsMonitor
<1>7. Rests(m.res, y.res, {}, {}, t) /\ Reopens(m.res, y.res, {}) /\ Good(y.res)
  BY <1>3, <1>5, ReclaimRests, ReclaimReopens, ReclaimMoves DEF Moves
<1>8. /\ batch # {} => ClaimNextBatch(q, limit, t) =
                         [y EXCEPT !.res = ClaimReplayBatch(@, limit, t)]
      /\ batch = {} => ClaimNextBatch(q, limit, t) \in {y, Complete(y)}
      /\ batch # {} => batch = ClaimBatch(y.res, limit, t)
  BY DEF ClaimNextBatch, BatchOf
<1> HIDE DEF y, batch, c
<1>9. /\ Rests(m.res, ClaimNextBatch(q, limit, t).res, {}, batch, t)
      /\ Reopens(m.res, ClaimNextBatch(q, limit, t).res, {})
  <2>1. CASE batch = {}
    <3>1. ClaimNextBatch(q, limit, t).res = y.res
      BY <1>6, <1>8, <2>1 DEF Complete
    <3>2. QED
      BY <1>7, <2>1, <3>1
  <2>2. CASE batch # {}
    <3>1. ClaimNextBatch(q, limit, t).res = ClaimReplayBatch(y.res, limit, t)
      BY <1>6, <1>8, <2>2
    <3>2. /\ Rests(y.res, ClaimReplayBatch(y.res, limit, t), {}, batch, t)
          /\ Reopens(y.res, ClaimReplayBatch(y.res, limit, t), {})
      BY <1>7, <1>8, <2>2, ClaimRests, ClaimReopens
    <3>3. Rests(m.res, ClaimReplayBatch(y.res, limit, t), {}, {} \cup batch, t)
      BY <1>7, <3>2, RestsTwice
    <3>4. {} \cup batch = batch
      OBVIOUS
    <3>5. QED
      BY <1>7, <3>1, <3>2, <3>3, <3>4, ReopensTwice
  <2>3. QED
    BY <2>1, <2>2
<1>10. ASSUME NEW n \in ClaimPrefixes(q, t)
       PROVE  Rests(m.res, n.res, {}, {}, t) /\ Reopens(m.res, n.res, {})
  <2>1. n = q \/ n = c \/ n \in PartlyReclaimed(c, t)
    BY <1>10, Zenon DEF ClaimPrefixes, c
  <2>2. CASE n = q \/ n = c
    BY <1>1, <1>3, <2>2, RestsNot, ReopensNot
  <2>3. CASE n \in PartlyReclaimed(c, t)
    <3>1. PICK k \in 0..Cardinality(StaleRows(c.res, RetryBackoff, t)) :
                 n = [c EXCEPT !.res = ReclaimPasses(@, RetryBackoff, k, t)]
      BY <2>3, Zenon DEF PartlyReclaimed
    <3>2. n.res = ReclaimPasses(m.res, RetryBackoff, k, t)
      BY <1>3, <3>1 DEF SoundMon, IsMonitor
    <3>3. QED
      BY <1>3, <3>2, ReclaimRests, ReclaimReopens
  <2>4. QED
    BY <2>1, <2>2, <2>3
<1>11. QED
  BY <1>2, <1>3, <1>9, <1>10, RestsNot, ReopensNot

LEMMA SettledRests ==
  ASSUME NEW m, SoundMon(m), NEW ids, NEW t \in Nat
  PROVE  \A n \in {RowsDelivered(m, ids, t), AcknowledgeBatch(m, ids, t)}
                    \cup AcknowledgePrefixes(m, ids, t) :
           Rests(m.res, n.res, {}, {}, t) /\ Reopens(m.res, n.res, {})
<1> DEFINE d == RowsDelivered(m, ids, t)
<1>1. d = [m EXCEPT !.res = MarkDelivered(m.res, ids, t)]
  BY DEF RowsDelivered, SoundMon, IsMonitor
<1>2. d.res = MarkDelivered(m.res, ids, t)
  BY <1>1 DEF SoundMon, IsMonitor
<1>3. Complete(d).res = d.res
  BY <1>1 DEF Complete, SoundMon, IsMonitor
<1>4. AcknowledgeBatch(m, ids, t) = d \/ AcknowledgeBatch(m, ids, t) = Complete(d)
  BY DEF AcknowledgeBatch
<1>5. \A n \in AcknowledgePrefixes(m, ids, t) : n = m \/ n = d
  BY DEF AcknowledgePrefixes
<1>6. /\ Rests(m.res, d.res, {}, {}, t) /\ Reopens(m.res, d.res, {})
      /\ Rests(m.res, m.res, {}, {}, t) /\ Reopens(m.res, m.res, {})
  BY <1>2, UpdateRests, UpdateReopens, RestsNot, ReopensNot DEF SoundMon
<1> HIDE DEF d
<1>7. QED
  BY <1>3, <1>4, <1>5, <1>6 DEF d

LEMMA FailedRests ==
  ASSUME NEW m, SoundMon(m), NEW ids, NEW t \in Nat
  PROVE  \A n \in {Fail(m, ids, t)} \cup FailPrefixes(m, ids, t) :
           Rests(m.res, n.res, {}, ids, t) /\ Reopens(m.res, n.res, ids)
<1> DEFINE d == RowsRetried(m, ids, t)
<1>1. d = [m EXCEPT !.res = ResetToPending(m.res, ids, t + RetryBackoff, t)]
  BY DEF RowsRetried, SoundMon, IsMonitor
<1>2. d.res = ResetToPending(m.res, ids, t + RetryBackoff, t)
  BY <1>1 DEF SoundMon, IsMonitor
<1>3. Fail(m, ids, t).res = d.res
  BY <1>1 DEF Fail, SoundMon, IsMonitor
<1>4. \A n \in FailPrefixes(m, ids, t) : n = m \/ n = d
  BY DEF FailPrefixes
<1>5. /\ Rests(m.res, d.res, {}, ids, t) /\ Reopens(m.res, d.res, ids)
      /\ Rests(m.res, m.res, {}, ids, t) /\ Reopens(m.res, m.res, ids)
  BY <1>2, UpdateRests, UpdateReopens, RestsNot, ReopensNot DEF SoundMon
<1> HIDE DEF d
<1>6. QED
  BY <1>3, <1>4, <1>5

LEMMA AbortedRests ==
  ASSUME NEW m, SoundMon(m), NEW ids, NEW t \in Nat
  PROVE  Rests(m.res, Aborted(m, ids, t).res, ids, {}, t)
<1>1. Aborted(m, ids, t).res = ResetToPending(m.res, ids, NULL, t)
  BY DEF Aborted, SoundMon, IsMonitor
<1>2. QED
  BY <1>1, UpdateRests DEF SoundMon

LEMMA PrunedRests ==
  ASSUME NEW m, SoundMon(m), NEW t \in Nat
  PROVE  \A n \in {Pruned(m, t)} \cup PrunePrefixes(m, t) :
           /\ Rests(m.res, n.res, {}, {}, t) /\ n.session = m.session
           /\ Strikes(m.res, n.res)
<1> DEFINE r == ReclaimStaleReplayRows(m.res, RetryBackoff, t)
           y == ClaimsReclaimed(m, t)
           p == PruneExpired(r, FullOutage(m), t)
           q == MarkExpiredPendingRows(r, FullOutage(m), t)
<1>1. y = [m EXCEPT !.res = r]
  BY DEF ClaimsReclaimed, SoundMon, IsMonitor
<1>2. /\ Good(m.res) /\ Good(r) /\ Rests(m.res, r, {}, {}, t)
      /\ Reopens(m.res, r, {})
      /\ \A i \in DOMAIN m.res.rows : IsTerminal(r.rows[i]) => IsTerminal(m.res.rows[i])
  <2>1. Good(m.res)
    BY DEF SoundMon
  <2>2. QED
    BY <2>1, ReclaimRests, ReclaimReopens, ReclaimMoves DEF Moves
<1> HIDE DEF r
<1>3. /\ Rests(m.res, p, {}, {}, t) /\ Strikes(m.res, p)
      /\ Rests(m.res, q, {}, {}, t) /\ Strikes(m.res, q)
  <2>1. Rests(r, p, {}, {}, t) /\ Rests(r, q, {}, {}, t)
    BY <1>2, PruneRests
  <2>2. Rests(m.res, p, {}, {} \cup {}, t) /\ Rests(m.res, q, {}, {} \cup {}, t)
    BY <1>2, <2>1, RestsTwice
  <2>3. Strikes(m.res, p) /\ Strikes(m.res, q)
    BY <1>2, PruneStrikes, StrikesAfter
  <2>4. QED
    BY <2>2, <2>3
<1>4. /\ Pruned(m, t).res = p /\ Pruned(m, t).session = m.session
      /\ LET n == [y EXCEPT !.res = MarkExpiredPendingRows(@, FullOutage(m), t)]
         IN  n.res = q /\ n.session = m.session
  BY <1>1 DEF Pruned, SoundMon, IsMonitor
<1> HIDE DEF p, q
<1>5. ASSUME NEW n \in PrunePrefixes(m, t)
      PROVE  /\ Rests(m.res, n.res, {}, {}, t) /\ n.session = m.session
             /\ Strikes(m.res, n.res)
  <2>1. \/ n \in PartlyReclaimed(m, t)
        \/ n = [y EXCEPT !.res = MarkExpiredPendingRows(@, FullOutage(m), t)]
    BY <1>5, Zenon DEF PrunePrefixes, y
  <2>2. CASE n \in PartlyReclaimed(m, t)
    <3>1. PICK k \in 0..Cardinality(StaleRows(m.res, RetryBackoff, t)) :
                 n = [m EXCEPT !.res = ReclaimPasses(@, RetryBackoff, k, t)]
      BY <2>2, Zenon DEF PartlyReclaimed
    <3>2. n.res = ReclaimPasses(m.res, RetryBackoff, k, t) /\ n.session = m.session
      BY <3>1 DEF SoundMon, IsMonitor
    <3>3. Reopens(m.res, n.res, {})
      BY <1>2, <3>2, ReclaimReopens
    <3>4. Strikes(m.res, n.res)
      BY <3>3 DEF Reopens, Strikes
    <3>5. QED
      BY <1>2, <3>2, <3>4, ReclaimRests
  <2>3. QED
    BY <1>3, <1>4, <2>1, <2>2
<1>6. QED
  BY <1>3, <1>4, <1>5

\* A new event comes in, everything else stays as it is.
LEMMA AppendedRows ==
  ASSUME NEW m, SoundMon(m), NEW bytes, NEW t \in Nat,
         NEW n, n = Ingested(m, bytes, t) \/ n = Observed(m, bytes, t)
  PROVE  LET id == m.res.seq + 1
         IN  /\ DOMAIN n.res.rows = (DOMAIN m.res.rows) \cup {id}
             /\ id \notin DOMAIN m.res.rows
             /\ n.res.seq = id
             /\ \A i \in DOMAIN m.res.rows : n.res.rows[i] = m.res.rows[i]
             /\ n.res.rows[id].ingestAt = t
             /\ \A first \in 0..t : Sane(n.res.rows[id], first)
             /\ \A s : Due(n.res.rows[id], s)
<1> DEFINE id == m.res.seq + 1
<1>1. IsReservoir(m.res) /\ id \notin DOMAIN m.res.rows
  <2>1. /\ IsReservoir(m.res) /\ m.res.seq \in Nat
        /\ DOMAIN m.res.rows \subseteq 1..m.res.seq
    BY MonitorParts
  <2>2. QED
    BY <2>1
<1>2. PICK mode \in DeliveryModes, state \in {"pending", "delivered"} :
             n.res = AppendIngressEvent(m.res, bytes, mode, state, t)
  <2>1. CASE n = Ingested(m, bytes, t)
    <3>1. n.res = AppendIngressEvent(m.res, bytes, DeliveryMode(m), "pending", t)
      BY <2>1 DEF Ingested, SoundMon, IsMonitor
    <3>2. DeliveryMode(m) \in DeliveryModes
      BY DEF DeliveryMode, RoutingMode, DeliveryModes
    <3>3. QED
      BY <3>1, <3>2
  <2>2. CASE n = Observed(m, bytes, t)
    <3>1. n.res = AppendIngressEvent(m.res, bytes, "normal", "delivered", t)
      BY <2>2 DEF Observed, SoundMon, IsMonitor
    <3>2. "normal" \in DeliveryModes
      BY DEF DeliveryModes
    <3>3. QED
      BY <3>1, <3>2
  <2>3. QED
    BY <2>1, <2>2
<1>3. /\ n.res.seq = id
      /\ n.res.rows = [i \in (DOMAIN m.res.rows) \cup {id} |->
                         IF i = id THEN NewRow(bytes, mode, state, t)
                         ELSE m.res.rows[i]]
  BY <1>1, <1>2, AppendTable
<1> HIDE DEF id
<1>4. /\ DOMAIN n.res.rows = (DOMAIN m.res.rows) \cup {id}
      /\ n.res.rows[id] = NewRow(bytes, mode, state, t)
      /\ \A i \in DOMAIN m.res.rows : n.res.rows[i] = m.res.rows[i]
  BY <1>1, <1>3
<1>5. LET row == NewRow(bytes, mode, state, t)
      IN  /\ row.ingestAt = t /\ \A s : Due(row, s)
          /\ \A first \in 0..t : Sane(row, first)
  BY NewRowSane
<1>6. QED
  BY <1>1, <1>3, <1>4, <1>5 DEF id

-----------------------------------------------------------------------------
(* The order of replay.                                                    *)

LEMMA DueLater ==
  ASSUME NEW row \in Row, NEW s \in Nat, NEW u \in Nat, s <= u, Due(row, s)
  PROVE  Due(row, u)
  BY ReplayAssumption, NullAssumption DEF Due, Row, OptionalNat

\* A session leaves its backoff for a claim only when that is over.
LEMMA ClaimSessions ==
  ASSUME NEW m, SoundMon(m), NEW limit, NEW t \in Nat,
         m.session.state = "failed" => m.session.retryAt \in Nat
  PROVE  LET over == m.session.state = "failed" => m.session.retryAt <= t
             next(n) == \/ n.session = m.session
                        \/ n.session.state \in {"idle", "queued", "running"} /\ over
         IN  /\ next(QueueIfNeeded(m, t)) /\ next(ClaimRejected(m, t))
             /\ ClaimAllowed(m, t) =>
                  LET n == BatchClaimed(m, limit, t)
                  IN  /\ over /\ n.session.state \in {"running", "completed"}
                      /\ ReplayBatch(m, limit, t) # {} => n.session.state = "running"
<1> DEFINE over == m.session.state = "failed" => m.session.retryAt <= t
           next(n) == \/ n.session = m.session
                      \/ n.session.state \in {"idle", "queued", "running"} /\ over
           q == QueueIfNeeded(m, t)
           c == ClaimStarted(q)
           y == ClaimReady(q, t)
<1>1. \A state \in SessionStates : Fresh(state).state = state
  BY FreshSession
<1>2. SoundMon(q) /\ (q = m \/ (q.session.state = "queued" /\ over))
  <2>1. SoundMon(q)
    BY QueueKeeps DEF Keeps
  <2>2. CASE q = m
    BY <2>1, <2>2
  <2>3. CASE q # m
    <3>1. q = [m EXCEPT !.session = Fresh("queued")] /\ ~InBackoff(m, t)
      BY <2>3 DEF QueueIfNeeded
    <3>2. q.session = Fresh("queued")
      BY <3>1 DEF SoundMon, IsMonitor
    <3>3. over
      BY <3>1, NullAssumption DEF InBackoff
    <3>4. QED
      BY <1>1, <2>1, <3>2, <3>3 DEF SessionStates
  <2>4. QED
    BY <2>2, <2>3
<1>3. q.session.state = "queued" => over
  BY <1>2
<1> HIDE DEF q
<1>4. c = q \/ (q.session.state = "queued" /\ c.session.state \in {"idle", "running"})
  <2>1. CASE q.session.state # "queued"
    BY <2>1 DEF ClaimStarted
  <2>2. CASE q.session.state = "queued"
    <3>1. \/ c = [q EXCEPT !.session = Fresh("idle")]
          \/ c = [q EXCEPT !.session = Fresh("running")]
      BY <2>2 DEF ClaimStarted, Start
    <3>2. c.session = Fresh("idle") \/ c.session = Fresh("running")
      BY <1>2, <3>1 DEF SoundMon, IsMonitor
    <3>3. QED
      BY <1>1, <2>2, <3>2 DEF SessionStates
  <2>3. QED
    BY <2>1, <2>2
<1>5. SoundMon(c)
  BY <1>2, ClaimStartedKeeps DEF Keeps
<1>6. y = [c EXCEPT !.res = ReclaimStaleReplayRows(c.res, RetryBackoff, t)]
  BY <1>5 DEF ClaimReady, SoundMon, IsMonitor
<1>7. /\ y.session = c.session
      /\ y \in [res: {y.res}, session: Session, health: HealthTable, needed: BOOLEAN,
                observed: BOOLEAN, evidence: SUBSET Components, ready: BOOLEAN]
  BY <1>5, <1>6 DEF SoundMon, IsMonitor
<1>8. MayClaim(q) <=> c.session.state = "running"
  BY DEF MayClaim
<1>9. next(q) /\ next(c)
  <2>1. next(q)
    BY <1>2
  <2>2. CASE c = q
    BY <2>1, <2>2
  <2>3. CASE c # q
    BY <1>3, <1>4, <2>3
  <2>4. QED
    BY <2>1, <2>2, <2>3
<1>10. ClaimRejected(m, t) \in {m, c}
  BY DEF ClaimRejected, q
<1> DEFINE n == ClaimNextBatch(q, limit, t)
<1>11. \/ /\ n = [y EXCEPT !.res = ClaimReplayBatch(y.res, limit, t)]
          /\ BatchOf(q, limit, t) # {}
       \/ n \in {y, Complete(y)} /\ BatchOf(q, limit, t) = {}
  <2>1. /\ BatchOf(q, limit, t) # {} =>
             n = [y EXCEPT !.res = ClaimReplayBatch(@, limit, t)]
        /\ BatchOf(q, limit, t) = {} => n \in {y, Complete(y)}
    BY DEF ClaimNextBatch
  <2>2. [y EXCEPT !.res = ClaimReplayBatch(@, limit, t)]
          = [y EXCEPT !.res = ClaimReplayBatch(y.res, limit, t)]
    BY <1>7
  <2>3. QED
    BY <2>1, <2>2
<1> HIDE DEF n, c, y
<1>12. ASSUME c.session.state = "running"
       PROVE  /\ over /\ n.session.state \in {"running", "completed"}
              /\ BatchOf(q, limit, t) # {} => n.session.state = "running"
  <2>1. over
    BY <1>2, <1>4, <1>12
  <2>2. n.session = y.session \/ (BatchOf(q, limit, t) = {} /\ n.session = Fresh("completed"))
    BY <1>7, <1>11 DEF Complete
  <2>3. QED
    BY <1>1, <1>7, <1>12, <2>1, <2>2 DEF SessionStates
<1>13. /\ ClaimAllowed(m, t) => c.session.state = "running"
       /\ BatchClaimed(m, limit, t) = n
       /\ ReplayBatch(m, limit, t) = BatchOf(q, limit, t)
  BY <1>8 DEF ClaimAllowed, BatchClaimed, ReplayBatch, n, q
<1>14. next(m)
  OBVIOUS
<1> HIDE DEF next, over
<1>15. next(ClaimRejected(m, t))
  BY <1>9, <1>10, <1>14
<1>16. QED
  BY <1>9, <1>12, <1>13, <1>15 DEF next, over, q

\* A claim that answers with rows takes stale claims back first.
LEMMA ClaimParts ==
  ASSUME NEW m, SoundMon(m), NEW limit, NEW t \in Nat, ReplayBatch(m, limit, t) # {}
  PROVE  LET r == ReclaimStaleReplayRows(m.res, RetryBackoff, t)
             batch == ReplayBatch(m, limit, t)
         IN  /\ Good(r) /\ batch = ClaimBatch(r, limit, t)
             /\ BatchClaimed(m, limit, t).res.rows =
                  [k \in DOMAIN r.rows |->
                     IF k \in batch THEN ClaimedRow(r.rows[k], t) ELSE r.rows[k]]
<1> DEFINE q == QueueIfNeeded(m, t)
           c == ClaimStarted(q)
           y == ClaimReady(q, t)
           r == ReclaimStaleReplayRows(m.res, RetryBackoff, t)
           n == BatchClaimed(m, limit, t)
           batch == ClaimBatch(r, limit, t)
<1>1. SoundMon(q) /\ q.res = m.res
  BY QueueKeeps DEF Keeps
<1>2. ReplayBatch(m, limit, t) = BatchOf(q, limit, t) /\ n = ClaimNextBatch(q, limit, t)
  BY DEF ReplayBatch, BatchClaimed
<1> HIDE DEF q, n
<1>3. SoundMon(c) /\ c.res = m.res
  BY <1>1, ClaimStartedKeeps DEF Keeps
<1>4. y = [c EXCEPT !.res = ReclaimStaleReplayRows(c.res, RetryBackoff, t)]
  BY <1>3 DEF ClaimReady, SoundMon, IsMonitor
<1>5. /\ y.res = r
      /\ y \in [res: {y.res}, session: Session, health: HealthTable, needed: BOOLEAN,
                observed: BOOLEAN, evidence: SUBSET Components, ready: BOOLEAN]
  BY <1>3, <1>4 DEF SoundMon, IsMonitor
<1> HIDE DEF r
<1>6. /\ ReplayBatch(m, limit, t) = batch
      /\ n = [y EXCEPT !.res = ClaimReplayBatch(@, limit, t)]
  <2>1. BatchOf(q, limit, t) # {}
    BY <1>2
  <2>2. BatchOf(q, limit, t) = batch
    BY <1>5, <2>1 DEF BatchOf
  <2>3. QED
    BY <1>2, <2>1, <2>2 DEF ClaimNextBatch
<1>7. n.res = ClaimReplayBatch(r, limit, t)
  BY <1>5, <1>6
<1>8. Good(m.res)
  BY MonitorParts
<1>9. Good(r) /\ IsReservoir(r)
  BY <1>8, ReclaimMoves, SoundFacts DEF Moves, r
<1>10. n.res.rows = [k \in DOMAIN r.rows |->
                       IF k \in batch THEN ClaimedRow(r.rows[k], t) ELSE r.rows[k]]
  BY <1>7, <1>9, ClaimTable
<1>11. QED
  BY <1>6, <1>9, <1>10 DEF n, r

\* When every open row is due, a claim leaves behind only rows that come later.
LEMMA ClaimInOrder ==
  ASSUME NEW m, SoundMon(m), NEW limit \in Nat, NEW t \in Nat,
         \A k \in DOMAIN m.res.rows : Due(m.res.rows[k], t),
         NEW n, n = BatchClaimed(m, limit, t),
         NEW i \in ReplayBatch(m, limit, t),
         NEW j \in InState(n.res.rows, PendingStates) \ ReplayBatch(m, limit, t)
  PROVE  LET earlier == n.res.rows[i].ingestAt
             later == n.res.rows[j].ingestAt
         IN  earlier < later \/ (earlier = later /\ i < j)
<1> USE ReplayAssumption
<1> DEFINE r == ReclaimStaleReplayRows(m.res, RetryBackoff, t)
           stale == StaleRows(m.res, RetryBackoff, t)
           batch == ClaimBatch(r, limit, t)
           ids == ClaimableRows(r, t)
           key == IngestOrder(r.rows)
<1>1. ReplayBatch(m, limit, t) = batch /\ Good(r)
  BY ClaimParts
<1>2. Good(m.res) /\ IsReservoir(m.res) /\ \A k \in DOMAIN m.res.rows : m.res.rows[k] \in Row
  BY MonitorParts, ReservoirFacts
<1>3. Good(r) /\ IsReservoir(r)
  BY <1>1, SoundFacts
<1>4. r.rows = [k \in DOMAIN m.res.rows |->
                   IF k \in stale THEN Updated(m.res.rows[k], "pending", NULL, t)
                   ELSE m.res.rows[k]]
  BY <1>2, UpdateReplayRowsTable DEF ReclaimStaleReplayRows, ResetToPending
<1>5. n.res.rows = [k \in DOMAIN r.rows |->
                       IF k \in batch THEN ClaimedRow(r.rows[k], t) ELSE r.rows[k]]
  BY <1>1, ClaimParts
<1> HIDE DEF r, batch, ids, key
<1>6. IsFiniteSet(DOMAIN r.rows) /\ DOMAIN r.rows \subseteq Nat
       /\ \A k \in DOMAIN r.rows : r.rows[k] \in Row
  BY <1>3, ReservoirFacts, SoundFacts
<1>7. ids \subseteq DOMAIN r.rows /\ batch = First(key, ids, limit)
       /\ key = [k \in DOMAIN r.rows |-> r.rows[k].ingestAt]
       /\ batch \subseteq ids
  BY DEF ids, batch, key, ClaimBatch, ClaimableRows, InState, First, IngestOrder
<1>8. j \in DOMAIN r.rows /\ n.res.rows[j] = r.rows[j] /\ j \notin batch
       /\ r.rows[j].state \in PendingStates
  BY <1>1, <1>5 DEF InState
\* The row left behind could have been claimed.
<1>9. j \in ids
  <2>1. CASE j \in stale
    <3>1. r.rows[j] = Updated(m.res.rows[j], "pending", NULL, t) /\ m.res.rows[j] \in Row
      BY <1>2, <1>4, <1>8, <2>1
    <3>2. r.rows[j].state = "pending" /\ r.rows[j].retryAt = NULL
      BY <3>1 DEF Updated, Row
    <3>3. QED
      BY <1>8, <3>2 DEF ids, ClaimableRows, InState
  <2>2. CASE j \notin stale
    <3>1. j \in DOMAIN m.res.rows /\ r.rows[j] = m.res.rows[j]
      BY <1>4, <1>8, <2>2
    <3>2. Due(r.rows[j], t) /\ r.rows[j] \in Row
      BY <1>6, <1>8, <3>1
    <3>3. r.rows[j].state # "replaying"
      <4>1. SUFFICES ASSUME r.rows[j].state = "replaying" PROVE FALSE
        OBVIOUS
      <4>2. r.rows[j].claimedAt = NULL \/ r.rows[j].claimedAt <= t - RetryBackoff
        BY <3>2, <4>1 DEF Due, Row, OptionalNat
      <4>3. QED
        BY <2>2, <3>1, <4>1, <4>2 DEF stale, StaleRows, InState
    <3>4. r.rows[j].state = "pending"
      BY <1>8, <3>3 DEF PendingStates
    <3>5. QED
      BY <1>8, <3>2, <3>4 DEF ids, ClaimableRows, InState, Due
  <2>3. QED
    BY <2>1, <2>2
<1>10. key[i] < key[j] \/ (key[i] = key[j] /\ i < j)
  <2>1. IsFiniteSet(ids) /\ ids \subseteq Nat
    BY <1>6, <1>7, FS_Subset
  <2>2. \A k \in ids : key[k] \in Nat
    BY <1>6, <1>7 DEF Row
  <2>3. i \in First(key, ids, limit) /\ j \notin First(key, ids, limit)
    BY <1>1, <1>7, <1>8
  <2>4. QED
    BY <1>9, <2>1, <2>2, <2>3, FirstInOrder
<1>11. n.res.rows[i].ingestAt = r.rows[i].ingestAt /\ i \in DOMAIN r.rows
  <2>1. i \in batch /\ i \in DOMAIN r.rows
    BY <1>1, <1>7
  <2>2. n.res.rows[i] = ClaimedRow(r.rows[i], t) /\ r.rows[i] \in Row
    BY <1>5, <1>6, <2>1
  <2>3. QED
    BY <2>1, <2>2 DEF ClaimedRow, Row
<1>12. QED
  BY <1>7, <1>8, <1>10, <1>11

\* A claim takes no row whose guard still holds, and guards those it takes.
LEMMA ClaimLease ==
  ASSUME NEW m, SoundMon(m), NEW limit, NEW t \in Nat,
         NEW i \in ReplayBatch(m, limit, t)
  PROVE  /\ i \in DOMAIN m.res.rows
         /\ Guarded(BatchClaimed(m, limit, t).res.rows[i], t, t)
         /\ \A since \in 0..t :
              Guarded(m.res.rows[i], since, t) => since + RetryBackoff <= t
<1> USE ReplayAssumption
<1> DEFINE r == ReclaimStaleReplayRows(m.res, RetryBackoff, t)
           batch == ReplayBatch(m, limit, t)
           n == BatchClaimed(m, limit, t)
<1>1. /\ Good(r) /\ batch = ClaimBatch(r, limit, t)
      /\ n.res.rows = [k \in DOMAIN r.rows |->
                         IF k \in batch THEN ClaimedRow(r.rows[k], t) ELSE r.rows[k]]
  BY ClaimParts
<1>2. Rests(m.res, r, {}, {}, t)
  BY ReclaimRests, MonitorParts
<1>3. i \in ClaimableRows(r, t) /\ i \in DOMAIN r.rows
  BY <1>1 DEF ClaimBatch, First, ClaimableRows, InState
<1> HIDE DEF r, batch, n
<1>4. r.rows[i] \in Row /\ n.res.rows[i] = ClaimedRow(r.rows[i], t)
  <2>1. i \in batch
    BY DEF batch
  <2>2. r.rows[i] \in Row
    BY <1>1, <1>3, SoundFacts, ReservoirFacts
  <2>3. QED
    BY <1>1, <1>3, <2>1, <2>2
<1>5. Guarded(n.res.rows[i], t, t)
  <2>1. n.res.rows[i].state = "replaying" /\ n.res.rows[i].claimedAt = t
    BY <1>4 DEF ClaimedRow, Row
  <2>2. t # NULL
    BY NullAssumption
  <2>3. QED
    BY <2>1, <2>2 DEF Guarded
<1>6. i \in DOMAIN m.res.rows
  BY <1>2, <1>3 DEF Rests, Stays
<1>7. ASSUME NEW since \in 0..t, Guarded(m.res.rows[i], since, t)
      PROVE  since + RetryBackoff <= t
  <2>1. Guarded(r.rows[i], since, t)
    BY <1>2, <1>3, <1>7 DEF Rests
  <2>2. /\ r.rows[i].state = "pending"
        /\ r.rows[i].retryAt = NULL \/ r.rows[i].retryAt <= t
    BY <1>3 DEF ClaimableRows, InState
  <2>3. r.rows[i].retryAt \in Nat \/ r.rows[i].retryAt = NULL
    BY <1>4 DEF Row, OptionalNat
  <2>4. QED
    BY <2>1, <2>2, <2>3 DEF Guarded, TerminalStates
<1>8. QED
  BY <1>5, <1>6, <1>7 DEF n

\* An acknowledged row is settled, whatever state it was in.
LEMMA AcknowledgedSettled ==
  ASSUME NEW m, SoundMon(m), NEW ids, NEW t \in Nat
  PROVE  LET n == AcknowledgeBatch(m, ids, t)
         IN  /\ \A i \in ids \cap DOMAIN n.res.rows : n.res.rows[i].state = "delivered"
             /\ n.session = m.session \/ n.session.state = "completed"
<1> DEFINE d == RowsDelivered(m, ids, t)
<1>1. d = [m EXCEPT !.res = MarkDelivered(m.res, ids, t)]
  BY DEF RowsDelivered, SoundMon, IsMonitor
<1>2. /\ d.res = MarkDelivered(m.res, ids, t) /\ d.session = m.session
      /\ Complete(d).res = d.res /\ Complete(d).session = Fresh("completed")
  BY <1>1 DEF Complete, SoundMon, IsMonitor
<1>3. AcknowledgeBatch(m, ids, t) = d \/ AcknowledgeBatch(m, ids, t) = Complete(d)
  BY DEF AcknowledgeBatch
<1> HIDE DEF d
<1>4. IsReservoir(m.res) /\ \A i \in DOMAIN m.res.rows : m.res.rows[i] \in Row
  BY MonitorParts, ReservoirFacts
<1>5. d.res.rows = [i \in DOMAIN m.res.rows |->
                      IF i \in ids THEN Updated(m.res.rows[i], "delivered", NULL, t)
                      ELSE m.res.rows[i]]
  BY <1>2, <1>4, UpdateReplayRowsTable DEF MarkDelivered
<1>6. \A i \in ids \cap DOMAIN d.res.rows : d.res.rows[i].state = "delivered"
  <2> SUFFICES ASSUME NEW i \in ids \cap DOMAIN d.res.rows
               PROVE  d.res.rows[i].state = "delivered"
    OBVIOUS
  <2>1. i \in DOMAIN m.res.rows
    BY <1>5
  <2>2. d.res.rows[i] = Updated(m.res.rows[i], "delivered", NULL, t) /\ m.res.rows[i] \in Row
    BY <1>4, <1>5, <2>1
  <2>3. QED
    BY <2>2 DEF Updated, Row
<1>7. Fresh("completed").state = "completed"
  BY FreshSession DEF SessionStates
<1>8. QED
  BY <1>2, <1>3, <1>6, <1>7
=============================================================================
