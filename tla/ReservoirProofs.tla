-------------------------- MODULE ReservoirProofs ---------------------------
(***************************************************************************)
(* For every configuration, every event size and any number of rows: the   *)
(* reservoir's types, its capacity accounting and its cached count are     *)
(* right, it implements the ledger, row ids are never used twice, the      *)
(* columns of a row agree with its state, retention gives up nothing that  *)
(* is young or in flight, claims follow the order of ingest, and the       *)
(* posture that is reported agrees with what an append would be told.      *)
(***************************************************************************)
EXTENDS Reservoir, ReservoirLemmas

-----------------------------------------------------------------------------
(* Steps.                                                                  *)

\* What holds of the reservoir value in every reachable state: its cached
\* count is off by d.
Sound(r, d) == Good(r) /\ d \in Int /\ Drift(r) = d

\* What a transaction may leave of the reservoir, and what it may leave when it
\* does not commit.
FailedOutcomes(r, attempted) == {RolledBack(r, attempted), AutoRolledBack(r, attempted)}
Outcomes(r, attempted) == {attempted} \cup FailedOutcomes(r, attempted)

LEMMA OutcomeTaken ==
  ASSUME NEW r, NEW attempted
  PROVE  /\ Fails(r, attempted) => res' \in FailedOutcomes(r, attempted)
         /\ Fails(r, attempted) => res' \in Outcomes(r, attempted)
         /\ Commits(attempted) => res' \in Outcomes(r, attempted)
BY DEF Fails, Commits, FailedOutcomes, Outcomes

\* A transaction leaves a sound reservoir when it commits and when it fails: a
\* rollback takes the drift back, one behind the process's back adds to it.
LEMMA OutcomesSound ==
  ASSUME NEW r, Sound(r, drift), NEW attempted, Sound(attempted, drift),
         Commits(attempted) \/ Fails(r, attempted)
  PROVE  Sound(res', drift')
<1>1. /\ Good(r) /\ r.pendingRows \in Int /\ r.cached \in Int
      /\ Good(attempted) /\ attempted.cached \in Int /\ attempted.pendingRows \in Int
      /\ drift \in Int
  BY DEF Sound, Good, IsReservoir
<1>2. CASE Commits(attempted)
  BY <1>2 DEF Commits
<1>3. CASE res' = RolledBack(r, attempted) /\ drift' = 0
  <2>1. res' = [r EXCEPT !.cached = r.pendingRows]
    BY <1>3 DEF RolledBack
  <2>2. Good(res') /\ Drift(res') = r.pendingRows - r.pendingRows
    BY <1>1, <2>1, CachedGood
  <2>3. QED
    BY <1>1, <1>3, <2>2 DEF Sound
<1>4. CASE res' = AutoRolledBack(r, attempted) /\ drift' = drift + OpenedBy(r, attempted)
  <2>1. res' = [r EXCEPT !.cached = attempted.cached]
    BY <1>4 DEF AutoRolledBack
  <2>2. Good(res') /\ Drift(res') = attempted.cached - r.pendingRows
    BY <1>1, <2>1, CachedGood
  <2>3. attempted.cached - attempted.pendingRows = drift
    BY DEF Sound, Drift
  <2>4. OpenedBy(r, attempted) = attempted.pendingRows - r.pendingRows
    BY <1>1 DEF OpenedBy, Good, AccountingMatches
  <2>5. QED
    BY <1>1, <1>4, <2>2, <2>3, <2>4 DEF Sound
<1>5. QED
  BY <1>2, <1>3, <1>4 DEF Fails

\* Every operation keeps a reservoir sound.
LEMMA OperationsSound ==
  ASSUME NEW r, NEW d, Sound(r, d), NEW t \in Nat
  PROVE  /\ \A ids : Sound(MarkDelivered(r, ids, t), d) /\ Sound(DeadLetter(r, ids, t), d)
         /\ \A ids : \A retryAt \in OptionalNat :
              Sound(ResetToPending(r, ids, retryAt, t), d)
         /\ \A fromStates : \A next \in ReplayStates :
              Sound(UpdateReplayState(r, fromStates, next), d)
         /\ \A limit : Sound(ClaimReplayBatch(r, limit, t), d)
         /\ Sound(DeleteExpiredTerminalRows(r, t), d)
         /\ Sound(RecoverRestartState(r), 0)
<1>1. Good(r)
  BY DEF Sound
<1>2. ASSUME NEW ids, NEW next \in ReplayStates, NEW retryAt \in OptionalNat
      PROVE  Sound(UpdateReplayRows(r, ids, next, retryAt, t), d)
  BY <1>1, UpdateReplayRowsGood DEF Sound
<1>3. /\ "delivered" \in ReplayStates /\ "dead_letter" \in ReplayStates
      /\ "pending" \in ReplayStates /\ NULL \in OptionalNat
  BY DEF ReplayStates, OptionalNat
<1>4. \A ids : Sound(MarkDelivered(r, ids, t), d) /\ Sound(DeadLetter(r, ids, t), d)
  BY <1>2, <1>3 DEF MarkDelivered, DeadLetter
<1>5. ASSUME NEW ids, NEW retryAt \in OptionalNat
      PROVE  Sound(ResetToPending(r, ids, retryAt, t), d)
  BY <1>2, <1>3 DEF ResetToPending
<1>6. ASSUME NEW fromStates, NEW next \in ReplayStates
      PROVE  Sound(UpdateReplayState(r, fromStates, next), d)
  BY <1>1, UpdateReplayStateGood DEF Sound
<1>7. ASSUME NEW limit  PROVE Sound(ClaimReplayBatch(r, limit, t), d)
  BY <1>1, ClaimGood DEF Sound
<1>8. Sound(DeleteExpiredTerminalRows(r, t), d)
  BY <1>1, DeleteGood DEF Sound
<1>9. Sound(RecoverRestartState(r), 0)
  BY <1>1, RecoverGood DEF Sound
<1>10. QED
  BY <1>4, <1>5, <1>6, <1>7, <1>8, <1>9

\* The inductive invariant.
Inv ==
  /\ Sound(res, drift)
  /\ now \in Nat
  /\ latched \in BOOLEAN
  /\ evidence \in OptionalNat

LEMMA InitInv == Init => Inv
<1> SUFFICES ASSUME Init PROVE Inv
  OBVIOUS
<1>1. Good(EmptyReservoir) /\ Drift(EmptyReservoir) = 0
  BY EmptyGood
<1>2. 0 \in Int
  OBVIOUS
<1>3. Sound(res, drift)
  BY <1>1, <1>2 DEF Init, Sound
<1>4. QED
  BY <1>3, InputAssumption DEF Init, Inv

LEMMA StepInv == Inv /\ [Next]_vars => Inv'
<1> SUFFICES ASSUME Inv, [Next]_vars PROVE Inv'
  OBVIOUS
<1> USE DEF Inv
<1>1. ASSUME NEW attempted, Sound(attempted, drift), Transaction(attempted)
      PROVE  Inv'
  BY <1>1, OutcomesSound DEF Transaction
<1>2. \A bytes : LatchOnAppend(bytes) => latched' \in BOOLEAN
  BY DEF LatchOnAppend, LatchAfter
<1>3. ASSUME NEW bytes \in EventSizes, NEW mode \in DeliveryModes,
             NEW state \in ReplayStates, NEW ingestAt \in Nat,
             Append(bytes, mode, state, ingestAt)
      PROVE  Inv'
  <2>1. Sound(AppendIngressEvent(res, bytes, mode, state, ingestAt), drift)
    BY InputAssumption, AppendGood DEF Sound
  <2>2. Sound(res', drift')
    BY <2>1, <1>3, OutcomesSound DEF Append
  <2>3. QED
    BY <2>2, <1>2, <1>3 DEF Append
<1>4. ASSUME NEW bytes, NEW state, RefuseAppend(bytes, state)
      PROVE  Inv'
  BY <1>2, <1>4 DEF RefuseAppend
<1>5. RetryBackoff \in Nat /\ now + RetryBackoff \in OptionalNat
      /\ NULL \in OptionalNat
  BY InputAssumption DEF OptionalNat
<1>6. CASE Reclaim
  <2> DEFINE After(passes) == ReclaimPasses(res, RetryBackoff, passes, now)
             All == ReclaimStaleReplayRows(res, RetryBackoff, now)
  <2>1. \A passes : Sound(After(passes), drift)
    BY <1>5, OperationsSound DEF ReclaimPasses
  <2>2. Sound(All, drift)
    BY <1>5, OperationsSound DEF ReclaimStaleReplayRows
  <2>3. \/ Commits(All)
        \/ \E k : Fails(After(k), After(k + 1))
    BY <1>6 DEF Reclaim
  <2> HIDE DEF After, All
  <2>4. Sound(res', drift')
    BY <2>1, <2>2, <2>3, OutcomesSound
  <2>5. QED
    BY <2>4, <1>6 DEF Reclaim
<1>7. ASSUME NEW fullOutage, Prune(fullOutage)
      PROVE  Inv'
  <2> DEFINE marked == MarkExpiredPendingRows(res, fullOutage, now)
             done == DeleteExpiredTerminalRows(marked, now)
  <2>1. Sound(marked, drift)
    BY OperationsSound DEF MarkExpiredPendingRows
  <2>2. Commits(done) \/ Fails(res, marked) \/ Fails(marked, done)
    BY <1>7 DEF Prune
  <2> HIDE DEF marked
  <2>3. Sound(done, drift)
    BY <2>1, OperationsSound
  <2> HIDE DEF done
  <2>4. Sound(res', drift')
    BY <2>1, <2>2, <2>3, OutcomesSound
  <2>5. QED
    BY <2>4, <1>7 DEF Prune
<1>8. CASE RuntimeCalls
  <2>1. /\ \A ingestAt \in {now} \cup EarlyIngestTimes : ingestAt \in Nat
        /\ \A mode \in IngressModes : mode \in DeliveryModes
        /\ "normal" \in DeliveryModes
        /\ "pending" \in ReplayStates /\ "delivered" \in ReplayStates
    BY InputAssumption DEF DeliveryModes, ReplayStates
  <2>2. ASSUME NEW bytes \in EventSizes, NEW mode \in IngressModes,
               NEW ingestAt \in {now} \cup EarlyIngestTimes,
               \/ Append(bytes, mode, "pending", ingestAt)
               \/ Append(bytes, "normal", "delivered", ingestAt)
        PROVE  Inv'
    BY <2>1, <2>2, <1>3
  <2>3. ASSUME NEW limit, Claim(limit)  PROVE Inv'
    BY <2>3, <1>1, OperationsSound DEF Claim
  <2>4. ASSUME NEW ids, Acknowledge(ids)  PROVE Inv'
    BY <2>4, <1>1, OperationsSound DEF Acknowledge
  <2>5. ASSUME NEW ids, NEW retryAt \in {NULL, now + RetryBackoff},
               Reset(ids, retryAt)
        PROVE  Inv'
    BY <2>5, <1>1, <1>5, OperationsSound DEF Reset
  <2>6. QED
    BY <1>8, <2>2, <1>4, <2>3, <2>4, <2>5, <1>6, <1>7 DEF RuntimeCalls
<1>9. CASE MaintenanceCalls
  <2>1. ASSUME NEW ids, GiveUp(ids)  PROVE Inv'
    BY <2>1, <1>1, OperationsSound DEF GiveUp
  <2>2. ASSUME NEW fromStates, NEW next \in ReplayStates,
               BulkUpdate(fromStates, next)
        PROVE  Inv'
    BY <2>2, <1>1, OperationsSound DEF BulkUpdate
  <2>3. QED
    BY <1>9, <2>1, <2>2 DEF MaintenanceCalls
<1>10. CASE Environment
  <2>1. CASE Restart
    BY <2>1, OperationsSound DEF Restart
  <2>2. CASE Tick
    BY <2>2 DEF Tick
  <2>3. CASE FilesystemChanges
    BY <2>3, InputAssumption DEF FilesystemChanges
  <2>4. QED
    BY <1>10, <2>1, <2>2, <2>3 DEF Environment
<1>11. CASE UNCHANGED vars
  BY <1>11 DEF vars
<1>12. QED
  BY <1>8, <1>9, <1>10, <1>11 DEF Next

THEOREM Invariant == Spec => []Inv
BY InitInv, StepInv, PTL DEF Spec

-----------------------------------------------------------------------------
\* Type correctness, for every configuration and any number of rows.
THEOREM TypeCorrect == Spec => []TypeOK
<1>1. Inv => TypeOK
  BY DEF Inv, Sound, Good, TypeOK
<1>2. QED
  BY <1>1, Invariant, PTL

\* The aggregate row is exact after any sequence of operations, failed
\* transactions of both kinds and restarts.
THEOREM AccountingCorrect == Spec => []AccountingExact
<1>1. Inv => AccountingExact
  BY DEF Inv, Sound, Good, AccountingExact
<1>2. QED
  BY <1>1, Invariant, PTL

\* The cached count is the persisted one plus what commits that SQLite ended
\* itself meant to change, after any sequence of operations, failed
\* transactions of both kinds and restarts; where SQLite ends none, it is exact.
THEOREM CachedCountCorrect == Spec => []CachedCountExact
<1>1. Inv => CachedCountExact
  <2> SUFFICES ASSUME Inv PROVE CachedCountExact
    OBVIOUS
  <2>1. Drift(res) = drift /\ res.cached \in Int /\ res.pendingRows \in Int
    BY DEF Inv, Sound, Good, IsReservoir
  <2>2. QED
    BY <2>1 DEF Drift, CachedCountExact
<1>2. QED
  BY <1>1, Invariant, PTL

-----------------------------------------------------------------------------
(* What a step makes of the books: the rows by class, and the mark.        *)

Open(r) == InState(r.rows, PendingStates)
Settled(r) == InState(r.rows, TerminalStates)

LEMMA Classes ==
  ASSUME NEW r, IsReservoir(r)
  PROVE  Open(r) \cap Settled(r) = {} /\ Open(r) \cup Settled(r) = DOMAIN r.rows
  BY OpenOrSettled DEF Open, Settled

\* The three kinds of steps.
Reclassifies(r, n) == n.seq = r.seq /\ DOMAIN n.rows = DOMAIN r.rows

Accepts(r, n) ==
  /\ n.seq = r.seq + 1
  /\ DOMAIN n.rows = (DOMAIN r.rows) \cup {n.seq}
  /\ \A i \in DOMAIN r.rows : n.rows[i] = r.rows[i]

Retires(r, n) ==
  /\ n.seq = r.seq
  /\ DOMAIN n.rows \subseteq DOMAIN r.rows
  /\ Open(n) \subseteq Open(r)
  /\ DeadLetterRetention # 0 => (DOMAIN r.rows) \ DOMAIN n.rows \subseteq Settled(r)

StepKinds(r, n) == Reclassifies(r, n) \/ Accepts(r, n) \/ Retires(r, n)

\* A transaction that fails leaves the table as it was.
LEMMA FailureKeepsTable ==
  ASSUME NEW r, IsReservoir(r), NEW attempted, NEW n \in Outcomes(r, attempted)
  PROVE  n = attempted \/ (n.rows = r.rows /\ n.seq = r.seq)
<1>1. \A c : [r EXCEPT !.cached = c].rows = r.rows
           /\ [r EXCEPT !.cached = c].seq = r.seq
  BY DEF IsReservoir
<1>2. n = attempted \/ \E c : n = [r EXCEPT !.cached = c]
  BY DEF Outcomes, FailedOutcomes, RolledBack, AutoRolledBack
<1>3. QED
  BY <1>1, <1>2

LEMMA TransactionKind ==
  ASSUME NEW r, IsReservoir(r), NEW attempted, Reclassifies(r, attempted),
         NEW n \in Outcomes(r, attempted)
  PROVE  Reclassifies(r, n)
BY FailureKeepsTable DEF Reclassifies

\* Pruning gives rows up and forgets settled ones.  Forgetting what it has just
\* given up takes a retention of zero.
LEMMA PruneRetires ==
  ASSUME NEW r, Good(r), NEW fullOutage, NEW t \in Nat
  PROVE  LET marked == MarkExpiredPendingRows(r, fullOutage, t)
         IN  Retires(r, DeleteExpiredTerminalRows(marked, t))
<1> DEFINE ids == First(IngestOrder(r.rows), ExpiredPendingRows(r, fullOutage, t),
                        PruneBatchSize)
           marked == MarkExpiredPendingRows(r, fullOutage, t)
           done == DeleteExpiredTerminalRows(marked, t)
           gone == Expired(marked, t)
<1>1. /\ marked.seq = r.seq
      /\ marked.rows = [i \in DOMAIN r.rows |->
                          IF i \in ids THEN Updated(r.rows[i], "dead_letter", NULL, t)
                          ELSE r.rows[i]]
  BY UpdateReplayRowsTable DEF MarkExpiredPendingRows, DeadLetter, Good
<1>2. "dead_letter" \in ReplayStates /\ NULL \in OptionalNat
  BY DEF ReplayStates, OptionalNat
<1>3. Good(marked)
  BY <1>2, UpdateReplayRowsGood DEF MarkExpiredPendingRows, DeadLetter
<1>4. \A i \in DOMAIN r.rows : r.rows[i] \in Row
  BY ReservoirFacts DEF Good
<1>5. ASSUME NEW row \in Row
      PROVE  /\ Updated(row, "dead_letter", NULL, t).state = "dead_letter"
             /\ Updated(row, "dead_letter", NULL, t).terminalAt = t
  BY DEF Row, Updated, TerminalStates
<1> HIDE DEF ids, marked
<1>6. \A i \in DOMAIN r.rows :
        \/ marked.rows[i] = r.rows[i]
        \/ /\ marked.rows[i].state = "dead_letter"
           /\ marked.rows[i].terminalAt = t
  BY <1>1, <1>4, <1>5
<1>7. /\ done.seq = r.seq
      /\ done.rows = [i \in (DOMAIN r.rows) \ gone |-> marked.rows[i]]
      /\ gone \subseteq ExpiredTerminalRows(marked, t)
  BY <1>1, <1>3, DeleteTable DEF Good
<1> HIDE DEF done, gone
<1>8. Open(done) \subseteq Open(r)
  BY <1>6, <1>7 DEF Open, InState, PendingStates
<1>9. ASSUME DeadLetterRetention # 0, NEW i \in DOMAIN r.rows, i \in gone
      PROVE  i \in Settled(r)
  <2>1. /\ marked.rows[i].state \in TerminalStates
        /\ marked.rows[i].terminalAt
             <= t - (IF marked.rows[i].state = "delivered"
                     THEN DeliveredRetention ELSE DeadLetterRetention)
    BY <1>7, <1>9 DEF ExpiredTerminalRows, InState
  <2>2. ~ (marked.rows[i].state = "dead_letter" /\ marked.rows[i].terminalAt = t)
    BY <2>1, <1>9, RetentionAssumption
  <2>3. marked.rows[i] = r.rows[i]
    BY <1>6, <2>2
  <2>4. QED
    BY <2>1, <2>3 DEF Settled, InState
<1>10. Retires(r, done)
  BY <1>7, <1>8, <1>9 DEF Retires
<1>11. QED
  BY <1>10 DEF done, marked

\* Every step of the reservoir is of one of the three kinds.
LEMMA StepKind == Inv /\ [Next]_vars => StepKinds(res, res')
<1> SUFFICES ASSUME Inv, [Next]_vars PROVE StepKinds(res, res')
  OBVIOUS
<1>1. Good(res) /\ IsReservoir(res) /\ now \in Nat
  BY DEF Inv, Sound, Good
<1>2. ASSUME NEW ids, NEW next, NEW retryAt
      PROVE  Reclassifies(res, UpdateReplayRows(res, ids, next, retryAt, now))
  <2> DEFINE n == UpdateReplayRows(res, ids, next, retryAt, now)
  <2>1. /\ n.seq = res.seq
        /\ n.rows = [i \in DOMAIN res.rows |->
                       IF i \in ids THEN Updated(res.rows[i], next, retryAt, now)
                       ELSE res.rows[i]]
    BY <1>1, UpdateReplayRowsTable
  <2> HIDE DEF n
  <2>2. QED
    BY <2>1 DEF Reclassifies, n
<1>3. ASSUME NEW attempted, Reclassifies(res, attempted), Transaction(attempted)
      PROVE  StepKinds(res, res')
  BY <1>1, <1>3, OutcomeTaken, TransactionKind DEF Transaction, StepKinds
<1>4. ASSUME NEW bytes, NEW mode, NEW state, NEW ingestAt,
             Append(bytes, mode, state, ingestAt)
      PROVE  StepKinds(res, res')
  <2> DEFINE n == AppendIngressEvent(res, bytes, mode, state, ingestAt)
  <2>1. res' \in Outcomes(res, n)
    BY <1>4, OutcomeTaken DEF Append
  <2>2. Accepts(res, n)
    <3>1. res.seq \in Nat /\ DOMAIN res.rows \subseteq 1..res.seq
      BY <1>1, ReservoirFacts DEF IsReservoir
    <3>2. res.seq + 1 \notin DOMAIN res.rows
      BY <3>1
    <3>3. /\ n.seq = res.seq + 1
          /\ DOMAIN n.rows = (DOMAIN res.rows) \cup {res.seq + 1}
          /\ \A i \in DOMAIN res.rows : i # res.seq + 1 => n.rows[i] = res.rows[i]
      <4>1. /\ n.seq = res.seq + 1
            /\ n.rows = [i \in (DOMAIN res.rows) \cup {res.seq + 1} |->
                 IF i = res.seq + 1 THEN NewRow(bytes, mode, state, ingestAt)
                 ELSE res.rows[i]]
        BY <1>1, AppendTable
      <4> HIDE DEF n
      <4>2. QED
        BY <4>1
    <3> HIDE DEF n
    <3>4. QED
      BY <3>2, <3>3 DEF Accepts
  <2> HIDE DEF n
  <2>3. QED
    BY <1>1, <2>1, <2>2, FailureKeepsTable DEF StepKinds, Reclassifies
<1>5. CASE Reclaim
  <2> DEFINE After(passes) == ReclaimPasses(res, RetryBackoff, passes, now)
             All == ReclaimStaleReplayRows(res, RetryBackoff, now)
  <2>1. Reclassifies(res, All) /\ \A k : Reclassifies(res, After(k))
    BY <1>2 DEF ReclaimPasses, ReclaimStaleReplayRows, ResetToPending
  <2>2. \A k : IsReservoir(After(k))
    <3>1. NULL \in OptionalNat
      BY DEF OptionalNat
    <3>2. \A k : Sound(After(k), drift)
      BY <1>1, <3>1, OperationsSound DEF ReclaimPasses, Inv
    <3>3. QED
      BY <3>2 DEF Sound, Good
  <2>3. \/ res' = All
        \/ \E k : res' \in FailedOutcomes(After(k), After(k + 1))
    BY <1>5, OutcomeTaken DEF Reclaim, Commits
  <2> HIDE DEF After, All
  <2>4. CASE res' = All
    BY <2>1, <2>4 DEF StepKinds
  <2>5. ASSUME NEW k, res' \in FailedOutcomes(After(k), After(k + 1))
        PROVE  Reclassifies(res, res')
    <3>1. res' \in Outcomes(After(k), After(k + 1))
      BY <2>5 DEF Outcomes
    <3>2. res' = After(k + 1) \/ (res'.rows = After(k).rows /\ res'.seq = After(k).seq)
      BY <2>2, <3>1, FailureKeepsTable
    <3>3. QED
      BY <2>1, <3>2 DEF Reclassifies
  <2>6. QED
    BY <2>3, <2>4, <2>5 DEF StepKinds
<1>6. ASSUME NEW fullOutage, Prune(fullOutage)
      PROVE  StepKinds(res, res')
  <2> DEFINE marked == MarkExpiredPendingRows(res, fullOutage, now)
             done == DeleteExpiredTerminalRows(marked, now)
  <2>1. Reclassifies(res, marked)
    BY <1>2 DEF MarkExpiredPendingRows, DeadLetter
  <2>2. Sound(marked, drift)
    BY <1>1, OperationsSound DEF MarkExpiredPendingRows, Inv
  <2>3. Retires(res, done)
    BY <1>1, PruneRetires
  <2>4. res' \in Outcomes(res, marked) \/ res' \in Outcomes(marked, done)
    BY <1>6, OutcomeTaken DEF Prune
  <2> HIDE DEF done
  <2>5. CASE res' \in Outcomes(res, marked)
    BY <1>1, <2>1, <2>5, TransactionKind DEF StepKinds
  <2> HIDE DEF marked
  <2>6. CASE res' \in Outcomes(marked, done)
    <3>1. res' = done \/ (res'.rows = marked.rows /\ res'.seq = marked.seq)
      BY <2>2, <2>6, FailureKeepsTable DEF Sound, Good
    <3>2. QED
      BY <2>1, <2>3, <3>1 DEF StepKinds, Reclassifies
  <2>7. QED
    BY <2>4, <2>5, <2>6
<1>7. CASE RuntimeCalls
  <2>1. ASSUME NEW limit, Claim(limit)  PROVE StepKinds(res, res')
    <3>1. Reclassifies(res, ClaimReplayBatch(res, limit, now))
      <4> DEFINE n == ClaimReplayBatch(res, limit, now)
      <4>1. /\ n.seq = res.seq
            /\ n.rows = [i \in DOMAIN res.rows |->
                           IF i \in ClaimBatch(res, limit, now)
                           THEN ClaimedRow(res.rows[i], now) ELSE res.rows[i]]
        BY <1>1, ClaimTable
      <4> HIDE DEF n
      <4>2. QED
        BY <4>1 DEF Reclassifies, n
    <3>2. QED
      BY <2>1, <3>1, <1>3 DEF Claim
  <2>2. ASSUME NEW ids, Acknowledge(ids)  PROVE StepKinds(res, res')
    BY <2>2, <1>2, <1>3 DEF Acknowledge, MarkDelivered
  <2>3. ASSUME NEW ids, NEW retryAt, Reset(ids, retryAt)  PROVE StepKinds(res, res')
    BY <2>3, <1>2, <1>3 DEF Reset, ResetToPending
  <2>4. ASSUME NEW bytes, NEW state, RefuseAppend(bytes, state)
        PROVE  StepKinds(res, res')
    BY <2>4 DEF RefuseAppend, StepKinds, Reclassifies
  <2>5. QED
    BY <1>7, <1>4, <1>5, <1>6, <2>1, <2>2, <2>3, <2>4 DEF RuntimeCalls
<1>8. CASE MaintenanceCalls
  <2>1. ASSUME NEW ids, GiveUp(ids)  PROVE StepKinds(res, res')
    BY <2>1, <1>2, <1>3 DEF GiveUp, DeadLetter
  <2>2. ASSUME NEW fromStates, NEW next, BulkUpdate(fromStates, next)
        PROVE  StepKinds(res, res')
    <3>1. Reclassifies(res, UpdateReplayState(res, fromStates, next))
      BY <1>1, UpdateReplayStateTable DEF Reclassifies
    <3>2. QED
      BY <2>2, <3>1, <1>3 DEF BulkUpdate
  <2>3. QED
    BY <1>8, <2>1, <2>2 DEF MaintenanceCalls
<1>9. CASE Restart
  BY <1>1, <1>9, RecoverTable DEF Restart, StepKinds, Reclassifies
<1>10. CASE Tick \/ FilesystemChanges \/ UNCHANGED vars
  BY <1>10 DEF Tick, FilesystemChanges, vars, StepKinds, Reclassifies
<1>11. QED
  BY <1>7, <1>8, <1>9, <1>10 DEF Next, Environment

-----------------------------------------------------------------------------
\* A row id names one event for ever: a late acknowledgement never settles
\* another one, also after retention, failures and restarts.
THEOREM RowIdsUnique == Spec => RowIdsNeverReused
<1> DEFINE Fresh == /\ res'.seq >= res.seq
                    /\ \A i \in (DOMAIN res'.rows) \ DOMAIN res.rows : i > res.seq
<1>1. ASSUME Inv, [Next]_vars PROVE Fresh
  <2>1. res.seq \in Nat
    BY <1>1 DEF Inv, Sound, Good, IsReservoir
  <2>2. StepKinds(res, res')
    BY <1>1, StepKind
  <2>3. QED
    BY <2>1, <2>2 DEF StepKinds, Reclassifies, Accepts, Retires
<1>2. QED
  BY <1>1, Invariant, PTL DEF Spec, RowIdsNeverReused

\* The reservoir implements the ledger, its backlog corrected by the drift: the
\* types, the accounting and the cached count balance the books, and each kind
\* of step is a step of the ledger.
THEOREM LedgerImplemented == Spec => ImplementsLedger
<1>1. Init => L!Init
  BY DEF Init, L!Init, EmptyReservoir, InState
<1>2. ASSUME Inv, [Next]_vars PROVE [L!Next]_(L!vars)
  <2>1. Sound(res, drift) /\ Sound(res', drift')
    BY <1>2, StepInv DEF Inv
  <2>2. /\ IsReservoir(res) /\ IsReservoir(res')
        /\ res'.cached - drift' = Cardinality(Open(res'))
    BY <2>1 DEF Sound, Good, Drift, AccountingMatches, IsReservoir, Open
  <2>3. /\ Open(res) \cup Settled(res) = DOMAIN res.rows
        /\ Open(res') \cup Settled(res') = DOMAIN res'.rows
        /\ Open(res') \cap Settled(res') = {}
    BY <2>2, Classes
  <2>4. DOMAIN res'.rows \subseteq 1..res'.seq /\ res.seq \in Nat
    BY <2>2, ReservoirFacts DEF IsReservoir
  <2>5. L!Balanced
    <3>1. \A S : L!Cardinality(S) = Cardinality(S)
      BY Zenon DEF L!Cardinality, Cardinality
    <3>2. res'.cached - drift' = L!Cardinality(InState(res'.rows, PendingStates))
      BY <2>2, <3>1 DEF Open
    <3>3. /\ InState(res'.rows, PendingStates) \cap InState(res'.rows, TerminalStates) = {}
          /\ InState(res'.rows, PendingStates) \cup InState(res'.rows, TerminalStates)
               \subseteq 1..res'.seq
      BY <2>3, <2>4 DEF Open, Settled
    <3>4. QED
      BY <3>2, <3>3 DEF L!Balanced, L!Books
  <2>6. CASE Reclassifies(res, res')
    BY <2>3, <2>5, <2>6 DEF Reclassifies, L!Next, L!Reclassify, L!Books, Open, Settled
  <2>7. CASE Accepts(res, res')
    <3>1. Open(res) \subseteq Open(res') /\ Settled(res) \subseteq Settled(res')
      BY <2>7 DEF Accepts, Open, Settled, InState
    <3>2. res'.seq > res.seq
      BY <2>4, <2>7 DEF Accepts
    <3>3. QED
      BY <2>3, <2>5, <2>7, <3>1, <3>2
         DEF Accepts, L!Next, L!Accept, L!Books, Open, Settled
  <2>8. CASE Retires(res, res')
    <3>1. L!Retire
      BY <2>3, <2>5, <2>8 DEF Retires, L!Retire, L!Books, Open, Settled
    <3>2. QED
      BY <3>1 DEF L!Next
  <2>9. QED
    BY <1>2, StepKind, <2>6, <2>7, <2>8 DEF StepKinds
<1>3. QED
  BY <1>1, <1>2, Invariant, PTL DEF Spec, ImplementsLedger, L!Spec

-----------------------------------------------------------------------------
(* Under the calls that the runtime makes: the columns of a row agree with *)
(* its state, retention forgets and gives up no row too early, and no      *)
(* claim overtakes.                                                        *)

\* What a call of the runtime may do to a row.
RowMove(r, n, i, t) ==
  \/ n.rows[i] = r.rows[i]
  \/ n.rows[i] = Updated(r.rows[i], "delivered", NULL, t)
  \/ \E retryAt \in OptionalNat :
       n.rows[i] = Updated(r.rows[i], "pending", retryAt, t)
  \/ \E fullOutage :
       /\ i \in ExpiredPendingRows(r, fullOutage, t)
       /\ n.rows[i] = Updated(r.rows[i], "dead_letter", NULL, t)
  \/ \E limit \in ReplayLimits :
       /\ i \in ClaimBatch(r, limit, t)
       /\ \A j \in ClaimBatch(r, limit, t) : n.rows[j] = ClaimedRow(r.rows[j], t)
  \/ n.rows[i] = Released(r.rows[i]) /\ r.rows[i].state = "replaying"

\* What entitles retention to forget a row.
Forgettable(row, t) ==
  \/ row.state = "delivered" /\ t - row.terminalAt >= DeliveredRetention
  \/ row.state = "dead_letter" /\ t - row.terminalAt >= DeadLetterRetention
  \/ row.state = "pending" /\ DeadLetterRetention = 0

RowsMove(r, n, t) ==
  /\ \A i \in (DOMAIN r.rows) \cap DOMAIN n.rows : RowMove(r, n, i, t)
  /\ \A i \in (DOMAIN r.rows) \ DOMAIN n.rows : Forgettable(r.rows[i], t)
  /\ \A i \in (DOMAIN n.rows) \ DOMAIN r.rows :
       Consistent(n.rows[i]) /\ n.rows[i].state # "replaying"

LEMMA Unmoved ==
  ASSUME NEW r, NEW n, n.rows = r.rows, NEW t
  PROVE  RowsMove(r, n, t)
BY DEF RowsMove, RowMove

\* Acknowledging, resetting, and giving up what has expired.
LEMMA UpdateMoves ==
  ASSUME NEW r, IsReservoir(r), NEW ids, NEW t, NEW next, NEW retryAt \in OptionalNat,
         \/ next = "delivered" /\ retryAt = NULL
         \/ next = "pending"
         \/ /\ next = "dead_letter" /\ retryAt = NULL
            /\ \E fullOutage : ids \subseteq ExpiredPendingRows(r, fullOutage, t)
  PROVE  RowsMove(r, UpdateReplayRows(r, ids, next, retryAt, t), t)
<1> DEFINE n == UpdateReplayRows(r, ids, next, retryAt, t)
<1>1. n.rows = [i \in DOMAIN r.rows |->
                  IF i \in ids THEN Updated(r.rows[i], next, retryAt, t)
                  ELSE r.rows[i]]
  BY UpdateReplayRowsTable
<1> HIDE DEF n
<1>2. DOMAIN n.rows = DOMAIN r.rows
  BY <1>1
<1>3. ASSUME NEW i \in DOMAIN r.rows PROVE RowMove(r, n, i, t)
  <2>1. CASE i \notin ids
    BY <1>1, <2>1 DEF RowMove
  <2>2. CASE i \in ids
    <3>1. n.rows[i] = Updated(r.rows[i], next, retryAt, t)
      BY <1>1, <2>2
    <3>2. QED
      BY <3>1, <2>2 DEF RowMove
  <2>3. QED
    BY <2>1, <2>2
<1>4. RowsMove(r, n, t)
  BY <1>2, <1>3 DEF RowsMove
<1>5. QED
  BY <1>4 DEF n

LEMMA ClaimMoves ==
  ASSUME NEW r, IsReservoir(r), NEW limit \in ReplayLimits, NEW t
  PROVE  RowsMove(r, ClaimReplayBatch(r, limit, t), t)
<1> DEFINE n == ClaimReplayBatch(r, limit, t)
<1>1. n.rows = [i \in DOMAIN r.rows |->
                  IF i \in ClaimBatch(r, limit, t) THEN ClaimedRow(r.rows[i], t)
                  ELSE r.rows[i]]
  BY ClaimTable
<1> HIDE DEF n
<1>2. ClaimBatch(r, limit, t) \subseteq DOMAIN r.rows
  BY DEF ClaimBatch, First, ClaimableRows, InState
<1>3. DOMAIN n.rows = DOMAIN r.rows
  BY <1>1
<1>4. \A i \in DOMAIN r.rows : RowMove(r, n, i, t)
  BY <1>1, <1>2 DEF RowMove
<1>5. RowsMove(r, n, t)
  BY <1>3, <1>4 DEF RowsMove
<1>6. QED
  BY <1>5 DEF n

LEMMA RecoverMoves ==
  ASSUME NEW r, IsReservoir(r), NEW t
  PROVE  RowsMove(r, RecoverRestartState(r), t)
<1> DEFINE n == RecoverRestartState(r)
<1>1. n.rows = [i \in DOMAIN r.rows |->
                  IF r.rows[i].state = "replaying" THEN Released(r.rows[i])
                  ELSE r.rows[i]]
  BY RecoverTable
<1> HIDE DEF n
<1>2. DOMAIN n.rows = DOMAIN r.rows
  BY <1>1
<1>3. \A i \in DOMAIN r.rows : RowMove(r, n, i, t)
  BY <1>1 DEF RowMove
<1>4. RowsMove(r, n, t)
  BY <1>2, <1>3 DEF RowsMove
<1>5. QED
  BY <1>4 DEF n

LEMMA AppendMoves ==
  ASSUME NEW r, IsReservoir(r), NEW bytes, NEW mode, NEW ingestAt \in Nat, NEW t,
         NEW state \in {"pending", "delivered"}
  PROVE  RowsMove(r, AppendIngressEvent(r, bytes, mode, state, ingestAt), t)
<1> DEFINE n == AppendIngressEvent(r, bytes, mode, state, ingestAt)
           id == r.seq + 1
           row == NewRow(bytes, mode, state, ingestAt)
<1>1. n.rows = [i \in (DOMAIN r.rows) \cup {id} |-> IF i = id THEN row ELSE r.rows[i]]
  BY AppendTable
<1>2. id \notin DOMAIN r.rows
  <2>1. r.seq \in Nat /\ DOMAIN r.rows \subseteq 1..r.seq
    BY ReservoirFacts DEF IsReservoir
  <2>2. QED
    BY <2>1
<1>3. Consistent(row) /\ row.state # "replaying"
  BY NullAssumption DEF NewRow, Consistent, TerminalStates
<1> HIDE DEF n, id, row
<1>4. RowsMove(r, n, t)
  BY <1>1, <1>2, <1>3 DEF RowsMove, RowMove
<1>5. QED
  BY <1>4 DEF n

\* Pruning, when both of its transactions commit.
LEMMA PruneMoves ==
  ASSUME NEW r, Good(r), NEW fullOutage, NEW t \in Nat
  PROVE  LET marked == MarkExpiredPendingRows(r, fullOutage, t)
         IN  /\ RowsMove(r, marked, t)
             /\ RowsMove(r, DeleteExpiredTerminalRows(marked, t), t)
<1> DEFINE ids == First(IngestOrder(r.rows), ExpiredPendingRows(r, fullOutage, t),
                        PruneBatchSize)
           marked == MarkExpiredPendingRows(r, fullOutage, t)
           done == DeleteExpiredTerminalRows(marked, t)
           gone == Expired(marked, t)
<1>1. IsReservoir(r) /\ "dead_letter" \in ReplayStates /\ NULL \in OptionalNat
  BY DEF Good, ReplayStates, OptionalNat
<1>2. /\ ids \subseteq ExpiredPendingRows(r, fullOutage, t)
      /\ marked = UpdateReplayRows(r, ids, "dead_letter", NULL, t)
  BY DEF First, MarkExpiredPendingRows, DeadLetter
<1> HIDE DEF ids
<1>3. RowsMove(r, marked, t)
  <2>1. RowsMove(r, UpdateReplayRows(r, ids, "dead_letter", NULL, t), t)
    BY <1>1, <1>2, UpdateMoves
  <2>2. QED
    BY <1>2, <2>1
<1>4. marked.rows = [i \in DOMAIN r.rows |->
                       IF i \in ids THEN Updated(r.rows[i], "dead_letter", NULL, t)
                       ELSE r.rows[i]]
  BY <1>1, <1>2, UpdateReplayRowsTable
<1>5. Good(marked)
  BY <1>1, <1>2, UpdateReplayRowsGood
<1>6. \A i \in DOMAIN r.rows : r.rows[i] \in Row
  BY <1>1, ReservoirFacts
<1> HIDE DEF marked
<1>7. /\ done.rows = [i \in (DOMAIN r.rows) \ gone |-> marked.rows[i]]
      /\ gone \subseteq ExpiredTerminalRows(marked, t)
  <2>1. DOMAIN marked.rows = DOMAIN r.rows
    BY <1>4
  <2>2. QED
    BY <2>1, <1>5, DeleteTable DEF Good
<1> HIDE DEF done, gone
<1>8. ASSUME NEW i \in (DOMAIN r.rows) \cap DOMAIN done.rows
      PROVE  RowMove(r, done, i, t)
  <2>1. done.rows[i] = marked.rows[i]
    BY <1>7
  <2>2. \/ marked.rows[i] = r.rows[i]
        \/ /\ i \in ExpiredPendingRows(r, fullOutage, t)
           /\ marked.rows[i] = Updated(r.rows[i], "dead_letter", NULL, t)
    BY <1>2, <1>4
  <2>3. QED
    BY <2>1, <2>2 DEF RowMove
<1>9. ASSUME NEW i \in (DOMAIN r.rows) \ DOMAIN done.rows
      PROVE  Forgettable(r.rows[i], t)
  <2>1. i \in gone
    BY <1>7
  <2>2. /\ marked.rows[i].state \in TerminalStates
        /\ marked.rows[i].terminalAt # NULL
        /\ marked.rows[i].terminalAt
             <= t - (IF marked.rows[i].state = "delivered"
                     THEN DeliveredRetention ELSE DeadLetterRetention)
    BY <1>7, <2>1 DEF ExpiredTerminalRows, InState
  <2>3. CASE i \notin ids
    <3>1. marked.rows[i] = r.rows[i] /\ r.rows[i].terminalAt \in Nat \cup {NULL}
      BY <1>4, <1>6, <2>3 DEF Row, OptionalNat
    <3>2. r.rows[i].terminalAt \in Nat
      BY <2>2, <3>1
    <3>3. QED
      BY <2>2, <3>1, <3>2, RetentionAssumption DEF Forgettable, TerminalStates
  <2>4. CASE i \in ids
    <3>1. marked.rows[i].state = "dead_letter" /\ marked.rows[i].terminalAt = t
      BY <1>1, <1>4, <1>6, <2>4, MovedRow
    <3>2. r.rows[i].state = "pending"
      BY <1>2, <2>4 DEF ExpiredPendingRows, InState
    <3>3. QED
      BY <2>2, <3>1, <3>2, RetentionAssumption DEF Forgettable
  <2>5. QED
    BY <2>3, <2>4
<1>10. (DOMAIN done.rows) \ DOMAIN r.rows = {}
  BY <1>7
<1>11. RowsMove(r, done, t)
  BY <1>8, <1>9, <1>10 DEF RowsMove
<1>12. QED
  BY <1>3, <1>11 DEF done, marked

-----------------------------------------------------------------------------
(* Steps.                                                                  *)

LEMMA OutcomeMoves ==
  ASSUME NEW r, IsReservoir(r), NEW t, NEW attempted, RowsMove(r, attempted, t),
         NEW n \in Outcomes(r, attempted)
  PROVE  RowsMove(r, n, t)
BY FailureKeepsTable, Unmoved

\* Every step of the runtime moves the rows as RowsMove says.
LEMMA StepMoves == Inv /\ [RuntimeNext]_vars => RowsMove(res, res', now)
<1> SUFFICES ASSUME Inv, [RuntimeNext]_vars PROVE RowsMove(res, res', now)
  OBVIOUS
<1>1. Good(res) /\ IsReservoir(res) /\ now \in Nat
  BY DEF Inv, Sound, Good
<1>2. /\ NULL \in OptionalNat /\ now + RetryBackoff \in OptionalNat
      /\ "pending" \in ReplayStates
  BY <1>1, InputAssumption DEF OptionalNat, ReplayStates
<1>3. ASSUME NEW attempted, RowsMove(res, attempted, now), Transaction(attempted)
      PROVE  RowsMove(res, res', now)
  BY <1>1, <1>3, OutcomeTaken, OutcomeMoves DEF Transaction
<1>4. ASSUME NEW bytes, NEW mode, NEW state \in {"pending", "delivered"},
             NEW ingestAt \in Nat, Append(bytes, mode, state, ingestAt)
      PROVE  RowsMove(res, res', now)
  <2>1. RowsMove(res, AppendIngressEvent(res, bytes, mode, state, ingestAt), now)
    BY <1>1, AppendMoves
  <2>2. QED
    BY <1>1, <1>4, <2>1, OutcomeTaken, OutcomeMoves DEF Append
<1>5. CASE Reclaim
  <2> DEFINE After(passes) == ReclaimPasses(res, RetryBackoff, passes, now)
             All == ReclaimStaleReplayRows(res, RetryBackoff, now)
  <2>1. RowsMove(res, All, now) /\ \A k : RowsMove(res, After(k), now)
    BY <1>1, <1>2, UpdateMoves
       DEF ReclaimPasses, ReclaimStaleReplayRows, ResetToPending
  <2>2. \A k : IsReservoir(After(k))
    BY <1>1, <1>2, UpdateReplayRowsGood DEF ReclaimPasses, ResetToPending, Good
  <2>3. \/ res' = All
        \/ \E k : res' \in FailedOutcomes(After(k), After(k + 1))
    BY <1>5, OutcomeTaken DEF Reclaim, Commits
  <2> HIDE DEF After, All
  <2>4. ASSUME NEW k, res' \in FailedOutcomes(After(k), After(k + 1))
        PROVE  RowsMove(res, res', now)
    <3>1. res' \in Outcomes(After(k), After(k + 1))
      BY <2>4 DEF Outcomes
    <3>2. res' = After(k + 1) \/ res'.rows = After(k).rows
      BY <2>2, <3>1, FailureKeepsTable
    <3>3. CASE res'.rows = After(k).rows
      <4>1. RowsMove(res, After(k), now)
        BY <2>1
      <4>2. QED
        BY <3>3, <4>1 DEF RowsMove, RowMove
    <3>4. QED
      BY <2>1, <3>2, <3>3
  <2>5. QED
    BY <2>1, <2>3, <2>4
<1>6. ASSUME NEW fullOutage, Prune(fullOutage)
      PROVE  RowsMove(res, res', now)
  <2> DEFINE marked == MarkExpiredPendingRows(res, fullOutage, now)
             done == DeleteExpiredTerminalRows(marked, now)
  <2>1. RowsMove(res, marked, now) /\ RowsMove(res, done, now)
    BY <1>1, PruneMoves
  <2>2. Sound(marked, drift)
    BY <1>1, OperationsSound DEF MarkExpiredPendingRows, Inv
  <2>3. res' \in Outcomes(res, marked) \/ res' \in Outcomes(marked, done)
    BY <1>6, OutcomeTaken DEF Prune
  <2> HIDE DEF done, marked
  <2>4. CASE res' \in Outcomes(res, marked)
    BY <1>1, <2>1, <2>4, OutcomeMoves
  <2>5. CASE res' \in Outcomes(marked, done)
    <3>1. res' = done \/ res'.rows = marked.rows
      BY <2>2, <2>5, FailureKeepsTable DEF Sound, Good
    <3>2. QED
      BY <2>1, <3>1 DEF RowsMove, RowMove
  <2>6. QED
    BY <2>3, <2>4, <2>5
<1>7. CASE RuntimeCalls
  <2>1. \A ingestAt \in {now} \cup EarlyIngestTimes : ingestAt \in Nat
    BY <1>1, InputAssumption
  <2>2. ASSUME NEW limit \in ReplayLimits, Claim(limit)
        PROVE  RowsMove(res, res', now)
    BY <2>2, <1>1, <1>3, ClaimMoves DEF Claim
  <2>3. ASSUME NEW ids, Acknowledge(ids)  PROVE RowsMove(res, res', now)
    BY <2>3, <1>1, <1>2, <1>3, UpdateMoves DEF Acknowledge, MarkDelivered
  <2>4. ASSUME NEW ids, NEW retryAt \in {NULL, now + RetryBackoff}, Reset(ids, retryAt)
        PROVE  RowsMove(res, res', now)
    BY <2>4, <1>1, <1>2, <1>3, UpdateMoves DEF Reset, ResetToPending
  <2>5. ASSUME NEW bytes, NEW state, RefuseAppend(bytes, state)
        PROVE  RowsMove(res, res', now)
    BY <2>5, Unmoved DEF RefuseAppend
  <2>6. QED
    BY <1>7, <1>4, <1>5, <1>6, <2>1, <2>2, <2>3, <2>4, <2>5 DEF RuntimeCalls
<1>8. CASE Restart
  BY <1>1, <1>8, RecoverMoves DEF Restart
<1>9. CASE Tick \/ FilesystemChanges \/ UNCHANGED vars
  BY <1>9, Unmoved DEF Tick, FilesystemChanges, vars
<1>10. QED
  BY <1>7, <1>8, <1>9 DEF RuntimeNext, Environment

\* The runtime makes none of the calls that Next adds, so Inv holds.
LEMMA RuntimeInvariant == RuntimeSpec => []Inv
<1>1. Inv /\ [RuntimeNext]_vars => Inv'
  <2>1. [RuntimeNext]_vars => [Next]_vars
    BY DEF RuntimeNext, Next
  <2>2. QED
    BY <2>1, StepInv
<1>2. QED
  BY <1>1, InitInv, PTL DEF RuntimeSpec

-----------------------------------------------------------------------------
\* Retention and replay read columns; under the runtime's calls the columns of
\* every row agree with its state.
THEOREM RowsConsistent == RuntimeSpec => []RowLifecycleConsistent
<1>1. Init => RowLifecycleConsistent
  BY DEF Init, EmptyReservoir, RowLifecycleConsistent
<1>2. ASSUME Inv, RowLifecycleConsistent, [RuntimeNext]_vars
      PROVE  RowLifecycleConsistent'
  <2>1. RowsMove(res, res', now) /\ now \in Nat
    BY <1>2, StepMoves DEF Inv
  <2>2. \A i \in DOMAIN res.rows : res.rows[i] \in Row
    BY <1>2, ReservoirFacts DEF Inv, Sound, Good
  <2>3. \A i \in DOMAIN res.rows : Consistent(res.rows[i])
    BY <1>2 DEF RowLifecycleConsistent, Consistent
  <2>4. ASSUME NEW i \in DOMAIN res'.rows  PROVE Consistent(res'.rows[i])
    <3>1. CASE i \notin DOMAIN res.rows
      BY <2>1, <3>1 DEF RowsMove
    <3>2. CASE i \in DOMAIN res.rows
      <4>1. RowMove(res, res', i, now)
        BY <2>1, <3>2 DEF RowsMove
      <4>2. res.rows[i] \in Row /\ Consistent(res.rows[i]) /\ NULL \in OptionalNat
        BY <2>2, <2>3, <3>2 DEF OptionalNat
      <4>3. \A limit : i \in ClaimBatch(res, limit, now) => res.rows[i].state = "pending"
        BY DEF ClaimBatch, First, ClaimableRows, InState
      <4>4. QED
        BY <2>1, <4>1, <4>2, <4>3, MovedRow DEF RowMove
    <3>3. QED
      BY <3>1, <3>2
  <2>5. QED
    BY <2>4 DEF RowLifecycleConsistent, Consistent
<1>3. QED
  BY <1>1, <1>2, RuntimeInvariant, PTL DEF RuntimeSpec

\* Nothing is forgotten or given up before its time, provided that the window
\* of a full outage is not the shorter one: no configuration check ensures it.
THEOREM RetentionCorrect ==
  ASSUME RollingBufferWindow <= FullOutageMaxWindow
  PROVE  RuntimeSpec => RetentionRespected
<1> DEFINE Respected ==
      \A i \in DOMAIN res.rows :
        LET row == res.rows[i]
        IN  /\ i \notin DOMAIN res'.rows =>
                 \/ row.state = "delivered" /\ now - row.terminalAt >= DeliveredRetention
                 \/ row.state = "dead_letter" /\ now - row.terminalAt >= DeadLetterRetention
                 \/ row.state = "pending" /\ DeadLetterRetention = 0
            /\ i \in DOMAIN res'.rows /\ res'.rows[i].state = "dead_letter" =>
                 \/ row.state = "dead_letter"
                 \/ /\ row.state = "pending"
                    /\ now - row.ingestAt >= RollingBufferWindow
                    /\ row.retryAt # NULL =>
                         now - row.ingestAt >= FullOutageMaxWindow
<1>1. ASSUME Inv, [RuntimeNext]_vars PROVE Respected
  <2>1. RowsMove(res, res', now) /\ now \in Nat
    BY <1>1, StepMoves DEF Inv
  <2>2. \A i \in DOMAIN res.rows : res.rows[i] \in Row
    BY <1>1, ReservoirFacts DEF Inv, Sound, Good
  <2>3. ASSUME NEW i \in DOMAIN res.rows, i \notin DOMAIN res'.rows
        PROVE  Forgettable(res.rows[i], now)
    BY <2>1, <2>3 DEF RowsMove
  <2>4. ASSUME NEW i \in DOMAIN res.rows, i \in DOMAIN res'.rows,
               res'.rows[i].state = "dead_letter", res.rows[i].state # "dead_letter"
        PROVE  /\ res.rows[i].state = "pending"
               /\ now - res.rows[i].ingestAt >= RollingBufferWindow
               /\ res.rows[i].retryAt # NULL =>
                    now - res.rows[i].ingestAt >= FullOutageMaxWindow
    <3>1. RowMove(res, res', i, now)
      BY <2>1, <2>4 DEF RowsMove
    <3>2. res.rows[i] \in Row /\ NULL \in OptionalNat
      BY <2>2 DEF OptionalNat
    <3>3. \E fullOutage : i \in ExpiredPendingRows(res, fullOutage, now)
      BY <2>1, <2>4, <3>1, <3>2, MovedRow DEF RowMove
    <3>4. res.rows[i].ingestAt \in Nat
      BY <3>2 DEF Row
    <3>5. QED
      BY <2>1, <3>3, <3>4, RetentionAssumption DEF ExpiredPendingRows, InState
  <2>5. QED
    BY <2>3, <2>4 DEF Forgettable
<1>2. QED
  BY <1>1, RuntimeInvariant, PTL DEF RuntimeSpec, RetentionRespected

\* No claim overtakes: what is claimed was due, and comes before every row that
\* was due and is left behind.
THEOREM ClaimsOrdered == RuntimeSpec => ClaimsInIngestOrder
<1> DEFINE Ordered ==
      \A i \in DOMAIN res.rows \cap DOMAIN res'.rows :
        res.rows[i].state # "replaying" /\ res'.rows[i].state = "replaying" =>
          /\ res.rows[i].retryAt = NULL \/ res.rows[i].retryAt <= now
          /\ \A j \in ClaimableRows(res, now) :
               res'.rows[j].state # "replaying" =>
                 \/ res.rows[i].ingestAt < res.rows[j].ingestAt
                 \/ res.rows[i].ingestAt = res.rows[j].ingestAt /\ i < j
<1>1. ASSUME Inv, [RuntimeNext]_vars PROVE Ordered
  <2>1. RowsMove(res, res', now) /\ now \in Nat /\ IsReservoir(res)
    BY <1>1, StepMoves DEF Inv, Sound, Good
  <2>2. \A i \in DOMAIN res.rows : res.rows[i] \in Row
    BY <2>1, ReservoirFacts
  <2> DEFINE ids == ClaimableRows(res, now)
             key == IngestOrder(res.rows)
  <2>3. ids \subseteq DOMAIN res.rows /\ DOMAIN res.rows \subseteq Nat /\ IsFiniteSet(ids)
    <3>1. ids \in SUBSET DOMAIN res.rows
      BY DEF ClaimableRows, InState
    <3>2. res.seq \in Nat
      BY <2>1 DEF IsReservoir
    <3>3. QED
      BY <2>1, <3>1, <3>2, ReservoirFacts
  <2>4. \A i \in ids : key[i] = res.rows[i].ingestAt /\ key[i] \in Nat
    BY <2>2, <2>3 DEF IngestOrder, Row
  <2>5. SUFFICES ASSUME NEW i \in DOMAIN res.rows \cap DOMAIN res'.rows,
                        res.rows[i].state # "replaying",
                        res'.rows[i].state = "replaying"
                 PROVE  /\ res.rows[i].retryAt = NULL \/ res.rows[i].retryAt <= now
                        /\ \A j \in ids : res'.rows[j].state # "replaying" =>
                             \/ res.rows[i].ingestAt < res.rows[j].ingestAt
                             \/ res.rows[i].ingestAt = res.rows[j].ingestAt /\ i < j
    OBVIOUS
  <2>6. PICK limit \in ReplayLimits :
          /\ i \in ClaimBatch(res, limit, now)
          /\ \A j \in ClaimBatch(res, limit, now) :
               res'.rows[j] = ClaimedRow(res.rows[j], now)
    <3>1. RowMove(res, res', i, now)
      BY <2>1, <2>5 DEF RowsMove
    <3>2. res.rows[i] \in Row /\ NULL \in OptionalNat
      BY <2>2, <2>5 DEF OptionalNat
    <3>3. QED
      BY <2>1, <2>5, <3>1, <3>2, MovedRow DEF RowMove
  <2>7. limit \in Nat
    BY InputAssumption
  <2>8. i \in First(key, ids, limit) /\ i \in ids
    BY <2>6 DEF ClaimBatch, First
  <2>9. ASSUME NEW j \in ids, res'.rows[j].state # "replaying"
        PROVE  key[i] < key[j] \/ (key[i] = key[j] /\ i < j)
    <3>1. j \notin ClaimBatch(res, limit, now)
      <4>1. res.rows[j] \in Row /\ NULL \in OptionalNat
        BY <2>2, <2>3 DEF OptionalNat
      <4>2. ClaimedRow(res.rows[j], now).state = "replaying"
        BY <2>1, <4>1, MovedRow
      <4>3. QED
        BY <2>6, <2>9, <4>2
    <3>2. j \notin First(key, ids, limit)
      BY <3>1 DEF ClaimBatch
    <3> HIDE DEF ids, key
    <3>3. QED
      BY <2>3, <2>4, <2>7, <2>8, <3>2, FirstInOrder
  <2>10. QED
    BY <2>4, <2>8, <2>9 DEF ClaimableRows
<1>2. QED
  BY <1>1, RuntimeInvariant, PTL DEF RuntimeSpec, ClaimsInIngestOrder

\* The capacity snapshot and the admission of events read different state, and
\* announce and enforce the same refusals.
THEOREM PostureHonest == RuntimeSpec => []PostureAgreesWithAdmission
<1>1. ASSUME Inv PROVE PostureAgreesWithAdmission
  <2>1. /\ res.pendingRows \in Int /\ res.pendingBytes \in Int
        /\ evidence \in OptionalNat /\ latched \in BOOLEAN
    BY <1>1 DEF Inv, Sound, Good, IsReservoir
  <2> DEFINE exhausted ==
               \/ MaxPendingRows # NULL /\ res.pendingRows >= MaxPendingRows
               \/ /\ MaxPendingSerializedBytes # NULL
                  /\ res.pendingBytes >= MaxPendingSerializedBytes
             storage ==
               CASE FilesystemReserve = NULL -> "open"
                 [] FilesystemReserve # NULL /\ evidence = NULL ->
                      IF latched \/ FilesystemReserve.unavailable = "refuse_admission"
                      THEN "refusing" ELSE "unknown"
                 [] OTHER ->
                      IF \/ evidence <= FilesystemReserve.minimum
                         \/ latched /\ evidence < FilesystemReserve.resume
                      THEN "refusing" ELSE "open"
  <2>2. Posture(res, latched, evidence) = IF exhausted THEN "refusing" ELSE storage
    BY DEF Posture
  <2>3. QuotaRefuses(res, 1) <=> exhausted
    BY <2>1, LimitAssumption, NullAssumption DEF QuotaRefuses, OptionalNat, ValidLimits
  <2>4. ReserveRefuses(latched, evidence) <=> storage = "refusing"
    <3>1. CASE FilesystemReserve = NULL
      BY <3>1 DEF ReserveRefuses
    <3>2. CASE FilesystemReserve # NULL /\ evidence = NULL
      <4>1. storage = IF latched \/ FilesystemReserve.unavailable = "refuse_admission"
                      THEN "refusing" ELSE "unknown"
        BY <3>2, Zenon
      <4>2. LatchAfter(latched, evidence) = latched
        BY <3>2, Zenon DEF LatchAfter
      <4> HIDE DEF storage
      <4>3. QED
        BY <3>2, <4>1, <4>2 DEF ReserveRefuses
    <3>3. CASE FilesystemReserve # NULL /\ evidence # NULL
      <4>1. /\ evidence \in Nat
            /\ FilesystemReserve.minimum \in Nat /\ FilesystemReserve.resume \in Nat
            /\ FilesystemReserve.minimum < FilesystemReserve.resume
        BY <2>1, <3>3, ReserveAssumption DEF OptionalNat, ValidReserve
      <4>2. storage = "refusing" <=>
              \/ evidence <= FilesystemReserve.minimum
              \/ latched /\ evidence < FilesystemReserve.resume
        <5>1. storage = IF \/ evidence <= FilesystemReserve.minimum
                           \/ latched /\ evidence < FilesystemReserve.resume
                        THEN "refusing" ELSE "open"
          BY <3>3, Zenon
        <5> HIDE DEF storage
        <5>2. QED
          BY <5>1
      <4>3. LatchAfter(latched, evidence) <=>
              \/ evidence <= FilesystemReserve.minimum
              \/ latched /\ evidence < FilesystemReserve.resume
        BY <2>1, <3>3, <4>1 DEF LatchAfter
      <4>4. QED
        BY <3>3, <4>2, <4>3 DEF ReserveRefuses
    <3>4. QED
      BY <3>1, <3>2, <3>3
  <2> HIDE DEF exhausted, storage
  <2>5. QED
    BY <2>2, <2>3, <2>4 DEF PostureAgreesWithAdmission
<1>2. QED
  BY <1>1, RuntimeInvariant, PTL
=============================================================================
