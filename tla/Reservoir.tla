----------------------------- MODULE Reservoir ------------------------------
(***************************************************************************)
(* SQLiteReservoir on its own: every public operation that changes its     *)
(* state, called in any order with any row ids, over a clock, a filesystem *)
(* whose free space changes, transactions that fail, and process deaths.   *)
(***************************************************************************)
EXTENDS ReservoirOps

CONSTANTS
  RetryBackoff,          \* replay.retryBackoffMs, the callers' retry delay
  EventSizes,            \* serialized sizes of the events that arrive
  IngressModes,          \* delivery modes they are appended with
  EarlyIngestTimes,      \* event.ingestedAt values callers supply
  ReplayLimits,          \* batch sizes callers claim with
  Evidence,              \* free space the storage reader can report
  Failures,              \* how a transaction may fail, see Fails
  MaxRows, MaxTime,      \* bounds on row ids and on the clock
  MaxDrift               \* bound on what failed commits add to the cached count

ASSUME InputAssumption ==
  /\ RetryBackoff \in Nat
  /\ EventSizes \subseteq Nat \ {0}
  /\ IngressModes \subseteq DeliveryModes
  /\ EarlyIngestTimes \subseteq Nat
  /\ ReplayLimits \subseteq Nat
  /\ Evidence \subseteq OptionalNat
  /\ Failures \subseteq {"rolled_back", "auto_rolled_back"}
  /\ MaxDrift \in Nat

VARIABLES
  res,        \* the reservoir value of ReservoirOps
  now,        \* the clock
  latched,    \* #filesystemReserveLatched
  evidence,   \* what the storage reader would report now
  drift       \* history: rows that transactions which SQLite ended itself meant
              \* to open, less those they meant to settle, since the cached
              \* count was last read back
vars == <<res, now, latched, evidence, drift>>

Init ==
  /\ res = EmptyReservoir
  /\ now = 0
  /\ latched = FALSE
  /\ evidence \in Evidence
  /\ drift = 0

\* How many more rows the table attempted has open than that of r.
OpenedBy(r, attempted) ==
  Cardinality(InState(attempted.rows, PendingStates))
    - Cardinality(InState(r.rows, PendingStates))

\* A transaction that would take r to attempted fails: the explicit ROLLBACK
\* reads the count back; when SQLite has ended the transaction itself that
\* ROLLBACK throws, and the count stays at what the attempt made of it.
Fails(r, attempted) ==
  \/ /\ "rolled_back" \in Failures
     /\ res' = RolledBack(r, attempted)
     /\ drift' = 0
  \/ /\ "auto_rolled_back" \in Failures
     /\ res' = AutoRolledBack(r, attempted)
     /\ drift' = drift + OpenedBy(r, attempted)
     /\ drift' \in -MaxDrift..MaxDrift

Commits(attempted) == res' = attempted /\ UNCHANGED drift

Transaction(attempted) ==
  /\ Commits(attempted) \/ Fails(res, attempted)
  /\ UNCHANGED <<now, latched, evidence>>

Refused(bytes, state) ==
  \/ EventTooLarge(bytes)
  \/ ReserveRefuses(latched, evidence)
  \/ state \in PendingStates /\ QuotaRefuses(res, bytes)

\* An oversize event is refused before the free space is looked at.
LatchOnAppend(bytes) ==
  latched' = IF EventTooLarge(bytes) THEN latched
             ELSE LatchAfter(latched, evidence)

\* appendIngressEvent; deduped observations are appended as delivered.
Append(bytes, mode, state, ingestAt) ==
  /\ res.seq < MaxRows
  /\ ~Refused(bytes, state)
  /\ LatchOnAppend(bytes)
  /\ LET appended == AppendIngressEvent(res, bytes, mode, state, ingestAt)
     IN  Commits(appended) \/ Fails(res, appended)
  /\ UNCHANGED <<now, evidence>>

RefuseAppend(bytes, state) ==
  /\ Refused(bytes, state)
  /\ LatchOnAppend(bytes)
  /\ UNCHANGED <<res, now, evidence, drift>>

Claim(limit) == limit > 0 /\ Transaction(ClaimReplayBatch(res, limit, now))

\* markReplayBatchDelivered and markIngressRowsDelivered.
Acknowledge(ids) == Transaction(MarkDelivered(res, ids, now))
Reset(ids, retryAt) == Transaction(ResetToPending(res, ids, retryAt, now))
GiveUp(ids) == Transaction(DeadLetter(res, ids, now))
BulkUpdate(fromStates, next) ==
  Transaction(UpdateReplayState(res, fromStates, next))

\* reclaimStaleReplayRows: the loop to its end, or stopped by a transaction
\* that fails after some passes have committed.
Reclaim ==
  LET After(passes) == ReclaimPasses(res, RetryBackoff, passes, now)
      stale == Cardinality(StaleRows(res, RetryBackoff, now))
  IN  /\ \/ Commits(ReclaimStaleReplayRows(res, RetryBackoff, now))
         \/ \E k \in {n \in 0..MaxRows : n * PruneBatchSize < stale} :
              Fails(After(k), After(k + 1))
      /\ UNCHANGED <<now, latched, evidence>>

\* pruneExpired: two transactions; the second may fail after the first.
Prune(fullOutage) ==
  LET marked == MarkExpiredPendingRows(res, fullOutage, now)
      done == DeleteExpiredTerminalRows(marked, now)
  IN  /\ Commits(done) \/ Fails(res, marked) \/ Fails(marked, done)
      /\ UNCHANGED <<now, latched, evidence>>

\* The process dies or closes, and a new one opens the same file.
Restart ==
  /\ AccountingMatches(res)
  /\ res' = RecoverRestartState(res)
  /\ latched' = FALSE
  /\ drift' = 0
  /\ UNCHANGED <<now, evidence>>

Tick ==
  now < MaxTime /\ now' = now + 1 /\ UNCHANGED <<res, latched, evidence, drift>>

FilesystemChanges ==
  /\ evidence' \in Evidence \ {evidence}
  /\ UNCHANGED <<res, now, latched, drift>>

\* What MonitorRuntime calls.
RuntimeCalls ==
  \/ \E bytes \in EventSizes, mode \in IngressModes,
        ingestAt \in {now} \cup EarlyIngestTimes :
       \/ Append(bytes, mode, "pending", ingestAt)
       \/ Append(bytes, "normal", "delivered", ingestAt)
  \/ \E bytes \in EventSizes, state \in {"pending", "delivered"} :
       RefuseAppend(bytes, state)
  \/ \E limit \in ReplayLimits : Claim(limit)
  \/ \E ids \in SUBSET DOMAIN res.rows :
       \/ Acknowledge(ids)
       \/ \E retryAt \in {NULL, now + RetryBackoff} : Reset(ids, retryAt)
  \/ Reclaim
  \/ \E fullOutage \in BOOLEAN : Prune(fullOutage)

\* Public operations of the class that the runtime itself never calls.
MaintenanceCalls ==
  \/ \E ids \in SUBSET DOMAIN res.rows : GiveUp(ids)
  \/ \E fromStates \in SUBSET ReplayStates \ {{}}, next \in ReplayStates :
       BulkUpdate(fromStates, next)

Environment == Restart \/ Tick \/ FilesystemChanges

Next == RuntimeCalls \/ MaintenanceCalls \/ Environment
Spec == Init /\ [][Next]_vars

RuntimeNext == RuntimeCalls \/ Environment
RuntimeSpec == Init /\ [][RuntimeNext]_vars

-----------------------------------------------------------------------------
\* The abstract specification under the refinement mapping.
L == INSTANCE Ledger WITH
       Forgetful <- DeadLetterRetention = 0,
       open <- InState(res.rows, PendingStates),
       settled <- InState(res.rows, TerminalStates),
       mark <- res.seq,
       backlog <- res.cached - drift

\* The reservoir implements the ledger: an accepted event is never lost before
\* it is settled, by no operation, failed transaction, interrupted loop or
\* restart, and the backlog everybody reads is the number of open events, off
\* by nothing but what commits that failed behind the process's back meant.
ImplementsLedger == L!Spec

\* Every variable has its type; row ids stay at or below the AUTOINCREMENT mark.
TypeOK ==
  /\ IsReservoir(res)
  /\ now \in Nat
  /\ latched \in BOOLEAN
  /\ evidence \in OptionalNat
  /\ drift \in Int

\* The aggregate row agrees with the table after every operation, failure and
\* restart: startup validation (schema.ts) never finds a file it must refuse.
AccountingExact == AccountingMatches(res)

\* The in-memory count that getStats, the routing and the replay gate read
\* is the persisted one plus what commits that SQLite ended itself would have
\* changed: no other failure, mixture of operations or restart moves it, and
\* the next explicit rollback or restart takes the difference back.
CachedCountExact == res.cached = res.pendingRows + drift

\* Columns agree with the state: only a claimed row has a claim time, only a
\* terminal one has a terminal time (else retention never deletes it), only a
\* pending one has a retry time.
RowLifecycleConsistent ==
  \A i \in DOMAIN res.rows :
    LET row == res.rows[i]
    IN  /\ row.claimedAt # NULL <=> row.state = "replaying"
        /\ row.terminalAt # NULL <=> row.state \in TerminalStates
        /\ row.retryAt # NULL => row.state = "pending"

\* The capacity snapshot announces a refusal exactly when the smallest event
\* would be refused: the two code paths read different state.
PostureAgreesWithAdmission ==
  (Posture(res, latched, evidence) = "refusing")
    <=> \/ ReserveRefuses(latched, evidence)
        \/ QuotaRefuses(res, 1)

\* A row id names one event for ever, also after retention deleted the row:
\* a late acknowledgement can never settle another event.
RowIdsNeverReused ==
  [][/\ res'.seq >= res.seq
     /\ \A i \in (DOMAIN res'.rows) \ DOMAIN res.rows : i > res.seq]_vars

\* A row leaves the table only after it has been terminal for the retention of
\* its state, and one in flight or younger than its window is never given up.
RetentionRespected ==
  [][\A i \in DOMAIN res.rows :
       LET row == res.rows[i]
       IN  /\ i \notin DOMAIN res'.rows =>
                \/ row.state = "delivered" /\ now - row.terminalAt >= DeliveredRetention
                \/ row.state = "dead_letter" /\ now - row.terminalAt >= DeadLetterRetention
                \/ row.state = "pending" /\ DeadLetterRetention = 0
           /\ i \in DOMAIN res'.rows /\ res'.rows[i].state = "dead_letter" =>
                \/ row.state = "dead_letter"
                \/ /\ row.state = "pending"
                   /\ now - row.ingestAt >= RollingBufferWindow
                   /\ row.retryAt # NULL =>
                        now - row.ingestAt >= FullOutageMaxWindow]_vars

\* No claim overtakes: a row that is claimed was pending, its retry time had
\* come, and no eligible row that was ingested earlier stays behind.
ClaimsInIngestOrder ==
  [][\A i \in DOMAIN res.rows \cap DOMAIN res'.rows :
       res.rows[i].state # "replaying" /\ res'.rows[i].state = "replaying" =>
         /\ res.rows[i].retryAt = NULL \/ res.rows[i].retryAt <= now
         /\ \A j \in ClaimableRows(res, now) :
              res'.rows[j].state # "replaying" =>
                \/ res.rows[i].ingestAt < res.rows[j].ingestAt
                \/ res.rows[i].ingestAt = res.rows[j].ingestAt /\ i < j]_vars
=============================================================================
