---------------------------- MODULE ReservoirOps ----------------------------
(***************************************************************************)
(* The SQLite reservoir (src/src/storage/SQLiteReservoir.ts) as operators  *)
(* from a reservoir value to a reservoir value.  One call of the class is  *)
(* one operator, so that a caller that makes several calls in one          *)
(* synchronous step composes them.                                         *)
(*                                                                         *)
(* A reservoir value is a record                                           *)
(*   rows          the table ingress_events, a function from row ids       *)
(*   seq           the AUTOINCREMENT high-water mark of that table         *)
(*   pendingRows,                                                          *)
(*   pendingBytes  the singleton row of reservoir_capacity_state           *)
(*   cached        the in-memory field #pendingRowCount                    *)
(* The first four are durable, cached dies with the process.               *)
(***************************************************************************)
EXTENDS Integers, FiniteSets

CONSTANTS
  NULL,                  \* SQL NULL, and JavaScript null
  MaxSerializedEventBytes,   \* capacity limits: a number or NULL (disabled)
  MaxPendingRows,
  MaxPendingSerializedBytes,
  FilesystemReserve,     \* NULL, or [minimum, resume, unavailable]
  RollingBufferWindow,   \* retention windows, in clock units
  FullOutageMaxWindow,
  DeliveredRetention,
  DeadLetterRetention,
  PruneBatchSize         \* rows one maintenance transaction may touch

OptionalNat == Nat \cup {NULL}

ASSUME NullAssumption == NULL \notin Int

\* What the constructor demands of the capacity configuration: it throws, and
\* there is no reservoir, where resolveCapacityConfig finds anything else.
ValidLimits ==
  /\ MaxSerializedEventBytes \in OptionalNat
  /\ MaxPendingRows \in OptionalNat
  /\ MaxPendingSerializedBytes \in OptionalNat

\* The three checks of validateFilesystemReserveConfig.
ValidReserve ==
  FilesystemReserve # NULL =>
    /\ FilesystemReserve.minimum \in Nat
    /\ FilesystemReserve.resume \in Nat
    /\ FilesystemReserve.resume > FilesystemReserve.minimum
    /\ FilesystemReserve.unavailable
         \in {"allow_logical_admission", "refuse_admission"}

ASSUME LimitAssumption == ValidLimits

ASSUME ReserveAssumption == ValidReserve

ASSUME RetentionAssumption ==
  /\ RollingBufferWindow \in Nat
  /\ FullOutageMaxWindow \in Nat
  /\ DeliveredRetention \in Nat
  /\ DeadLetterRetention \in Nat
  /\ PruneBatchSize \in Nat \ {0}

-----------------------------------------------------------------------------
(* Rows.                                                                   *)

DeliveryModes == {"normal", "dedupe_bypass", "order_buffer_only",
                  "full_outage_buffer", "replay_through_dedupe"}
ReplayStates == {"pending", "replaying", "delivered", "dead_letter"}
PendingStates == {"pending", "replaying"}
TerminalStates == {"delivered", "dead_letter"}

\* The columns the reservoir's own logic reads.  The event's identity is its
\* row id; payload, sequence, stream and attempt columns are carried, not read.
Row == [ingestAt: Nat, bytes: Nat, mode: DeliveryModes, state: ReplayStates,
        retryAt: OptionalNat, claimedAt: OptionalNat, terminalAt: OptionalNat]

\* A table whose row ids are at or below the AUTOINCREMENT mark.
IsTable(rows, seq) ==
  DOMAIN rows \subseteq 1..seq /\ rows \in [DOMAIN rows -> Row]

IsReservoir(r) ==
  /\ r \in [rows: {r.rows}, seq: Nat,
            pendingRows: Int, pendingBytes: Int, cached: Int]
  /\ IsTable(r.rows, r.seq)

EmptyReservoir ==
  [rows |-> [i \in {} |-> NULL], seq |-> 0,
   pendingRows |-> 0, pendingBytes |-> 0, cached |-> 0]

InState(rows, states) == {i \in DOMAIN rows : rows[i].state \in states}

\* Total size of a set of rows, counted byte by byte: one element for each
\* byte of each row.
ByteUnits(rows, ids) == UNION {{i} \X (1..rows[i].bytes) : i \in ids}
TotalBytes(rows, ids) == Cardinality(ByteUnits(rows, ids))

\* ORDER BY key, rowid LIMIT n.
First(key, ids, n) ==
  LET Before(i) == {j \in ids : \/ key[j] < key[i]
                                \/ key[j] = key[i] /\ j < i}
  IN  {i \in ids : Cardinality(Before(i)) < n}

IngestOrder(rows) == [i \in DOMAIN rows |-> rows[i].ingestAt]

-----------------------------------------------------------------------------
(* Capacity admission.  evidence is what the storage reader reports as     *)
(* available bytes: a number, or NULL when it cannot tell.                 *)

\* Mutant: no hysteresis, admission resumes as soon as the minimum is exceeded.
LatchWithoutHysteresis(latched, evidence) ==
  IF FilesystemReserve = NULL \/ evidence = NULL THEN latched
  ELSE evidence <= FilesystemReserve.minimum

LatchAfter(latched, evidence) ==
  IF FilesystemReserve = NULL \/ evidence = NULL THEN latched
  ELSE \/ evidence <= FilesystemReserve.minimum
       \/ latched /\ evidence < FilesystemReserve.resume

EventTooLarge(bytes) ==
  MaxSerializedEventBytes # NULL /\ bytes > MaxSerializedEventBytes

ReserveRefuses(latched, evidence) ==
  /\ FilesystemReserve # NULL
  /\ \/ LatchAfter(latched, evidence)
     \/ evidence = NULL /\ FilesystemReserve.unavailable = "refuse_admission"

QuotaRefuses(r, bytes) ==
  \/ MaxPendingRows # NULL /\ r.pendingRows + 1 > MaxPendingRows
  \/ /\ MaxPendingSerializedBytes # NULL
     /\ r.pendingBytes + bytes > MaxPendingSerializedBytes

\* The posture getCapacitySnapshot reports.
Posture(r, latched, evidence) ==
  LET exhausted ==
        \/ MaxPendingRows # NULL /\ r.pendingRows >= MaxPendingRows
        \/ /\ MaxPendingSerializedBytes # NULL
           /\ r.pendingBytes >= MaxPendingSerializedBytes
      storage ==
        CASE FilesystemReserve = NULL -> "open"
          [] FilesystemReserve # NULL /\ evidence = NULL ->
               IF latched \/ FilesystemReserve.unavailable = "refuse_admission"
               THEN "refusing" ELSE "unknown"
          [] OTHER ->
               IF \/ evidence <= FilesystemReserve.minimum
                  \/ latched /\ evidence < FilesystemReserve.resume
               THEN "refusing" ELSE "open"
  IN  IF exhausted THEN "refusing" ELSE storage

-----------------------------------------------------------------------------
(* Transitions.  Every one of them is a transaction that updates the rows, *)
(* the aggregate row and the cached count together.                        *)

AdjustCapacity(r, rowDelta, byteDelta) ==
  [r EXCEPT !.pendingRows = @ + rowDelta,
            !.pendingBytes = @ + byteDelta,
            !.cached = @ + rowDelta]

\* Mutant: every row that is moved is counted, also within its own class.
MoveRowsCountingAll(r, ids, next, moved) ==
  LET sign == IF next \in PendingStates THEN 1 ELSE -1
  IN  AdjustCapacity([r EXCEPT !.rows = moved],
                     sign * Cardinality(ids), sign * TotalBytes(r.rows, ids))

\* The rows ids go to state next, whatever state each is in; moved is the
\* table after it.  The accounting delta is read before the update.
MoveRows(r, ids, next, moved) ==
  LET flips == {i \in ids :
                  (r.rows[i].state \in PendingStates) # (next \in PendingStates)}
      sign == IF next \in PendingStates THEN 1 ELSE -1
  IN  AdjustCapacity([r EXCEPT !.rows = moved],
                     sign * Cardinality(flips),
                     sign * TotalBytes(r.rows, flips))

\* #updateReplayRows: ids that name no row are ignored.
UpdateReplayRows(r, ids, next, retryAt, now) ==
  MoveRows(r, ids \cap DOMAIN r.rows, next,
    [i \in DOMAIN r.rows |->
       IF i \in ids
       THEN [r.rows[i] EXCEPT !.state = next, !.retryAt = retryAt,
                              !.claimedAt = NULL,
                              !.terminalAt = IF next \in TerminalStates
                                             THEN now ELSE NULL]
       ELSE r.rows[i]])

\* updateReplayState: the bulk form, which touches only the state column.
UpdateReplayState(r, fromStates, next) ==
  MoveRows(r, InState(r.rows, fromStates), next,
    [i \in DOMAIN r.rows |->
       IF r.rows[i].state \in fromStates
       THEN [r.rows[i] EXCEPT !.state = next] ELSE r.rows[i]])

\* Mutants: an id that is one too low, and a table without AUTOINCREMENT, whose
\* next id follows the largest one still stored.
RowIdOffByOne(r) == r.seq
ReusedRowId(r) ==
  CHOOSE i \in 1..(r.seq + 1) :
    /\ \A j \in DOMAIN r.rows : j < i
    /\ i = 1 \/ i - 1 \in DOMAIN r.rows
NextRowId(r) == r.seq + 1

AppendIngressEvent(r, bytes, mode, state, ingestAt) ==
  LET id == NextRowId(r)
      row == [ingestAt |-> ingestAt, bytes |-> bytes, mode |-> mode,
              state |-> state, retryAt |-> NULL, claimedAt |-> NULL,
              terminalAt |-> IF state \in TerminalStates
                             THEN ingestAt ELSE NULL]
      inserted == [r EXCEPT !.seq = id,
                            !.rows = [i \in (DOMAIN r.rows) \cup {id} |->
                                        IF i = id THEN row ELSE r.rows[i]]]
  IN  IF state \in PendingStates
      THEN AdjustCapacity(inserted, 1, bytes)
      ELSE inserted

MarkDelivered(r, ids, now) == UpdateReplayRows(r, ids, "delivered", NULL, now)
ResetToPending(r, ids, retryAt, now) ==
  UpdateReplayRows(r, ids, "pending", retryAt, now)
DeadLetter(r, ids, now) == UpdateReplayRows(r, ids, "dead_letter", NULL, now)

\* claimReplayBatch: the oldest pending rows whose retry time has come.
ClaimableRows(r, now) ==
  {i \in InState(r.rows, {"pending"}) :
     r.rows[i].retryAt = NULL \/ r.rows[i].retryAt <= now}
\* Mutant: ordered by row id, although callers supply ingest times.
ClaimByRowId(r, limit, now) ==
  First([i \in DOMAIN r.rows |-> i], ClaimableRows(r, now), limit)
ClaimBatch(r, limit, now) ==
  First(IngestOrder(r.rows), ClaimableRows(r, now), limit)
\* Mutant: the time of the claim is not recorded.
ClaimWithoutTime(r, limit, now) ==
  LET batch == ClaimBatch(r, limit, now)
  IN  [r EXCEPT !.rows = [i \in DOMAIN @ |->
         IF i \in batch
         THEN [@[i] EXCEPT !.state = "replaying", !.retryAt = NULL,
                           !.mode = "replay_through_dedupe"]
         ELSE @[i]]]
ClaimReplayBatch(r, limit, now) ==
  LET batch == ClaimBatch(r, limit, now)
  IN  [r EXCEPT !.rows = [i \in DOMAIN @ |->
         IF i \in batch
         THEN [@[i] EXCEPT !.state = "replaying", !.retryAt = NULL,
                           !.claimedAt = now, !.mode = "replay_through_dedupe"]
         ELSE @[i]]]

\* Mutant: the age of the claim is looked at, not the state it is held in.
StaleInAnyState(r, maxAge, now) ==
  {i \in DOMAIN r.rows :
     r.rows[i].claimedAt = NULL \/ r.rows[i].claimedAt <= now - maxAge}
StaleRows(r, maxAge, now) ==
  {i \in InState(r.rows, {"replaying"}) :
     r.rows[i].claimedAt = NULL \/ r.rows[i].claimedAt <= now - maxAge}

\* reclaimStaleReplayRows after the given number of committed passes, each of
\* at most PruneBatchSize rows.
ReclaimPasses(r, maxAge, passes, now) ==
  ResetToPending(r, First(IngestOrder(r.rows), StaleRows(r, maxAge, now),
                          passes * PruneBatchSize), NULL, now)
\* The whole loop runs until a pass finds no stale row.
ReclaimStaleReplayRows(r, maxAge, now) ==
  ResetToPending(r, StaleRows(r, maxAge, now), NULL, now)

\* pruneExpired, first transaction: give up rows that waited too long.
ExpiredPendingRows(r, fullOutage, now) ==
  LET window == IF fullOutage THEN FullOutageMaxWindow ELSE RollingBufferWindow
  IN  {i \in InState(r.rows, {"pending"}) :
         \/ r.rows[i].ingestAt <= now - FullOutageMaxWindow
         \/ r.rows[i].retryAt = NULL /\ r.rows[i].ingestAt <= now - window}
MarkExpiredPendingRows(r, fullOutage, now) ==
  DeadLetter(r, First(IngestOrder(r.rows),
                      ExpiredPendingRows(r, fullOutage, now), PruneBatchSize),
             now)

\* pruneExpired, second transaction: forget terminal rows kept long enough.
\* Mutant: retention counted from ingest.
ExpiredSinceIngest(r, now) ==
  {i \in InState(r.rows, TerminalStates) :
     r.rows[i].ingestAt <= now - (IF r.rows[i].state = "delivered"
                                  THEN DeliveredRetention
                                  ELSE DeadLetterRetention)}
ExpiredTerminalRows(r, now) ==
  {i \in InState(r.rows, TerminalStates) :
     /\ r.rows[i].terminalAt # NULL
     /\ r.rows[i].terminalAt <= now - (IF r.rows[i].state = "delivered"
                                       THEN DeliveredRetention
                                       ELSE DeadLetterRetention)}
\* Mutant: what is deleted is chosen by age alone.
DeleteByAge(r, now) ==
  LET gone == {i \in DOMAIN r.rows :
                 r.rows[i].ingestAt <= now - DeadLetterRetention}
  IN  [r EXCEPT !.rows = [i \in (DOMAIN @) \ gone |-> @[i]]]
DeleteExpiredTerminalRows(r, now) ==
  LET expired == ExpiredTerminalRows(r, now)
      gone == First([i \in expired |-> r.rows[i].terminalAt],
                    expired, PruneBatchSize)
  IN  [r EXCEPT !.rows = [i \in (DOMAIN @) \ gone |-> @[i]]]

PruneExpired(r, fullOutage, now) ==
  DeleteExpiredTerminalRows(MarkExpiredPendingRows(r, fullOutage, now), now)

\* Mutant: the claim time of a released row survives the restart.
RecoverKeepingClaims(r) ==
  [r EXCEPT !.cached = r.pendingRows,
            !.rows = [i \in DOMAIN @ |->
               IF @[i].state = "replaying"
               THEN [@[i] EXCEPT !.state = "pending"] ELSE @[i]]]

\* Mutant: a start forgets the retry deadlines.
RecoverDroppingRetries(r) ==
  [r EXCEPT !.cached = r.pendingRows,
            !.rows = [i \in DOMAIN @ |->
               IF @[i].state \in PendingStates
               THEN [@[i] EXCEPT !.state = "pending", !.claimedAt = NULL,
                                 !.retryAt = NULL]
               ELSE @[i]]]

\* Mutant: a process that has just opened the file starts to count at zero.
RecoverWithoutCount(r) ==
  [r EXCEPT !.cached = 0,
            !.rows = [i \in DOMAIN @ |->
               IF @[i].state = "replaying"
               THEN [@[i] EXCEPT !.state = "pending", !.claimedAt = NULL]
               ELSE @[i]]]

\* recoverRestartState in a process that has just opened the file: the claims
\* of the dead process are released, the cached count is read back.
RecoverRestartState(r) ==
  [r EXCEPT !.cached = r.pendingRows,
            !.rows = [i \in DOMAIN @ |->
               IF @[i].state = "replaying"
               THEN [@[i] EXCEPT !.state = "pending", !.claimedAt = NULL]
               ELSE @[i]]]

\* The failed attempt of a transaction that would have ended in attempted.
\* RolledBack is the catch block; in AutoRolledBack SQLite has already ended
\* the transaction when its COMMIT failed, the explicit ROLLBACK throws in
\* turn, and the count the attempt had stored is never read back.
AutoRolledBack(r, attempted) == [r EXCEPT !.cached = attempted.cached]
RolledBack(r, attempted) == [r EXCEPT !.cached = r.pendingRows]

\* validateCapacityAccounting, which refuses to open a file that fails it.
AccountingMatches(r) ==
  LET pending == InState(r.rows, PendingStates)
  IN  /\ r.pendingRows = Cardinality(pending)
      /\ r.pendingBytes = TotalBytes(r.rows, pending)
=============================================================================
