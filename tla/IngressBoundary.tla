--------------------------- MODULE IngressBoundary --------------------------
(***************************************************************************)
(* The producers in front of an adapter.  Each has one event to get in;    *)
(* it calls ingest, believes what the answer says of the outcome, tries    *)
(* again where it may, and after an answer that leaves the outcome open,   *)
(* or none, looks the event up in storage first.  The adapter of module    *)
(* TransportMonitor goes on beneath, and is also closed and opened again   *)
(* while its calls await their handlers.                                   *)
(***************************************************************************)
EXTENDS TransportMonitor, BoundaryOps

CONSTANTS
  \* A producer is a slot of the adapter.
  Large, LargeBytes,  \* producers of larger events, and their size
  WriteErrors,        \* texts of the errors that the write of ingest and the
                      \* acknowledgement may end in
  MaxDrift,           \* bound on how far the cached count may run away
  ReconcileWithin     \* a producer looks its event up before this time has
                      \* passed since it was stored, or since the time the event
                      \* itself gives, if that is earlier

VARIABLES
  open,      \* whether an adapter is open
  detached,  \* slots whose call belongs to an adapter that was closed since
  told,      \* for each producer the answer it has
  storedAt,  \* when its event was last stored, or the earlier time it gave
  stored     \* the rows that were ever stored of its event
boundaryVars == <<vars, open, detached, told, storedAt, stored>>

BytesOf(p) == IF p \in Large THEN LargeBytes ELSE EventBytes

\* Retention, which counts from the ingest time, keeps a row at least as long
\* as producers take to look it up.
ASSUME BoundaryAssumption ==
  /\ Large \subseteq Slots /\ LargeBytes \in Nat
  /\ WriteErrors \subseteq RecognizedTexts \cup {"no_transaction"}
  /\ MaxDrift \in Nat
  /\ ReconcileWithin \in Nat
  /\ ReconcileWithin <= DeliveredRetention
  /\ ReconcileWithin <= RollingBufferWindow + DeadLetterRetention
  /\ ReconcileWithin <= FullOutageMaxWindow + DeadLetterRetention
  /\ ~EventTooLarge(EventBytes) /\ EventTooLarge(LargeBytes)

BoundaryInit ==
  /\ Init
  /\ open = TRUE
  /\ detached = {}
  /\ told = [p \in Slots |-> NotAsked]
  /\ storedAt = [p \in Slots |-> 0]
  /\ stored = [p \in Slots |-> {}]

Tell(p, answer) == told' = [told EXCEPT ![p] = answer]

-----------------------------------------------------------------------------
(* Calls of ingest.                                                        *)

MayAsk(p) == ingest[p].at = "none" /\ told[p].retryable

\* The event is stored, and the call goes on.
Store(p) ==
  /\ MayAsk(p)
  /\ open /\ p \notin Large
  /\ Ingest(p)
  /\ Tell(p, InFlight)
  /\ stored' = [stored EXCEPT ![p] = @ \cup {mon'.res.seq}]
  /\ LET ingestAt == mon'.res.rows[mon'.res.seq].ingestAt
     IN  storedAt' = [storedAt EXCEPT ![p] = IF ingestAt < now THEN ingestAt ELSE now]
  /\ UNCHANGED <<open, detached>>

\* The call throws before its first await, and leaves m behind.
Throws(p, m, error) ==
  /\ MayAsk(p)
  /\ mon' = m
  /\ Tell(p, error)
  /\ UNCHANGED <<now, ingest, replay, handled, open, detached, stored, storedAt>>

RejectClosed(p) == ~open /\ Throws(p, mon, MonitorClosed)

RefuseAdmission(p) ==
  /\ open /\ IngressAction(mon) = "pause"
  /\ Throws(p, mon, AdmissionRefused)

ReachesStorage(p) == open /\ IngressAction(mon) # "pause"

RefuseLarge(p) ==
  /\ ReachesStorage(p) /\ EventTooLarge(BytesOf(p))
  /\ Throws(p, mon, CapacityRefused("serialized_event_bytes"))

\* Refused within the transaction, which is rolled back.
RefuseQuota(p) ==
  /\ ReachesStorage(p) /\ ~EventTooLarge(BytesOf(p))
  /\ QuotaRefuses(mon.res, BytesOf(p))
  /\ Throws(p, [mon EXCEPT !.res = RolledBack(@, @)], CapacityRefused("pending"))

\* BEGIN IMMEDIATE finds the file locked.
FindBusy(p) ==
  /\ ReachesStorage(p) /\ ~EventTooLarge(BytesOf(p))
  /\ "busy" \in WriteErrors
  /\ Throws(p, mon, BoundaryError(Raw("busy")))

\* The insert or its COMMIT fails: the transaction is rolled back, unless
\* SQLite has done so, when the error is the one of the ROLLBACK.  Only the
\* cached count may keep a trace, so the event's time does not matter.
FailWrite(p) ==
  LET attempted == Ingested(mon, BytesOf(p), now).res
  IN  /\ ReachesStorage(p) /\ ~EventTooLarge(BytesOf(p))
      /\ ~QuotaRefuses(mon.res, BytesOf(p))
      /\ \E text \in WriteErrors \ {"busy"} :
           /\ text = "no_transaction" => mon.res.cached < mon.res.pendingRows + MaxDrift
           /\ Throws(p,
                  [mon EXCEPT !.res = IF text = "no_transaction"
                                      THEN AutoRolledBack(@, attempted)
                                      ELSE RolledBack(@, attempted)],
                  BoundaryError(Raw(text)))

\* Mutant: the error is passed on as it is classified.
AfterStorageClassified(error) == BoundaryError(error)
\* The catch block of ingest: whatever goes wrong once the row is stored.
AfterStorage(error) == Indeterminate

\* onDecision resolves, whether the adapter is still open or not.
Decided(p) ==
  /\ DecisionObserved(p)
  /\ UNCHANGED <<open, detached, told, storedAt, stored>>

CallOver(p) == detached' = detached \ {p} /\ UNCHANGED <<open, storedAt, stored>>

Buffered(p) == BufferedObserved(p) /\ Tell(p, Accepted) /\ CallOver(p)

\* The delivery handler completes and the row is acknowledged,
Delivered(p) ==
  /\ p \notin detached
  /\ LiveDelivered(p)
  /\ mon' = RowsDelivered(mon, {ingest[p].row}, now)
  /\ Tell(p, Accepted)
  /\ CallOver(p)

\* or is not, because the write fails or the adapter has been closed meanwhile.
Unacknowledged(p) ==
  /\ ingest[p].at = "deliver"
  /\ handled' = handled \cup {ingest[p].row}
  /\ IngestOver(p)
  /\ \E error \in IF p \in detached THEN {MonitorClosed}
                  ELSE {Raw(text) : text \in WriteErrors} :
       Tell(p, AfterStorage(error))
  /\ CallOver(p)
  /\ UNCHANGED <<mon, now, replay>>

HandlerRejects(p) ==
  /\ IngestFails(p)
  /\ Tell(p, AfterStorage(Raw("handler_rejected")))
  /\ CallOver(p)

-----------------------------------------------------------------------------
(* The life of the adapter.                                                *)

Close ==
  /\ open
  /\ open' = FALSE
  /\ detached' = {p \in Slots : ingest[p].at # "none"}
  /\ replay' = NoReplay
  /\ UNCHANGED <<mon, now, ingest, handled, told, storedAt, stored>>

\* A new adapter on the same file, in the same process.
Open ==
  /\ ~open
  /\ open' = TRUE
  /\ mon' = Opened(mon.res, now)
  /\ UNCHANGED <<now, ingest, replay, handled, detached, told, storedAt, stored>>

\* The process dies and another opens the file.  A producer may just have
\* called, with nothing stored yet.
Die ==
  /\ Crash
  /\ open' = TRUE
  /\ detached' = {}
  /\ \E calling \in SUBSET {p \in Slots : MayAsk(p)} :
       told' = [p \in Slots |->
         IF ingest[p].at # "none" \/ p \in calling THEN Lost ELSE told[p]]
  /\ UNCHANGED <<storedAt, stored>>

\* docs/operator-runbook.md: "Use rowId and the monitor reservoir as recovery
\* authority."  What is not found may be sent again.
Reconcile(p) ==
  /\ open
  /\ told[p].outcome \in {"indeterminate", "unknown"}
  /\ stored[p] # {} => now - storedAt[p] < ReconcileWithin
  /\ Tell(p, IF stored[p] \cap DOMAIN mon.res.rows # {} THEN Accepted ELSE NotAsked)
  /\ UNCHANGED <<vars, open, detached, storedAt, stored>>

\* Everything else the adapter does meanwhile.
Background ==
  /\ open
  /\ \/ PumpReplayBatch
     \/ ReplayStep
     \/ PruneReservoir
     \/ \E report \in HealthReports : UpdateComponentHealth(report[1], report[2])
  /\ UNCHANGED <<open, detached, told, storedAt, stored>>

TimePasses == Tick /\ UNCHANGED <<open, detached, told, storedAt, stored>>

Call(p) ==
  \/ Store(p)
  \/ RejectClosed(p)
  \/ RefuseAdmission(p)
  \/ RefuseLarge(p)
  \/ RefuseQuota(p)
  \/ FindBusy(p)
  \/ FailWrite(p)

Answered(p) ==
  \/ Decided(p)
  \/ Buffered(p)
  \/ Delivered(p)
  \/ Unacknowledged(p)
  \/ HandlerRejects(p)

BoundaryNext ==
  \/ \E p \in Slots : Call(p) \/ Answered(p) \/ Reconcile(p)
  \/ Close
  \/ Open
  \/ Die
  \/ Background
  \/ TimePasses

BoundarySpec == BoundaryInit /\ [][BoundaryNext]_boundaryVars

-----------------------------------------------------------------------------
BoundaryTypeOK ==
  /\ TypeOK
  /\ open \in BOOLEAN
  /\ detached \subseteq {p \in Slots : ingest[p].at # "none"}
  /\ told \in [Slots -> Answers]
  /\ storedAt \in [Slots -> 0..now]
  /\ stored \in [Slots -> SUBSET (1..mon.res.seq)]

\* docs/persistence-operations.md, "Storage failure handling": no rejected
\* write becomes an accepted event, and an indeterminate outcome means that
\* the row was persisted.  So a definite rejection, whatever was going on, is
\* of an event of which nothing was ever stored, and an acceptance or an
\* indeterminate outcome of one of which something was.
AnswersAreTrue ==
  \A p \in Slots :
    CASE told[p].outcome = "definite_rejection" -> stored[p] = {}
      [] told[p].outcome \in {"accepted", "indeterminate"} -> stored[p] # {}
      [] OTHER -> TRUE

\* A producer that goes by the answers never gets its event in twice: through
\* refusals, failing writes, lost answers, closings, deaths and deletions.  It
\* must look an open outcome up within ReconcileWithin of the time its event
\* gives: the windows of an older event may be over when it is stored.
StoredOnce == \A p \in Slots : Cardinality(stored[p]) <= 1
=============================================================================
