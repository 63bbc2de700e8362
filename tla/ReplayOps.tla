------------------------------ MODULE ReplayOps -----------------------------
(***************************************************************************)
(* ReplayCoordinator (src/src/replay/ReplayCoordinator.ts) over the        *)
(* reservoir: operators on a record m with the fields res, a reservoir     *)
(* value, and session, the coordinator's snapshot.  Of the snapshot the    *)
(* state, nextRetryAt and recoveryHeartbeatCount are kept; event counts,   *)
(* the failure count, start and end times and the error text steer nothing *)
(* and are left out.                                                       *)
(*                                                                         *)
(* Every change is written to the file before it is taken over, so a call  *)
(* can fail between its writes.  Op(m, ...) is the call that succeeds,     *)
(* OpPrefixes(m, ...) what it leaves behind when one of its writes throws. *)
(***************************************************************************)
EXTENDS ReservoirOps

CONSTANTS
  RequiredHeartbeats,   \* replay.healthConfirmationHeartbeats
  RetryBackoff          \* replay.retryBackoffMs

ASSUME ReplayAssumption ==
  /\ RequiredHeartbeats \in Nat
  /\ RetryBackoff \in Nat

SessionStates ==
  {"idle", "queued", "running", "failed", "aborted", "completed"}
Session == [state: SessionStates, retryAt: OptionalNat, heartbeats: Nat]

\* A snapshot whose counters start afresh.
Fresh(state) == [state |-> state, retryAt |-> NULL, heartbeats |-> 0]

Backlog(m) == m.res.cached

\* Pending rows whose retry time is still to come.
RetryWaiting(res, now) ==
  {i \in InState(res.rows, {"pending"}) :
     res.rows[i].retryAt # NULL /\ res.rows[i].retryAt > now}

EarliestRetry(res, now) ==
  LET times == {res.rows[i].retryAt : i \in RetryWaiting(res, now)}
  IN  CHOOSE t \in times : \A u \in times : t <= u

\* #createRestartSnapshot: the posture is rebuilt from the rows.
RestartSession(res, now) ==
  CASE res.cached = 0 -> Fresh("idle")
    [] res.cached # 0 /\ Cardinality(RetryWaiting(res, now)) = res.cached ->
         [Fresh("failed") EXCEPT !.retryAt = EarliestRetry(res, now)]
    [] OTHER -> Fresh("queued")

RecoveryConfirmed(m) == m.session.heartbeats >= RequiredHeartbeats

GateClosed(m) ==
  \/ m.session.state \in {"queued", "running", "failed"}
  \/ /\ m.session.state = "completed"
     /\ ~RecoveryConfirmed(m) \/ Backlog(m) > 0

\* Mutant: a failed session is queued again at once.
NoBackoff(m, now) == FALSE
InBackoff(m, now) ==
  /\ m.session.state = "failed"
  /\ m.session.retryAt # NULL
  /\ now < m.session.retryAt

QueueIfNeeded(m, now) ==
  IF \/ Backlog(m) = 0
     \/ m.session.state \in {"running", "queued"}
     \/ InBackoff(m, now)
  THEN m ELSE [m EXCEPT !.session = Fresh("queued")]

\* start, of a session that may start: it throws in other states.
MayStart(m) ==
  Backlog(m) = 0 \/ m.session.state \in {"queued", "running", "failed"}
Start(m) ==
  CASE Backlog(m) = 0 -> [m EXCEPT !.session = Fresh("idle")]
    [] Backlog(m) # 0 /\ m.session.state = "running" -> m
    [] OTHER -> [m EXCEPT !.session = Fresh("running")]

Complete(m) == [m EXCEPT !.session = Fresh("completed")]

\* claimNextBatch.  A queued session is started first; only a running one may
\* claim, and it takes back stale claims before.
ClaimStarted(m) == IF m.session.state = "queued" THEN Start(m) ELSE m
MayClaim(m) == ClaimStarted(m).session.state = "running"
ClaimReady(m, now) ==
  [ClaimStarted(m) EXCEPT !.res = ReclaimStaleReplayRows(@, RetryBackoff, now)]

BatchOf(m, limit, now) ==
  IF limit > 0 THEN ClaimBatch(ClaimReady(m, now).res, limit, now) ELSE {}

ClaimNextBatch(m, limit, now) ==
  LET ready == ClaimReady(m, now)
      claimed == [ready EXCEPT !.res = ClaimReplayBatch(@, limit, now)]
  IN  CASE BatchOf(m, limit, now) # {} -> claimed
        [] BatchOf(m, limit, now) = {} /\ Backlog(ready) = 0 -> Complete(ready)
        [] OTHER -> ready

\* The stale claims are taken back in transactions of PruneBatchSize rows.
PartlyReclaimed(m, now) ==
  {[m EXCEPT !.res = ReclaimPasses(@, RetryBackoff, passes, now)] :
     passes \in 0..Cardinality(StaleRows(m.res, RetryBackoff, now))}
ClaimPrefixes(m, now) ==
  {m} \cup (IF MayClaim(m) THEN PartlyReclaimed(ClaimStarted(m), now)
            ELSE {ClaimStarted(m)})

\* acknowledgeBatch: the rows first, the snapshot after.
RowsDelivered(m, ids, now) == [m EXCEPT !.res = MarkDelivered(@, ids, now)]
AcknowledgeBatch(m, ids, now) ==
  LET marked == RowsDelivered(m, ids, now)
  IN  IF Backlog(marked) = 0 /\ m.session.state = "running"
      THEN Complete(marked) ELSE marked
AcknowledgePrefixes(m, ids, now) == {m, RowsDelivered(m, ids, now)}

\* fail: the rows wait for the backoff, whatever state they are in by now.
RowsRetried(m, ids, now) ==
  [m EXCEPT !.res = ResetToPending(@, ids, now + RetryBackoff, now)]
Fail(m, ids, now) ==
  [RowsRetried(m, ids, now) EXCEPT !.session.state = "failed",
                                   !.session.retryAt = now + RetryBackoff]
FailPrefixes(m, ids, now) == {m, RowsRetried(m, ids, now)}

\* abort: the rows are free at once, the session stays down.
Aborted(m, ids, now) ==
  [m EXCEPT !.res = ResetToPending(@, ids, NULL, now),
            !.session.state = "aborted", !.session.retryAt = NULL]

\* observeRecoveryHeartbeat: the count is written first, the idle session
\* after; transport counts for nothing.
Disregarded(m, component) == component = "transport" \/ m.session.state = "running"
Confirms(state, allHealthy) == state = "online" /\ allHealthy
RecoveryCounted(m, component, state, allHealthy) ==
  LET count == IF m.session.heartbeats + 1 < RequiredHeartbeats
               THEN m.session.heartbeats + 1 ELSE RequiredHeartbeats
  IN  IF Disregarded(m, component) THEN m
      ELSE [m EXCEPT !.session.heartbeats =
              IF Confirms(state, allHealthy) THEN count ELSE 0]
\* Mutant: the gate reopens on confirmation alone, whatever is left to replay.
RecoveryObservedUndrained(m, component, state, allHealthy) ==
  LET counted == RecoveryCounted(m, component, state, allHealthy)
  IN  IF /\ ~Disregarded(m, component) /\ Confirms(state, allHealthy)
         /\ m.session.state = "completed"
         /\ counted.session.heartbeats >= RequiredHeartbeats
      THEN [m EXCEPT !.session = Fresh("idle")]
      ELSE counted
RecoveryObserved(m, component, state, allHealthy) ==
  LET counted == RecoveryCounted(m, component, state, allHealthy)
  IN  IF /\ ~Disregarded(m, component) /\ Confirms(state, allHealthy)
         /\ m.session.state = "completed"
         /\ counted.session.heartbeats >= RequiredHeartbeats
         /\ Backlog(m) = 0
      THEN [m EXCEPT !.session = Fresh("idle")]
      ELSE counted
RecoveryPrefixes(m, component, state, allHealthy) ==
  {m, RecoveryCounted(m, component, state, allHealthy)}
=============================================================================
