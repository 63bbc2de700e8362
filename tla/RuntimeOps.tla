------------------------------ MODULE RuntimeOps ----------------------------
(***************************************************************************)
(* MonitorRuntime (src/src/runtime/MonitorRuntime.ts) with the router and  *)
(* the throttle it decides by: operators on the monitor record             *)
(*   res, session   the reservoir value and the replay session             *)
(*   health         the health tracker's table                             *)
(*   needed         #recoveryReplayNeeded                                  *)
(*   observed       #observedRecoveryTransition                            *)
(*   evidence       #startupHealthEvidence                                 *)
(*   ready          #startupHealthReady                                    *)
(* The throttle tier is reported and never read back, so only its one      *)
(* effect on control is kept, the pause of a bypass whose backlog is too   *)
(* large.  The filesystem reserve is left to module Reservoir.             *)
(***************************************************************************)
EXTENDS ReplayOps, HealthOps

CONSTANTS
  PauseLiveFlow,        \* replay.pauseLiveFlowDuringReplay
  ConservativeStartup,  \* startup.healthPolicy = "conservative"
  BypassPauseBacklog    \* 10_000 in ThrottleController.decide

ASSUME RuntimeAssumption ==
  /\ PauseLiveFlow \in BOOLEAN
  /\ ConservativeStartup \in BOOLEAN
  /\ BypassPauseBacklog \in Nat
  /\ FilesystemReserve = NULL

IsMonitor(m) ==
  /\ m \in [res: {m.res}, session: Session, health: HealthTable,
            needed: BOOLEAN, observed: BOOLEAN,
            evidence: SUBSET Components, ready: BOOLEAN]
  /\ IsReservoir(m.res)

\* The constructor on a reservoir file that holds the rows of res.
Opened(res, now) ==
  LET recovered == RecoverRestartState(res)
      backlog == recovered.cached > 0
  IN  [res |-> recovered, session |-> RestartSession(recovered, now),
       health |-> InitialHealth(now), needed |-> backlog, observed |-> backlog,
       evidence |-> {}, ready |-> ~ConservativeStartup]

-----------------------------------------------------------------------------
(* What the runtime reads off its state.                                   *)

StateOf(m, component) == m.health[component].state

TargetsOnline(m) ==
  StateOf(m, "dedupe") = "online" /\ StateOf(m, "causal-order") = "online"

FullOutage(m) ==
  StateOf(m, "dedupe") = "offline" /\ StateOf(m, "causal-order") = "offline"

\* Pending rows that replay is for: live deliveries in flight are not.
EligibleRows(res) ==
  {i \in InState(res.rows, PendingStates) :
     res.rows[i].mode \notin {"normal", "dedupe_bypass"}}

\* #deriveRoutingMode and the delivery mode the router resolves it to.
RoutingMode(m) ==
  IF GateClosed(m) THEN "replay_through_dedupe"
  ELSE IF FullOutage(m) THEN "full_outage_buffer"
  ELSE IF StateOf(m, "causal-order") = "offline" THEN "order_buffer_only"
  ELSE IF StateOf(m, "dedupe") = "offline" THEN "dedupe_bypass_throttled"
  ELSE IF StateOf(m, "transport") = "offline" /\ Backlog(m) > 0
  THEN "order_buffer_only"
  ELSE "normal"

DeliveryMode(m) ==
  IF RoutingMode(m) = "dedupe_bypass_throttled" THEN "dedupe_bypass"
  ELSE RoutingMode(m)

RoutedAction(m) ==
  CASE RoutingMode(m) \in {"full_outage_buffer", "order_buffer_only"} ->
         "buffer_only"
    [] /\ RoutingMode(m) = "dedupe_bypass_throttled"
       /\ Backlog(m) >= BypassPauseBacklog -> "pause"
    [] OTHER -> "accept"

AwaitingConfirmation(m) ==
  /\ TargetsOnline(m)
  /\ m.needed
  /\ m.observed
  /\ ~RecoveryConfirmed(m)
  /\ EligibleRows(m.res) # {}

HeldForReplay(m) == PauseLiveFlow /\ (GateClosed(m) \/ AwaitingConfirmation(m))
LiveFlowHeld(m) == HeldForReplay(m) \/ (ConservativeStartup /\ ~m.ready)

\* getIngressDecision.
IngressAction(m) == IF LiveFlowHeld(m) THEN "buffer_only" ELSE RoutedAction(m)

-----------------------------------------------------------------------------
(* Operations.                                                             *)

\* A row's ingest time is the one its event brings along, if it does: neither
\* operation passes a time of its own.
IngestTime(ingestedAt, now) == IF ingestedAt = NULL THEN now ELSE ingestedAt

\* ingestTransportEvent, where the event is neither paused nor refused.
Admits(m, bytes) ==
  /\ IngressAction(m) # "pause"
  /\ ~EventTooLarge(bytes)
  /\ ~QuotaRefuses(m.res, bytes)
Ingested(m, bytes, ingestAt) ==
  [m EXCEPT !.res = AppendIngressEvent(@, bytes, DeliveryMode(m), "pending", ingestAt)]

\* observeDedupeEvent stores what was delivered elsewhere.
Observed(m, bytes, ingestAt) ==
  [m EXCEPT !.res = AppendIngressEvent(@, bytes, "normal", "delivered", ingestAt)]

EvidenceRecorded(m, component, state) ==
  LET seen == IF state = "online" THEN m.evidence \cup {component} ELSE m.evidence
  IN  IF ConservativeStartup
      THEN [m EXCEPT !.evidence = seen, !.ready = @ \/ seen = Components]
      ELSE m

\* #reconcileReplayQueue
NeedReset(m) ==
  IF TargetsOnline(m) /\ m.session.state = "idle" /\ Backlog(m) = 0
  THEN [m EXCEPT !.needed = FALSE] ELSE m

\* updateComponentHealth.  The tracker has changed before the transition is
\* written, and the flags before the replay session is.
HealthTracked(m, component, state, now) ==
  EvidenceRecorded([m EXCEPT !.health = ComponentUpdated(@, component, state, now)],
                   component, state)
\* Mutant: an outage does not note that replay will be needed.
HealthFlaggedWithoutNeed(m, component, state, now) ==
  [HealthTracked(m, component, state, now) EXCEPT
     !.observed = @ \/ (component # "transport" /\ StateOf(m, component) # state)]

HealthFlagged(m, component, state, now) ==
  LET target == component # "transport"
  IN  [HealthTracked(m, component, state, now) EXCEPT
         !.observed = @ \/ (target /\ StateOf(m, component) # state),
         !.needed = @ \/ (target /\ state = "offline")]
HealthUpdated(m, component, state, now) ==
  LET flagged == HealthFlagged(m, component, state, now)
  IN  NeedReset(RecoveryObserved(flagged, component, state,
                                 TargetsOnline(flagged)))
HealthPrefixes(m, component, state, now) ==
  LET flagged == HealthFlagged(m, component, state, now)
  IN  {HealthTracked(m, component, state, now)}
        \cup RecoveryPrefixes(flagged, component, state, TargetsOnline(flagged))

\* observeHeartbeat, which sets no recovery flag.
HeartbeatTracked(m, component, now) ==
  EvidenceRecorded([m EXCEPT !.health = HeartbeatObserved(@, component, now)],
                   component, "online")
HeartbeatSeen(m, component, now) ==
  LET tracked == HeartbeatTracked(m, component, now)
  IN  NeedReset(RecoveryObserved(tracked, component, "online",
                                 TargetsOnline(tracked)))
HeartbeatPrefixes(m, component, now) ==
  LET tracked == HeartbeatTracked(m, component, now)
  IN  RecoveryPrefixes(tracked, component, "online", TargetsOnline(tracked))

\* refreshHealthStates, which sets none either and is no recovery observation.
RefreshTracked(m, now) == [m EXCEPT !.health = StatesRefreshed(@, now)]
HealthRefreshed(m, now) == NeedReset(RefreshTracked(m, now))

\* pruneReservoir
ClaimsReclaimed(m, now) ==
  [m EXCEPT !.res = ReclaimStaleReplayRows(@, RetryBackoff, now)]
Pruned(m, now) ==
  [ClaimsReclaimed(m, now) EXCEPT !.res = PruneExpired(@, FullOutage(m), now)]
PrunePrefixes(m, now) ==
  PartlyReclaimed(m, now) \cup
    {[ClaimsReclaimed(m, now) EXCEPT
        !.res = MarkExpiredPendingRows(@, FullOutage(m), now)]}

\* #startReplayInternal, which a backoff does not hold up.
StartAllowed(m, now) == TargetsOnline(m) /\ MayStart(QueueIfNeeded(m, now))
ReplayStarted(m, now) == Start(QueueIfNeeded(m, now))

\* #claimReplayBatchInternal
ClaimAllowed(m, now) == TargetsOnline(m) /\ MayClaim(QueueIfNeeded(m, now))
ReplayBatch(m, limit, now) == BatchOf(QueueIfNeeded(m, now), limit, now)
BatchClaimed(m, limit, now) == ClaimNextBatch(QueueIfNeeded(m, now), limit, now)
\* What a claim that throws leaves behind; a file that works lets it get as
\* far as its own check.
ClaimRejected(m, now) ==
  IF TargetsOnline(m) THEN ClaimStarted(QueueIfNeeded(m, now)) ELSE m
ClaimInterrupted(m, now) ==
  {m} \cup ClaimPrefixes(QueueIfNeeded(m, now), now)
=============================================================================
