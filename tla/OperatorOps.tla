---------------------------- MODULE OperatorOps -----------------------------
(***************************************************************************)
(* What an operator is shown (src/src/inspect/inspectMonitorSnapshot.ts):  *)
(* a second reading of the monitor record m, made apart from the decision  *)
(* the runtime takes for the next event.  tier is the throttle tier that   *)
(* was last reported, pressure the filesystem pressure of the storage      *)
(* snapshot.  Counts, ages and percentages are left out.                   *)
(***************************************************************************)
EXTENDS RuntimeOps

Tiers == {"open", "slow", "very_slow", "paused"}

\* projectFilesystemStorage, from available and total bytes.
StoragePressure(available, total) ==
  CASE total <= 0 \/ available < 0 \/ available > total -> "unknown"
    [] total > 0 /\ available \in 0..total /\ available * 100 <= total * 5 -> "critical"
    [] total > 0 /\ available \in 0..total /\ available * 100 > total * 5
       /\ available * 100 <= total * 15 -> "elevated"
    [] OTHER -> "normal"

\* The pressures a filesystem of 20 units can show.
Pressures == {StoragePressure(available, 20) : available \in -1..20}

BackoffShown(m, now) == m.session.retryAt # NULL /\ m.session.retryAt > now

\* Mutant: the last heartbeat that is missing does not show.
ConfirmationShownOffByOne(m) ==
  /\ TargetsOnline(m)
  /\ EligibleRows(m.res) # {}
  /\ m.session.state = "idle"
  /\ m.session.heartbeats + 1 < RequiredHeartbeats
ConfirmationShown(m) ==
  /\ TargetsOnline(m)
  /\ EligibleRows(m.res) # {}
  /\ m.session.state = "idle"
  /\ m.session.heartbeats < RequiredHeartbeats

\* deriveLiveFlowGateReason gives a reason.
GateShown(m, now) ==
  \/ BackoffShown(m, now)
  \/ ConfirmationShown(m)
  \/ m.session.state \in {"queued", "running", "failed", "completed"}

\* deriveOperationalState, the first that applies.
OperationalState(m, now) ==
  IF BackoffShown(m, now) THEN "replay_retry_waiting"
  ELSE IF ConfirmationShown(m) THEN "recovery_confirming"
  ELSE IF m.session.state \in {"queued", "running"} THEN "replay_draining"
  ELSE IF m.session.state = "completed" THEN "recovery_confirming"
  ELSE CASE RoutingMode(m) \in {"order_buffer_only", "full_outage_buffer"} ->
              "buffering_only"
         [] RoutingMode(m) = "dedupe_bypass_throttled" -> "degraded_live"
         [] OTHER -> "healthy_live"

Buffering(m, now) ==
  \/ RoutingMode(m) \in {"order_buffer_only", "full_outage_buffer",
                         "replay_through_dedupe"}
  \/ GateShown(m, now)

AdmissionShown(m, tier, now) ==
  CASE Buffering(m, now) -> "accepted_buffered"
    [] ~Buffering(m, now) /\ tier = "paused" -> "protective_refusal"
    [] OTHER -> "accepted_live"

\* The status and with it the recommended action, the first that applies.
StatusShown(m, tier, pressure, now) ==
  IF pressure = "critical" THEN "attention_required"
  ELSE IF AdmissionShown(m, tier, now) = "protective_refusal"
  THEN "protective_refusal"
  ELSE IF BackoffShown(m, now) THEN "recovering"
  ELSE IF m.session.state \in {"failed", "aborted"} THEN "attention_required"
  ELSE IF GateShown(m, now) THEN "recovering"
  ELSE IF Buffering(m, now) THEN "buffering"
  ELSE IF \/ \E c \in Components : StateOf(m, c) # "online"
          \/ pressure = "elevated"
  THEN "degraded" ELSE "healthy"

\* deriveMonitorAdmissionDecision (src/src/boundary.ts): the same for the
\* decision the runtime takes.
AdmissionDecided(m) ==
  CASE IngressAction(m) = "pause" -> "protective_refusal"
    [] IngressAction(m) = "buffer_only" -> "accepted_buffered"
    [] OTHER -> "accepted_live"
=============================================================================
