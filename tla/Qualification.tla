---------------------------- MODULE Qualification ---------------------------
(***************************************************************************)
(* The long-horizon qualification, scripts/monitor-phase6-soak.mjs: a loop *)
(* that emits events through phases of outage and recovery and keeps what  *)
(* the monitor refuses, a scheduler that replays beside it, one injected   *)
(* replay failure, one restart while its retry waits, and a final drain.   *)
(*                                                                         *)
(* The loop hands over to the scheduler only in its delays: everything it  *)
(* awaits in between resolves without a timer.  The clock moves when a     *)
(* delay ends.  One source node is followed: its events are the numbers    *)
(* 1, 2, ... in sequence order.  Every event that the simulated dedupe has *)
(* not seen goes on to the simulated order sink.                           *)
(***************************************************************************)
EXTENDS RuntimeOps, Sequences
LOCAL INSTANCE SequencesExt

CONSTANTS
  PhaseEnds,        \* when each phase ends, in clock units; the last is durationMs
  ReplayBatchSize,  \* --replay-batch-size
  EventBytes,       \* serialized size of an event
  EmissionPeriod,   \* clock units for one emission, 1 / --events-per-second
  MaxDuplicates,    \* bound on emissions that repeat an earlier event
  MaxTime           \* bound on the clock, past the last phase

Phases == <<"healthy", "extended_order_outage", "reconnect_burst",
            "full_downstream_outage", "retry_recovery", "repeated_order_outage",
            "observer_pressure_restart", "final_recovery">>

\* The options as the script takes them: findOption, then positiveNumber.
ValidOptions ==
  /\ PhaseEnds \in [DOMAIN Phases -> Nat]
  /\ ReplayBatchSize \in Nat \ {0}
  /\ EventBytes \in Nat
  /\ EmissionPeriod \in Nat \ {0}
  /\ MaxPendingRows # NULL

ASSUME QualificationAssumption == ValidOptions

VARIABLES
  mon,       \* the monitor record of RuntimeOps
  now,       \* the simulated clock
  main,      \* where the loop is, its phase, upstream retries left to make
  emitted,   \* ingestedAt of each event; their number is the last sequence
  eventOf,   \* the event in each row
  upstream,  \* events the monitor refused, in the order they are retried
  seen,      \* events dedupe and order have seen, in order of arrival
  injected,  \* the row whose replay was made to fail, and its retry deadline
  restarted, \* restartCompleted
  count      \* emissions generated, and emissions accepted
vars == <<mon, now, main, emitted, eventOf, upstream, seen, injected, restarted,
          count>>

Offline(phase) ==
  CASE phase \in {"extended_order_outage", "repeated_order_outage"} -> {"causal-order"}
    [] phase = "full_downstream_outage" -> {"dedupe", "causal-order"}
    [] OTHER -> {}
BothOnline == Offline(main.phase) = {}

\* Each of the changed components is reported, in the order of the script.
Report(m, c, changed, offline) ==
  IF c \in changed
  THEN HealthUpdated(m, c, IF c \in offline THEN "offline" ELSE "online", now) ELSE m
\* The one outcome of the reports, as a set.
Reported(m, changed, offline) ==
  {Report(two, "causal-order", changed, offline) : two \in
     {Report(one, "dedupe", changed, offline) : one \in
        {Report(m, "transport", changed, offline)}}}
Owner(res) == Reported(Opened(res, now), Components, Offline(main.phase))

Init ==
  /\ now = 0
  /\ main = [at |-> "phase", phase |-> "startup", left |-> 0]
  /\ mon \in Owner(EmptyReservoir)
  /\ emitted = <<>> /\ eventOf = <<>> /\ upstream = <<>> /\ seen = <<>>
  /\ injected = [row |-> 0, deadline |-> 0]
  /\ restarted = FALSE
  /\ count = [generated |-> 0, accepted |-> 0]

-----------------------------------------------------------------------------
(* One turn of the loop: phase, retry, emit, retry, restart, delay.  After *)
(* the last phase the drain repeats only retry and delay.                  *)

Goto(at) == main' = [main EXCEPT !.at = at, !.left = 0]
Running == now < PhaseEnds[Len(Phases)]
PhaseNow ==
  IF Running
  THEN Phases[CHOOSE p \in DOMAIN Phases :
                now < PhaseEnds[p] /\ \A q \in DOMAIN Phases : now < PhaseEnds[q] => p <= q]
  ELSE "final_recovery"

\* setPhase reports the components whose state the phase changes.
SetPhase ==
  /\ main.at = "phase"
  /\ main' = [at |-> IF Running THEN "retry" ELSE "drain", phase |-> PhaseNow, left |-> 0]
  /\ LET old == Offline(main.phase)
         new == Offline(PhaseNow)
     IN  mon' \in Reported(mon, (old \cup new) \ (old \cap new), new)
  /\ UNCHANGED <<now, emitted, eventOf, upstream, seen, injected, restarted, count>>

\* deliverToDedupe of the script, for each of a sequence of events.
Delivered(events) ==
  FoldLeft(LAMBDA acc, e : IF Contains(acc, e) THEN acc ELSE Append(acc, e), seen, events)

\* adapter.ingest: the monitor refuses, or stores the event and, where it
\* accepts, delivers and acknowledges it.
Refused == ~Admits(mon, EventBytes)
Accepted(e, ingestedAt) ==
  LET stored == Ingested(mon, EventBytes, ingestedAt)
      row == stored.res.seq
      live == IngressAction(mon) = "accept"
  IN  /\ eventOf' = Append(eventOf, e)
      /\ mon' = IF live THEN RowsDelivered(stored, {row}, now) ELSE stored
      /\ seen' = IF live THEN Delivered(<<e>>) ELSE seen

\* emitNew, until the emissions have caught up with the clock: a new event, or
\* an earlier one once more.
EmissionsDue == count.generated < now \div EmissionPeriod
MayEmit(e) ==
  e \in DOMAIN emitted => count.generated - Len(emitted) < MaxDuplicates
Emit ==
  /\ main.at = "emit" /\ EmissionsDue
  /\ \E e \in 1..(Len(emitted) + 1) :
       /\ MayEmit(e)
       /\ emitted' = IF e \in DOMAIN emitted THEN emitted ELSE Append(emitted, now)
       /\ \/ /\ Refused
             /\ upstream' = Append(upstream, e)
             /\ count' = [count EXCEPT !.generated = @ + 1]
             /\ UNCHANGED <<mon, eventOf, seen>>
          \/ /\ ~Refused
             /\ Accepted(e, emitted'[e])
             /\ count' = [generated |-> count.generated + 1, accepted |-> count.accepted + 1]
             /\ UNCHANGED upstream
  /\ UNCHANGED <<now, main, injected, restarted>>
EmitNoMore ==
  /\ main.at = "emit" /\ ~EmissionsDue
  /\ Goto("again")
  /\ UNCHANGED <<mon, now, emitted, eventOf, upstream, seen, injected, restarted, count>>

\* retryUpstream.  Where it is called, and what follows.
RetryPoints == {"retry", "again", "drain"}
AfterRetry == CASE main.at = "retry" -> "emit"
                [] main.at = "again" -> "restart"
                [] main.at = "drain" -> "check"
Smaller(a, b) == IF a < b THEN a ELSE b
MayRetry ==
  /\ main.at = "drain" \/ BothOnline
  /\ mon.res.pendingRows < MaxPendingRows
  /\ Posture(mon.res, FALSE, NULL) # "refusing"
RetryUpstream ==
  /\ main.at \in RetryPoints /\ main.left = 0
  /\ main' = IF MayRetry /\ upstream # <<>>
             THEN [main EXCEPT !.left = Smaller(ReplayBatchSize, Len(upstream))]
             ELSE [main EXCEPT !.at = AfterRetry]
  /\ UNCHANGED <<mon, now, emitted, eventOf, upstream, seen, injected, restarted, count>>
Requeued == upstream' = Append(Tail(upstream), Head(upstream))
RetryOne ==
  /\ main.at \in RetryPoints /\ main.left > 0
  /\ main' = [main EXCEPT !.left = @ - 1, !.at = IF main.left = 1 THEN AfterRetry ELSE @]
  /\ \/ /\ Refused
        /\ Requeued
        /\ UNCHANGED <<mon, eventOf, seen, count>>
     \/ /\ ~Refused
        /\ upstream' = Tail(upstream)
        /\ Accepted(Head(upstream), emitted[Head(upstream)])
        /\ count' = [count EXCEPT !.accepted = @ + 1]
  /\ UNCHANGED <<now, emitted, injected, restarted>>

\* restartUnderPressure: the scheduler is stopped, the adapter closed and a new
\* one opened on the file.
RestartDue ==
  /\ main.phase \in {"retry_recovery", "observer_pressure_restart"}
  /\ ~restarted
  /\ injected.row # 0
  /\ mon.session.retryAt # NULL
RestartUnderPressure ==
  /\ main.at = "restart"
  /\ restarted' = (restarted \/ RestartDue)
  /\ mon' \in IF RestartDue THEN Owner(mon.res) ELSE {mon}
  /\ Goto("delay")
  /\ UNCHANGED <<now, emitted, eventOf, upstream, seen, injected, count>>

\* A delay ends; it is shorter than a phase.
Resume ==
  /\ main.at \in {"delay", "wait"}
  /\ now' \in {now, now + 1} \cap (0..MaxTime)
  /\ Goto(IF main.at = "delay" THEN "phase" ELSE "drain")
  /\ UNCHANGED <<mon, emitted, eventOf, upstream, seen, injected, restarted, count>>
TimePasses == Resume /\ now' # now

\* The drain is over once nothing is left anywhere and replay is idle; then the
\* adapter is closed, and opened once more.
CheckDrained ==
  /\ main.at = "check"
  /\ LET drained == upstream = <<>> /\ Backlog(mon) = 0 /\ mon.session.state = "idle"
     IN  /\ Goto(IF drained THEN "reopened" ELSE "wait")
         /\ mon' \in IF drained THEN Owner(mon.res) ELSE {mon}
  /\ UNCHANGED <<now, emitted, eventOf, upstream, seen, injected, restarted, count>>

-----------------------------------------------------------------------------
(* What a delay lets in: the ticks of the scheduler.                       *)

Heartbeat(m, c) ==
  IF c \in Offline(main.phase) THEN m ELSE HeartbeatSeen(m, c, now)
Probed ==
  {Heartbeat(two, "causal-order") : two \in
     {Heartbeat(one, "dedupe") : one \in {Heartbeat(mon, "transport")}}}

\* reconcileRecovery up to its claim.
Proceeds(m) ==
  /\ Backlog(m) # 0
  /\ m.session.state = "idle" => m.needed /\ m.observed /\ EligibleRows(m.res) # {}
  /\ m.session.state = "completed" => EligibleRows(m.res) # {}
  /\ m.session.state \in {"idle", "failed", "completed"} => RecoveryConfirmed(m)

\* A claimed batch in the order it is delivered.
InOrder(rows, ids) ==
  SetToSortSeq(ids, LAMBDA i, j : \/ rows[i].ingestAt < rows[j].ingestAt
                                  \/ rows[i].ingestAt = rows[j].ingestAt /\ i < j)

\* The first replay delivery of the phase retry_recovery is made to fail.
FailureDue == injected.row = 0 /\ main.phase = "retry_recovery"
Replayed(m) ==
  \E claimed \in {BatchClaimed(m, ReplayBatchSize, now)} :
  \E batch \in {InOrder(claimed.res.rows, ReplayBatch(m, ReplayBatchSize, now))} :
    \/ /\ batch = <<>>
       /\ mon' = claimed
       /\ UNCHANGED <<seen, injected>>
    \/ /\ batch # <<>> /\ FailureDue
       /\ mon' = Fail(claimed, {batch[1]}, now)
       /\ injected' = [row |-> batch[1], deadline |-> mon'.session.retryAt]
       /\ UNCHANGED seen
    \/ /\ batch # <<>> /\ ~FailureDue
       /\ mon' = AcknowledgeBatch(claimed, Range(batch), now)
       /\ seen' = Delivered([k \in DOMAIN batch |-> eventOf[batch[k]]])
       /\ UNCHANGED injected

\* #runTick: the health probe, then replay.  Pruning finds no row old enough in
\* the course of a run, and the claims it would take back a claim takes back.
Tick ==
  /\ main.at \in {"delay", "wait"}
  /\ \E probed \in Probed :
         IF TargetsOnline(probed) /\ Proceeds(probed) /\ ClaimAllowed(probed, now)
         THEN Replayed(probed)
         ELSE mon' = probed /\ UNCHANGED <<seen, injected>>
  /\ UNCHANGED <<now, main, emitted, eventOf, upstream, restarted, count>>
Loop ==
  \/ SetPhase \/ Emit \/ EmitNoMore \/ RetryUpstream \/ RetryOne
  \/ RestartUnderPressure \/ Resume \/ CheckDrained
Next == Loop \/ Tick

\* The loop, the scheduler's timer and the clock go on.
Spec == Init /\ [][Next]_vars /\ WF_vars(Loop) /\ SF_vars(Tick) /\ SF_vars(TimePasses)

-----------------------------------------------------------------------------
TypeOK ==
  /\ IsMonitor(mon)
  /\ now \in 0..MaxTime
  /\ main \in [at: RetryPoints \cup {"phase", "emit", "restart", "delay", "check",
                                     "wait", "reopened"},
               phase: Range(Phases) \cup {"startup"}, left: 0..ReplayBatchSize]
  /\ emitted \in Seq(Nat)
  /\ DOMAIN eventOf = 1..mon.res.seq /\ Range(eventOf) \subseteq DOMAIN emitted
  /\ Range(upstream) \subseteq DOMAIN emitted
  /\ Range(seen) \subseteq DOMAIN emitted
  /\ injected.row \in 0..mon.res.seq
  /\ restarted \in BOOLEAN

\* Every generated emission is accepted exactly once or remains upstream, and
\* an event that has not reached order is still upstream or pending in a row.
NothingLost ==
  /\ count.generated = count.accepted + Len(upstream)
  /\ count.accepted = mon.res.seq
  /\ \A e \in DOMAIN emitted :
       \/ Contains(seen, e) \/ Contains(upstream, e)
       \/ \E i \in InState(mon.res.rows, PendingStates) : eventOf[i] = e

\* Accepted pending rows stay within the configured capacity, counted row by row.
CapacityKept ==
  Cardinality(InState(mon.res.rows, PendingStates)) <= MaxPendingRows

\* The row whose replay failed is not delivered before its persisted deadline,
\* the restart notwithstanding.
DeadlineKept ==
  \A i \in InState(mon'.res.rows, {"delivered"}) :
    i = injected.row /\ i \in InState(mon.res.rows, PendingStates)
      => now >= injected.deadline

\* A restart while a retry waits preserves every pending row and their number,
\* as the new process counts it.
RestartPreserves ==
  restarted' # restarted =>
    /\ Backlog(mon') = Backlog(mon)
    /\ InState(mon'.res.rows, PendingStates) = InState(mon.res.rows, PendingStates)

\* What the script asserts when it prints "qualification passed", but for the
\* order of events: refusals, the failed replay and the restart lose nothing
\* and deliver nothing early, whenever the scheduler ticks, and the final drain
\* comes to its end.
QualificationPasses ==
  /\ [](TypeOK /\ NothingLost /\ CapacityKept)
  /\ [][DeadlineKept /\ RestartPreserves]_vars
  /\ <>(main.at = "reopened")
=============================================================================
