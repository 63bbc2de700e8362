--------------------------- MODULE TransportMonitor -------------------------
(***************************************************************************)
(* TransportMonitorAdapter (src/src/transport/TransportMonitorAdapter.ts)  *)
(* over its MonitorRuntime: deliveries of live events, one replay          *)
(* operation, health reports, pruning, the clock and process deaths,       *)
(* interleaved at every await.  Between two awaits a call runs alone; what *)
(* it awaits, an application handler, may take any time, reject, or never  *)
(* answer.                                                                 *)
(***************************************************************************)
EXTENDS RuntimeOps

CONSTANTS
  Slots,           \* calls of ingest that may be in flight at once
  EventBytes,      \* serialized size of an event
  EventTimes,      \* event.ingestedAt of the events, NULL where it is not given
  BatchSize,       \* limit the replay operations pass on
  HealthReports,   \* pairs <<component, state>> the application reports
  HeartbeatsFrom,  \* components it reports heartbeats of
  HealthProbes,    \* whether it calls refreshHealthStates
  Crashes,         \* whether the process may die
  Faults,          \* what may go wrong: a live or a replay delivery handler,
                   \* an observing callback, a write to storage
  MaxRows, MaxTime \* bounds on row ids and on the clock

ASSUME AdapterAssumption ==
  /\ EventBytes \in Nat
  /\ EventTimes \subseteq OptionalNat
  /\ BatchSize \in Nat \ {0}
  /\ HealthReports \subseteq Components \X HealthStates
  /\ HeartbeatsFrom \subseteq Components
  /\ HealthProbes \in BOOLEAN
  /\ Crashes \in BOOLEAN
  /\ Faults \subseteq {"live", "replay", "observer", "storage"}

VARIABLES
  mon,      \* the monitor record of RuntimeOps
  now,      \* the clock
  ingest,   \* for each slot the await its call is at, and what it decided
  replay,   \* #activeReplayOperation: the await it is at, its batch, progress
  handled   \* history: rows whose delivery handler has completed
vars == <<mon, now, ingest, replay, handled>>

NoIngest == [at |-> "none", row |-> 0, action |-> "accept"]
\* A replay operation holds the ids of its batch with their ingest times, and
\* those of them whose handlers have completed.
Nothing == [i \in {} |-> 0]
ReplayAt(at, batch, done) == [at |-> at, batch |-> batch, done |-> done]
NoReplay == ReplayAt("none", Nothing, {})

Init ==
  /\ mon = Opened(EmptyReservoir, 0)
  /\ now = 0
  /\ ingest = [s \in Slots |-> NoIngest]
  /\ replay = NoReplay
  /\ handled = {}

-----------------------------------------------------------------------------
(* ingest                                                                  *)

IngestOver(s) == ingest' = [ingest EXCEPT ![s] = NoIngest]

\* Up to the first await: the decision is taken and the event is stored.
Ingest(s) ==
  /\ ingest[s].at = "none"
  /\ mon.res.seq < MaxRows
  /\ Admits(mon, EventBytes)
  /\ \E ingestedAt \in EventTimes :
       mon' = Ingested(mon, EventBytes, IngestTime(ingestedAt, now))
  /\ ingest' = [ingest EXCEPT ![s] =
       [at |-> "onDecision", row |-> mon'.res.seq, action |-> IngressAction(mon)]]
  /\ UNCHANGED <<now, replay, handled>>

\* onDecision resolves: the event is announced as buffered, or its delivery
\* begins.  The decision may be old by now.
DecisionObserved(s) ==
  /\ ingest[s].at = "onDecision"
  /\ ingest' = [ingest EXCEPT ![s].at =
       IF ingest[s].action = "buffer_only" THEN "onBuffered" ELSE "deliver"]
  /\ UNCHANGED <<mon, now, replay, handled>>

BufferedObserved(s) ==
  /\ ingest[s].at = "onBuffered"
  /\ IngestOver(s)
  /\ UNCHANGED <<mon, now, replay, handled>>

\* The handler completes and the row is acknowledged.
LiveDelivered(s) ==
  /\ ingest[s].at = "deliver"
  /\ handled' = handled \cup {ingest[s].row}
  /\ \/ mon' = RowsDelivered(mon, {ingest[s].row}, now)
     \/ "storage" \in Faults /\ mon' = mon
  /\ IngestOver(s)
  /\ UNCHANGED <<now, replay>>

\* A handler rejects: the row stays as it is.
IngestFails(s) ==
  /\ \/ ingest[s].at = "deliver" /\ "live" \in Faults
     \/ ingest[s].at \in {"onDecision", "onBuffered"} /\ "observer" \in Faults
  /\ IngestOver(s)
  /\ UNCHANGED <<mon, now, replay, handled>>

-----------------------------------------------------------------------------
(* pumpReplayBatch and reconcileRecovery                                   *)

ReplayOver == replay' = NoReplay

BatchEntries(ids) == [i \in ids |-> mon.res.rows[i].ingestAt]

\* The synchronous head of #pumpReplayBatchInternal, starting from m.
Pump(m) ==
  \/ /\ ClaimAllowed(m, now)
     /\ mon' = BatchClaimed(m, BatchSize, now)
     /\ replay' = ReplayAt("claimNotify",
                           BatchEntries(ReplayBatch(m, BatchSize, now)), {})
  \/ /\ ~ClaimAllowed(m, now)
     /\ mon' = ClaimRejected(m, now)
     /\ ReplayOver
  \/ /\ "storage" \in Faults /\ TargetsOnline(m)
     /\ mon' \in ClaimInterrupted(m, now)
     /\ ReplayOver

PumpReplayBatch ==
  /\ replay.at = "none"
  /\ Pump(mon)
  /\ UNCHANGED <<now, ingest, handled>>

Restartable == mon.session.state \in {"idle", "failed", "completed"}

\* The early returns of #reconcileRecoveryInternal.
ReconcileProceeds ==
  /\ Backlog(mon) # 0
  /\ mon.session.state = "idle" =>
       mon.needed /\ mon.observed /\ EligibleRows(mon.res) # {}
  /\ mon.session.state = "completed" => EligibleRows(mon.res) # {}
  /\ Restartable => RecoveryConfirmed(mon)

ReconcileRecovery ==
  /\ replay.at = "none"
  /\ ReconcileProceeds
  /\ \/ /\ Restartable
        /\ \/ /\ mon' = QueueIfNeeded(mon, now)
              /\ replay' = ReplayAt("queueNotify", Nothing, {})
           \/ "storage" \in Faults /\ mon' = mon /\ ReplayOver
     \/ mon.session.state \in {"queued", "running"} /\ Pump(mon)
  /\ UNCHANGED <<now, ingest, handled>>

QueueNotified ==
  /\ replay.at = "queueNotify"
  /\ IF mon.session.state \in {"queued", "running"}
     THEN Pump(mon) ELSE ReplayOver /\ UNCHANGED mon
  /\ UNCHANGED <<now, ingest, handled>>

ClaimNotified ==
  /\ replay.at = "claimNotify"
  /\ replay' = IF DOMAIN replay.batch = {} THEN ReplayAt("lastNotify", Nothing, {})
               ELSE [replay EXCEPT !.at = "deliver"]
  /\ UNCHANGED <<mon, now, ingest, handled>>

\* Row i is the one in progress: ORDER BY ingest time, rowid.
InProgress(i) ==
  \A j \in DOMAIN replay.batch \ replay.done :
    \/ replay.batch[i] < replay.batch[j]
    \/ replay.batch[i] = replay.batch[j] /\ i <= j

\* The catch block: the attempted rows go back, the session fails.
ReplayFailed(m, ids) ==
  \/ mon' = Fail(m, ids, now) /\ replay' = ReplayAt("lastNotify", Nothing, {})
  \/ "storage" \in Faults /\ mon' \in FailPrefixes(m, ids, now) /\ ReplayOver

\* A handler completes: the next row follows, or the batch is acknowledged.
ReplayDelivered ==
  /\ replay.at = "deliver"
  /\ \E i \in DOMAIN replay.batch \ replay.done :
       LET done == replay.done \cup {i}
       IN  /\ InProgress(i)
           /\ handled' = handled \cup {i}
           /\ IF done # DOMAIN replay.batch
              THEN replay' = [replay EXCEPT !.done = done] /\ UNCHANGED mon
              ELSE \/ /\ mon' = AcknowledgeBatch(mon, done, now)
                      /\ replay' = ReplayAt("ackNotify", replay.batch, done)
                   \/ /\ "storage" \in Faults
                      /\ \E m \in AcknowledgePrefixes(mon, done, now) :
                           ReplayFailed(m, done)
  /\ UNCHANGED <<now, ingest>>

\* Mutant: the catch block settles what was tried, the rejected row included.
ReplayRejectedSettled ==
  /\ replay.at = "deliver"
  /\ "replay" \in Faults
  /\ \E i \in DOMAIN replay.batch \ replay.done :
       InProgress(i) /\ mon' = RowsDelivered(mon, replay.done \cup {i}, now)
  /\ ReplayOver
  /\ UNCHANGED <<now, ingest, handled>>

\* It rejects: the rows tried so far, its own included, go back.
ReplayRejected ==
  /\ replay.at = "deliver"
  /\ "replay" \in Faults
  /\ \E i \in DOMAIN replay.batch \ replay.done :
       InProgress(i) /\ ReplayFailed(mon, replay.done \cup {i})
  /\ UNCHANGED <<now, ingest, handled>>

LastNotified ==
  /\ replay.at \in {"ackNotify", "lastNotify"}
  /\ ReplayOver
  /\ UNCHANGED <<mon, now, ingest, handled>>

\* onReplayStateChange rejects.  After an acknowledgement that is still inside
\* the try block, so that the delivered batch is failed.
NotifyRejected ==
  /\ "observer" \in Faults
  /\ \/ /\ replay.at \in {"queueNotify", "claimNotify", "lastNotify"}
        /\ ReplayOver
        /\ UNCHANGED mon
     \/ /\ replay.at = "ackNotify"
        /\ ReplayFailed(mon, DOMAIN replay.batch)
  /\ UNCHANGED <<now, ingest, handled>>

-----------------------------------------------------------------------------
(* The rest of the process and its environment.                            *)

UpdateComponentHealth(component, state) ==
  /\ \/ mon' = HealthUpdated(mon, component, state, now)
     \/ "storage" \in Faults /\ mon' \in HealthPrefixes(mon, component, state, now)
  /\ UNCHANGED <<now, ingest, replay, handled>>

ObserveHeartbeat(component) ==
  /\ \/ mon' = HeartbeatSeen(mon, component, now)
     \/ "storage" \in Faults /\ mon' \in HeartbeatPrefixes(mon, component, now)
  /\ UNCHANGED <<now, ingest, replay, handled>>

RefreshHealthStates ==
  /\ HealthProbes
  /\ \/ mon' = HealthRefreshed(mon, now)
     \/ "storage" \in Faults /\ mon' = RefreshTracked(mon, now)
  /\ UNCHANGED <<now, ingest, replay, handled>>

PruneReservoir ==
  /\ \/ mon' = Pruned(mon, now)
     \/ "storage" \in Faults /\ mon' \in PrunePrefixes(mon, now)
  /\ UNCHANGED <<now, ingest, replay, handled>>

Tick == now < MaxTime /\ now' = now + 1 /\ UNCHANGED <<mon, ingest, replay, handled>>

\* The process dies, whatever it was awaiting, and a new one opens the file.
Crash ==
  /\ Crashes /\ now < MaxTime
  /\ mon' = Opened(mon.res, now)
  /\ ingest' = [s \in Slots |-> NoIngest]
  /\ replay' = NoReplay
  /\ UNCHANGED <<now, handled>>

LiveStep(s) ==
  \/ DecisionObserved(s)
  \/ BufferedObserved(s)
  \/ LiveDelivered(s)

\* What the application's handlers answer to a replay operation.
ReplayStep == QueueNotified \/ ClaimNotified \/ ReplayDelivered \/ LastNotified

\* Failures stop while there is time left for the retry.
Failure ==
  /\ now + RetryBackoff <= MaxTime
  /\ \/ \E s \in Slots : IngestFails(s)
     \/ ReplayRejected
     \/ NotifyRejected

Environment ==
  \/ \E report \in HealthReports : UpdateComponentHealth(report[1], report[2])
  \/ \E component \in HeartbeatsFrom : ObserveHeartbeat(component)
  \/ RefreshHealthStates
  \/ PruneReservoir
  \/ Tick
  \/ Crash

\* Replay driven by reconciliation alone, as MonitorScheduler drives it.
ScheduledNext ==
  \/ \E s \in Slots : Ingest(s) \/ LiveStep(s)
  \/ ReconcileRecovery
  \/ ReplayStep
  \/ Failure
  \/ Environment

Next == ScheduledNext \/ PumpReplayBatch

Spec == Init /\ [][Next]_vars
ScheduledSpec == Init /\ [][ScheduledNext]_vars

\* Handlers answer, the scheduler keeps ticking, the application keeps
\* reporting heartbeats, time passes.
Fairness ==
  /\ \A s \in Slots : WF_vars(LiveStep(s))
  /\ WF_vars(ReplayStep)
  /\ WF_vars(ReconcileRecovery)
  /\ \A component \in Components :
       WF_vars(component \in HeartbeatsFrom /\ ObserveHeartbeat(component))
  /\ WF_vars(Tick)
FairSpec == ScheduledSpec /\ Fairness

-----------------------------------------------------------------------------
Awaits == {"none", "onDecision", "onBuffered", "deliver"}
ReplayAwaits ==
  {"none", "queueNotify", "claimNotify", "deliver", "ackNotify", "lastNotify"}

\* Every variable has its type, and a replay batch holds ids of stored rows.
TypeOK ==
  /\ IsMonitor(mon)
  /\ now \in Nat
  /\ ingest \in [Slots -> [at: Awaits, row: 0..mon.res.seq,
                           action: {"accept", "buffer_only"}]]
  /\ replay.at \in ReplayAwaits
  /\ DOMAIN replay.batch \subseteq 1..mon.res.seq
  /\ replay.done \subseteq DOMAIN replay.batch
  /\ handled \subseteq 1..mon.res.seq

\* No row is written off as delivered whose handler has not completed, however
\* live deliveries, replay, retention, failures and restarts interleave.
DeliveredOnlyAfterHandler ==
  \A i \in DOMAIN mon.res.rows :
    mon.res.rows[i].state = "delivered" => i \in handled

\* The gate that holds live flow back never opens over a backlog: not when
\* heartbeats, failures, restarts, pruning or late acknowledgements of live
\* deliveries fall between the last claim and the confirmation after it.
GateOpensOnlyWhenDrained ==
  [][GateClosed(mon) /\ ~GateClosed(mon') => Backlog(mon') = 0]_vars

Claimed == IF replay'.at = "claimNotify" /\ replay.at # "claimNotify"
           THEN DOMAIN replay'.batch ELSE {}

\* Replay never overtakes: when a batch is claimed, no open row that was
\* stored before one of its rows is left behind.
ReplayNeverOvertakes ==
  [][\A i \in Claimed : \A j \in InState(mon'.res.rows, PendingStates) \ Claimed :
       LET earlier == mon'.res.rows[i].ingestAt
           later == mon'.res.rows[j].ingestAt
       IN  earlier < later \/ (earlier = later /\ i < j)]_vars

\* docs/schema-compatibility.md: terminal rows do not return to replay.
TerminalRowsStayTerminal ==
  [][\A i \in DOMAIN mon.res.rows \cap DOMAIN mon'.res.rows :
       mon.res.rows[i].state \in TerminalStates =>
         mon'.res.rows[i].state \in TerminalStates]_vars

\* A settled row is taken up again only when the very batch that holds it
\* fails: by no other delivery, claim, reclaim, retention or restart.
ReopenedOnlyByItsBatch ==
  [][\A i \in DOMAIN mon.res.rows \cap DOMAIN mon'.res.rows :
       /\ mon.res.rows[i].state \in TerminalStates
       /\ mon'.res.rows[i].state \notin TerminalStates
       => i \in DOMAIN replay.batch /\ replay'.at \in {"lastNotify", "none"}]_vars

\* The books as the adapter keeps them.
L == INSTANCE Ledger WITH
       Forgetful <- DeadLetterRetention = 0,
       open <- InState(mon.res.rows, PendingStates),
       settled <- InState(mon.res.rows, TerminalStates),
       mark <- mon.res.seq,
       backlog <- Backlog(mon)

\* Whatever calls interleave, fail in the middle or die, an event that was
\* accepted stays on the books until it is settled, and the backlog that the
\* routing and the gate go by is the number of those that are open.
ImplementsLedger == L!Spec

\* Once both targets stay online every accepted row is settled, delivered or
\* given up by retention, through retries of failed batches, confirmations
\* that start over and restarts, provided no live delivery handler rejects.
AcceptedEventuallySettled ==
  <>[]TargetsOnline(mon) => []<>(InState(mon.res.rows, PendingStates) = {})
=============================================================================
