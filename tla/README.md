# Formal models of causal-order-monitor

A monitor sits between a transport and two downstream components, `dedupe` and
`causal-order`. It stores every event it accepts in an SQLite file, passes it on
when the targets are healthy, keeps it when they are not, and replays what it
kept once they have recovered. This directory holds TLA+ models of that program,
the TLC configurations that check them, and TLAPS proofs.

Paths below are relative to `src/src/`, the package's own source, unless they begin
with `scripts/` or `docs/`.

## Inventory

| Part | State it keeps | Operations | Interacts through |
|---|---|---|---|
| Reservoir (`storage/SQLiteReservoir.ts`) | table `ingress_events`, aggregate row `reservoir_capacity_state`, cached `#pendingRowCount`, reserve latch | append, claim, mark delivered, reset, dead-letter, reclaim, prune, restart recovery | synchronous calls; SQLite transactions; storage evidence reader |
| Schema (`storage/schema.ts`) | the file: version, tables, columns, totals | create, three migrations, validation | called when a reservoir is opened |
| Health tracker (`health/HealthTracker.ts`) | per component: state, time of last evidence | report, heartbeat, refresh | called by the runtime |
| Replay coordinator (`replay/ReplayCoordinator.ts`) | one session snapshot, written to the file before it is taken over | queue, start, claim, acknowledge, fail, abort, complete, count confirmations | calls the reservoir |
| Router, throttle (`routing/`, `throttle/`) | none | decide action, delivery mode, tier | called by the runtime |
| Monitor runtime (`runtime/MonitorRuntime.ts`) | recovery flags, startup evidence, owner of replay | ingest, health, prune, replay commands, close | composes all of the above synchronously |
| Adapter (`transport/TransportMonitorAdapter.ts`) | `#activeReplayOperation`, the locals of suspended calls | `ingest`, `pumpReplayBatch`, `reconcileRecovery`, `close` | awaits handlers of the application |
| Scheduler (`scheduler/MonitorScheduler.ts`) | status, timer, active tick, last times | start, stop, tick | calls the adapter at intervals |
| Lifecycle dispatcher (`lifecycle/LifecycleDispatcher.ts`) | bounded queue of observations, subscribers, flush waiters | subscribe, publish, flush, close | microtasks; feeds nothing back |
| Boundary (`boundary.ts`) | none | errors, classification, admission decision | answers to the producers |
| Configuration (`config.ts`, `types/config.ts`) | none | parse, merge, resolve | read once, before a runtime is made |
| Inspection (`inspect/`, `storage/storagePressure.ts`) | none | a second reading of the runtime's snapshot | shown to operators |
| Contracts (`scripts/`) | a parent and a child process; an upstream queue, phases, a simulated sink | kill at a gate, inspect, restart; emit, refuse, retry, drain | drive the package as an application does |

The runtime is synchronous: a call is atomic except for a write that throws in
the middle of it. Concurrency enters with the adapter, which suspends at every
await of an application handler while other calls run, with the scheduler's
timers, and with several workers of an application that replays by itself. What
is hard, and what makes each part correct:

* **Reservoir.** The totals are maintained by deltas, apart from the rows they
  count, and the cached count apart from both, so every transition and every
  failure must move all three together. Ids must not be reused, columns must not
  outlive the state they belong to, retention must not give up what is young or
  in flight, claims must follow ingest order.
* **Schema.** Whatever an older release left behind becomes a file that the
  start accepts, with every event in it; a file that is refused is not touched.
* **Health.** Suspicion not before the threshold, but for the lateness of reports.
* **Replay.** The gate that holds live flow opens only over an empty backlog;
  retries do not let younger rows pass; a claim is a lease with one owner; every
  accepted row is settled in the end.
* **Adapter.** A row is settled as delivered only after its handler completed,
  whatever happens at the awaits; what is terminal stays terminal.
* **Boundary.** A producer that goes by the answers neither loses its event nor
  gets it in twice.
* **Scheduler and dispatcher.** Ticks do not overlap unless a callback of a tick
  asks for another one, a running scheduler stays alive, one duty does not starve
  another, nothing is stranded in the queue.
* **Contracts.** A process killed anywhere leaves a file from before or after its
  operation; what a full monitor refuses and what it holds together lose nothing
  until all is drained.
* **Configuration, inspection.** Sources override each other in the documented
  order; what is shown agrees with what is decided.

`PROJECT.json` lists the hazards at their lines with the properties that cover
them.

## Modules

| Module | Models |
|---|---|
| `Ledger` | abstract: what the reservoir, and the adapter over it, promise to those who hand them events |
| `ReservoirOps` | every reservoir operation as an operator from a reservoir value to a reservoir value |
| `Reservoir` | the reservoir alone: operations in any order, failing transactions, restarts, a changing filesystem; implements `Ledger` |
| `SchemaOps` | the file, its migrations and its validation |
| `HealthOps`, `HealthTracker` | the tracker's table, and the tracker alone under late reports |
| `ReplayOps` | the coordinator as operators on a record with the fields `res` and `session` |
| `RuntimeOps` | router, throttle and runtime on the monitor record, which adds health and flags |
| `TransportMonitor` | the adapter over the runtime, cut at its awaits; implements `Ledger` |
| `BoundaryOps` | the errors: code, outcome, whether to retry |
| `IngressBoundary` | producers in front of `TransportMonitor`, which it extends; closing and opening the adapter |
| `ConfigOps` | which keys a file may have, what a parser returns, the merges |
| `OperatorOps` | the inspector's reading of the monitor record, and storage pressure |
| `MonitorProcess` | a process that configures itself, opens and upgrades its file, replays by hand with several workers, closes and dies |
| `LifecycleOps` | the dispatcher as operators on a record |
| `MonitorScheduler`, `MonitorService` | the scheduler's actions; scheduler and dispatcher in one process with an application |
| `CrashBoundary` | `scripts/crash-boundary-contract.mjs` and its child process over `ReservoirOps`, with the rows the script expects |
| `Qualification` | `scripts/monitor-phase6-soak.mjs` over `RuntimeOps` |
| `MC...` | constant values for TLC |
| `ReservoirLemmas`, `RuntimeLemmas` | what the operators keep, for the proofs |
| `...Proofs` | theorems about the module of that name (`AdapterProofs` about `TransportMonitor`, `BoundaryProofs` about `IngressBoundary`, `ServiceProofs` about `MonitorService`, `ProcessProofs` about `MonitorProcess`) |

Components that call each other synchronously are composed as operators, since a
whole call tree is one step; awaits separate the steps.

**Reservoir.** A row keeps ingest time, size, delivery mode, state, retry, claim
and terminal time: the columns the SQL predicates read. `pendingRows` and
`pendingBytes` are the aggregate row, `cached` is `#pendingRowCount`, `seq` the
AUTOINCREMENT mark. `MoveRows` is the delta arithmetic of the
`#readCapacityDelta...` methods: only rows whose pending class flips count.
`First` is `ORDER BY key, rowid LIMIT n`. A transaction is done, rolled back, or
ended by SQLite itself: then the `ROLLBACK` of `SQLiteReservoir.ts:1428` throws and
the cached count is not read back. The history variable `drift` sums up what such
transactions meant to change. `Reclaim` may stop between its passes and `Prune` between
its transactions.

**Runtime.** A method that writes several times has an operator for success and
one, `...Prefixes`, for the states it can leave behind when a write throws. Where
the code sets no recovery flag (heartbeats, refreshes) the model sets none. A row's
ingest time is the one its event gives (`EventTimes`), else the time it is stored:
the runtime passes no `monitorIngestAt` of its own. The windows and the order of
replay go by it.

**Health.** `aliveAt` is a history variable, the latest time any evidence of life
was given for; `delay` is by how much the last report was late, whose time is what
the tracker goes by.

**Adapter.** `ingest[s]` is the await at which a call of `ingest` hangs, with the
row and the decision it carries over that await. `replay` is
`#activeReplayOperation`: `queueNotify`, `claimNotify`, `ackNotify` and
`lastNotify` are awaits of `onReplayStateChange`, `deliver` that of
`deliverToDedupe`. `handled` is a history variable. A crash drops all of these
and opens the file again.

**Boundary.** A producer is a slot of the adapter with one event. `told` is the
answer it has; `stored`, a history variable, the rows its event was ever stored
in. A definite rejection is believed and retried where it says so; after an
indeterminate outcome, an unrecognized error or a lost answer the producer looks
in storage first, as `docs/operator-runbook.md` tells it to, within
`ReconcileWithin`. After `Close` the
suspended calls go on (`detached`) and find the adapter closed. There
`AutoRolledBack` is the error path of `SQLiteReservoir.ts:1428`.

**Process.** `phase` follows a start: configured, perhaps migrating inside one
transaction (`work` is what it sees, `file` what a death would leave), up. The
files of older releases have their version's columns, whose absence is `lacks`;
some also lack parts they should have. `held` is what each worker of the
application has claimed and may answer at any time later. Both owners of replay
are played, so that their exclusion is tested and not assumed.

**Service.** A run of `#runTick` has a synchronous head, up to its first await, and
`#activeTick` is assigned only when the head has returned
(`MonitorScheduler.ts:95-96`). `heads` are the runs whose head has not: where it
reaches a callback (the health probe, the adapter's `onReplayStateChange` inside
`reconcileRecovery`, `onError` after a pruning that threw) the application may start,
stop and tick the scheduler, publish, flush or close, and finds `#activeTick` as it
was. A tick asked for there begins a run within (`within` of its record), and a stop
closes the adapter and resolves while the run goes on. `InHead` unwinds them in the
order of the stack; timers, settled promises and the clock wait for that. When the
inner run has done a duty, what the outer one will find due changes (`Overtaken`).
All times are relative: an age up to the interval, a timer and a
retry deadline as time that remains. This makes the state finite without a bound
on the clock. A tick publishes an observation, a close closes the dispatcher.

**Contracts.** `CrashBoundary` has the IPC channel as two sequences and cuts the
child at each message and each transaction, `pruneExpired` being two of them. What
the script expects of each boundary is copied case by case from it (`Expected`,
`ExpectedRecovery`) and knows nothing of the reservoir's operators, so that the two
are held against each other.

In `Qualification` the script's loop is atomic between its delays, since whatever
it awaits there resolves without a timer; the scheduler ticks within a delay, and
the clock advances where one ends, by no more than one unit, as a delay is shorter
than a phase. One source node is followed, whose events are numbers. Emissions
follow from the clock; which of them repeat an earlier event is free, up to
`MaxDuplicates`. No phase has only dedupe offline, so one set `seen` stands for
what dedupe and order have seen. Left out are pruning (a run is shorter than any
window, and a claim takes back stale claims itself), the interruption by a signal,
samples, checkpoints, resource limits and reports.

Operators whose comment begins with "Mutant" are variants of the definition after
them, used to confirm that a property notices the bug they contain. No action
uses them, but for `AutoRolledBack`, which is also an outcome of its own.

## Runs

| Run | Checks | Shows |
|---|---|---|
| `reservoir_accounting` | `TypeOK`, `AccountingExact`, `CachedCountExact`, `ImplementsLedger`, `RowIdsNeverReused` | totals, cache, ids and the abstract ledger over all public operations, transactions rolled back or ended by SQLite, and restarts |
| `reservoir_retention` | `RowLifecycleConsistent`, `PostureAgreesWithAdmission`, `RetentionRespected`, `ClaimsInIngestOrder` | columns, windows, order and the reported posture over the runtime's calls, with limits and reserve |
| `health_thresholds` | `NoPrematureSuspicion` | no timeout comes earlier than the last report was late |
| `adapter_safety` | `TypeOK`, `DeliveredOnlyAfterHandler`, `GateOpensOnlyWhenDrained`, `ReopenedOnlyByItsBatch`, `ImplementsLedger` | interleavings with every kind of failure and restarts, and that they keep the books of the ledger |
| `adapter_order` | `ReplayNeverOvertakes` | retries keep the order while the process lives |
| `adapter_liveness` | `AcceptedEventuallySettled` | recovery ends with every row settled |
| `ingress_boundary` | `BoundaryTypeOK`, `AnswersAreTrue`, `StoredOnce` | answers are true and safe to act on |
| `service` | `TypeOK`, `TicksSerialized`, `RunningIsAlive`, `NoLostWakeup`, `SubscriberCountExact`, `StopIsQuiet`, `DrainedMeansSettled`, `PruningRecurs` | scheduler and dispatcher under restarts, failures, closing and callbacks in the head of a run |
| `process` | `TypeOK`, `ConfigPrecedence`, `NeverBricked`, `OpenedSound`, `ReplayUnderOneOwner`, `LeaseRespected`, `HeldFlowIsShown`, `RestartKeepsEvents`, `RefusedUntouched` | configuration, upgrade, manual replay and inspection over several lives of a process |
| `crash_boundary` | `CharacterizationPasses` | a death anywhere leaves what the script expects, and recovery follows from it |
| `qualification` | `QualificationPasses` | what the script asserts of its run holds over every interleaving, except the order of events |
| `config_partial` | `DefaultsKept`, violated | a section given in part loses its other defaults |

The last two properties that pass say what their scripts say when they end, and
are conjunctions of parts. `CharacterizationPasses` is the types, `AllOrNothing`,
`BoundaryExact`, `RecoveryExact` and `ResultWithheld` in every state, and that no
scenario hangs (`ScenarioEnds`). `QualificationPasses` is the types, `NothingLost`
and `CapacityKept` in every state, `DeadlineKept` and `RestartPreserves` of every
step, and that the final drain ends.

**Bounds.** `MaxRows` bounds appends, `MaxTime` the clock, `MaxDrift` how far the
cached count may run away, in either direction in `Reservoir`, `MaxDelay` how late a
health report is. Two rows give
every case the properties tell apart: same class or not in one bulk transition,
older and younger, one in a batch and one outside, one settled while the other
waits. `reservoir_*` also uses two or three sizes, so that bytes and rows differ.
`PruneBatchSize = 1` makes a loop of two passes out of two rows. In
`reservoir_retention` the clock reaches past each window and past one retry, and
windows differ by one so that boundaries are told apart; in
`reservoir_accounting`, where a deletion matters and its time does not, one step
of the clock makes everything expire. One live call and one replay operation interleave in
the adapter runs (the code admits only one replay operation); several live calls
compete in `ingress_boundary`, where two producers are symmetric and a third has
an event over the limit. Every producer may close, die and retry over both rows,
so that a second copy would be seen. `EventTimes` has the time 0 beside none in
`ingress_boundary`, `adapter_order` and `process`, which an event stored later gives
as one of the past. `process` has two workers, which are symmetric, since a lease
involves two, files of every version with a row in each state the upgrade treats
differently, and two lives are enough to meet every file the first can leave.
`service` has two slots of ticks and two calls of `stop`, which is what it takes
for two of either to overlap, a subscriber, a flush, and a queue of one, which a
second observation overflows. All intervals are one unit and a retry may wait for
two, so that a delay taken from the retry is longer than the intervals. `Applications`
has two: one that subscribes, flushes and stops twice at once but whose callbacks
leave the monitor alone, and one whose callbacks call it, with one stop; so heads
within heads do not multiply with everything else. Which of them it is, is chosen
initially. A callback that ticks in the head of every run it begins recurses in the code
until the stack is full; the slots bound that.

In `TransportMonitor` a process dies only before `MaxTime` and handlers fail only
while the retry still fits under it; otherwise the bounded clock would make
retries wait for ever.

The `crash_boundary` run is at the script's own values, in thousands.
`qualification` has phases of zero to two units (the first is entered as the loop
starts and is over at once, the repeated order outage is left to the first one), a
capacity of two rows, batches of two and one duplicate, which is what it takes to
refuse, fail, restart and refill.

Deadlock is checked in every run but `qualification`, whose script ends.

**Fairness.** All of it is weak, except in `service` and `qualification`.

* `adapter_liveness`: handlers answer (`LiveStep`, `ReplayStep`), the scheduler
  keeps calling `reconcileRecovery` (its timer is re-armed after every tick,
  `MonitorScheduler.ts:106-109`; that it is, in every case, is `RunningIsAlive`),
  the application keeps sending heartbeats, time passes. Nothing is assumed of
  ingestion, prunes, refreshes or reports. The property's premise, that both
  targets stay online from some time on, is what the application must provide.
  Live handlers do not reject in this run: such a row keeps the mode `normal`, is
  not eligible for recovery replay, and is left to the caller that got the error.
* `service`: timers fire, what a tick awaits settles one way or the other, time
  passes, callbacks return. All but the last are strong, since the head of a run
  holds the event loop up: what is due waits while the head runs and goes on after
  it, and heads come again and again. That they cannot come so densely that the
  rest starves is what an event loop provides, which takes every due timer and
  settled promise in turn. Nothing is assumed of the application, also not that it
  ticks or stops. The premises of `PruningRecurs`
  are that the scheduler stays running, the adapter open, and that ticks stop
  failing: a probe that always rejects does starve the pruning.
* `crash_boundary`: both processes run, and a signal that was sent arrives.
* `qualification`: the loop goes on (weak); the scheduler ticks and the clock moves
  within delays that come again and again, so these two are strong: a delay may end
  without a tick, but the timer that is shorter than the drain does fire in one.

## What is proved

For all values of the constants that satisfy the named assumptions, hence for
tables, clocks, batches, queues and numbers of callers of any size:

| Module | Theorems |
|---|---|
| `ReservoirProofs` | `TypeCorrect`, `AccountingCorrect`, `CachedCountCorrect`, `RowIdsUnique`, `LedgerImplemented`, `RowsConsistent`, `RetentionCorrect`, `ClaimsOrdered`, `PostureHonest` |
| `HealthTrackerProofs` | `SuspicionJustified` |
| `AdapterProofs` | `TypeCorrect`, `DeliveredCorrect`, `GateCorrect`, `NeverOvertakes`, `OnlyBatchesReopen`, `SettledForGood`, `LedgerKept` |
| `BoundaryProofs` | `BoundaryTypeCorrect`, `AnswersTrue`, `OnceStored` |
| `ServiceProofs` | `TypeCorrect`, `SerializedTicks`, `AliveWhileRunning`, `NothingStranded`, `CountExact`, `QuietStop`, `DrainedIsSettled` |
| `ProcessProofs` | `TypeCorrect`, `PrecedenceKept`, `FilesAccepted`, `OpenedFilesSound`, `RefusalsHarmless`, `EventsKept`, `OneOwner`, `LeasesHold`, `HoldsShown` |

Three theorems have a hypothesis beyond the modules' assumptions:

* `RetentionCorrect` assumes that the full-outage window is at least the rolling
  one. No code checks this, and with a shorter one pruning gives rows up early.
* `NeverOvertakes` assumes that the process lives and that no write and no
  `onReplayStateChange` fails; delivery handlers may. Without it younger rows do
  pass older ones: see the observations below.
* `SettledForGood` states `TerminalRowsStayTerminal`, which TLC finds violated
  without the hypothesis, by a batch that fails while it holds a row delivered
  live. It assumes that no replay handler, no
  `onReplayStateChange` and no write fails; live handlers may, and the process
  may die. So the theorem and `OnlyBatchesReopen`, which needs no hypothesis,
  bound the violation from both sides: it takes a failing batch, and that batch
  reopens its own rows only.

`CachedCountCorrect` and `LedgerImplemented` have none: they include the
transactions that SQLite ends itself, and say by how much the cached count is off
then (`drift`), and that nothing else is. In `LedgerKept`, about
`TransportMonitor`, a write that fails is rolled back by the explicit `ROLLBACK`;
what follows for producers if SQLite ends the transaction itself is in
`IngressBoundary`.

`OnceStored` rests on `BoundaryAssumption`: a producer looks an open outcome up
within `ReconcileWithin` of the time it was stored, or of the earlier time that its
event gives, and retention keeps rows that long. The window of an event that gives an
older time may be over when it is stored; of such an event the theorem says nothing.

`ProcessAssumption` says what a file of an earlier release may hold
(`ReleasedRow`): claim, retry and terminal times only in the states they belong
to. Those releases are not in the repository; that the current one leaves its
files like that is part of the invariant, so the assumption carries from one life
to the next.

The arguments:

* **Reservoir.** `AccountingExact` is not inductive alone. The delta of a
  transition is read from the table before the update, so its correctness needs
  the rows to have their types and the table to be finite; the byte total, a
  cardinality of a union of byte sets, needs each row's contribution to be finite
  and disjoint. `ReservoirLemmas` has the arithmetic of totals
  (`TotalBytesUnion`, `TotalBytesOne`, `TotalBytesSame`), the step that every
  transition reduces to, and one lemma per operation. The refinement of `Ledger`
  and the uniqueness of ids follow from what kinds of steps there are at all.
* **Retention.** Every step is shown to move each row only along edges of its
  life cycle, with the times that belong to them; the four properties are read
  off those edges.
* **Health.** The invariant adds that a component's heartbeat time is not ahead of
  the clock, and behind the latest evidence of life by at most the delay of the last
  report, whatever late reports and earlier refreshes did to it; so the silence that
  a refresh measures exceeds the real one by at most that delay.
* **Adapter.** `DeliveredOnlyAfterHandler` needs that what a delivery loop counts
  as done is in `handled` as long as the loop may acknowledge it, and that ids are
  never reused, hence the type of the table. `NeverOvertakes` rests on `OrderInv`:
  when a claim may be made next, no open row still waits for a backoff of its own,
  except those in the hands of the delivery loop, which waits no longer than the
  session it fails. A claim in ingest order then leaves nothing older behind. The
  gate needs that every
  operator of `RuntimeOps` which leaves a closed gate leaves no backlog;
  `RuntimeLemmas` has that once for each. For the ledger every step is of one of
  three kinds: it reopens nothing and at most strikes off settled rows or gives up
  open ones (`Keeping`); it enters one row (`Accepting`); or it ends a batch that
  failed, which may reopen that batch's rows (`Failing`). The kinds compose along a call tree
  (`ReopensTwice`, `StrikesAfter` in `RuntimeLemmas`), and the properties of
  reopening are read off them. That the reported backlog is the number of open
  rows needs the exact totals and the exact cache of the invariant in every state
  a failing write leaves behind.
* **Boundary.** `BoundaryInv` adds two facts of each producer to the adapter's
  invariant. What it was told agrees with what was stored (`Honest`): a definite
  rejection stored nothing, an acceptance or an indeterminate outcome did. And its
  one row is there, with its time of ingest, or has outlived `ReconcileWithin`
  (`Found`). The second needs that no operation of the runtime, in success or on
  any path that a throwing write cuts short, removes a row or moves its time
  otherwise; `RuntimeLemmas` has that for each of them (`Stays`).
* **Service.** The types, the pending callback of a running scheduler and the awake
  dispatcher with its exact count are inductive together with what is known of heads
  (`HeadsKept`): one that has not returned is of a run in progress, and when all have
  returned, a run that no callback began is the one `activeTick` names. So whoever
  finds it null outside a head finds no such run. That a scheduler is alive rests on
  the run whose end re-arms it, which is the active one or still in its head; that a
  stop is quiet, on a stopped scheduler having no timer (`TimerRuns`).
* **Process.** A file is sound if it is of the current version only with right
  totals. While an upgrade is open, what its transaction sees is sound, holds the
  events of the file on disk, and either both have all that their releases gave
  them, or a migration is about to throw, or the file is the exempt one
  (`WorkInv`). So a start that comes to nothing has written nothing, but to the exempt
  file, of which `RewrittenInVain` says what it has become.
  `FilesAccepted` unfolds the at most three migrations of a sound file. Replay has
  one owner because whatever is held is held for the owner that is bound.
  `OpenedSound` needs the columns of the rows across releases (`ColumnsInv`). A
  lease that no abort revoked guards its rows (`LeaseInv`): until its backoff is
  over, each of them is still claimed since then, is terminal, or waits for a
  retry at a later time, so nobody else can claim it before. `HoldsShown` is a case
  split over the session states in which live flow is held (`HoldShown`).

Every invariant and action property of a passing run of the components is stated by
a theorem. Only model-checked are

* the liveness properties `AcceptedEventuallySettled` and `PruningRecurs`, since
  fairness is beyond the prover;
* `CharacterizationPasses` and `QualificationPasses`, which are statements about one
  scripted run at given values and end in a liveness part;
* `DefaultsKept`, which is violated.

## Finding

`config.ts:573`. A configuration file that gives one key of a section replaces
the defaults of its other keys with undefined (`config_partial`).

Observations made while modelling, which no run claims:

* A timeout to degraded counts as a heartbeat (`HealthTracker.ts:131`), so that a
  silent component which is refreshed between its thresholds never stays offline.
* Terminal rows can return to pending (`SQLiteReservoir.ts:978`, against
  `docs/schema-compatibility.md:36`), by a failing batch that holds a row delivered
  live, or by a rejected notification after the acknowledgement.
* A replay operation is noted only after its synchronous head, which ends in
  `onReplayStateChange` (`TransportMonitorAdapter.ts:463`); a handler that calls
  `pumpReplayBatch` starts a second operation beside it, although
  `docs/api-reference.md:9` says that such calls coalesce. The models have handlers
  that do not call back.
* A restart with part of the backlog in retry wait resumes at once and passes the
  waiting rows (`ReplayCoordinator.ts:54`), against what
  `scripts/monitor-phase6-soak.mjs:625` asserts of the order.
* Objects with a reserved key are stored as a list of entries, in which an undefined
  property becomes null (`SQLiteReservoir.ts:324`) instead of being omitted, as
  `docs/persistence-operations.md:63` says.
* Outages that only `refreshHealthStates` noticed set no recovery flags
  (`MonitorRuntime.ts:733`), and what they buffered is not replayed. With
  `HealthReports = {}`, `HealthProbes = TRUE` and thresholds of 1 and 2 for the
  targets `AcceptedEventuallySettled` fails. The same holds of rows buffered by
  conservative startup, or because the transport is offline.
* When SQLite ends a transaction itself, the ROLLBACK of `SQLiteReservoir.ts:1428`
  throws: the cached count is not read back and drifts further each time, by exactly
  what `CachedCountExact` says, until an explicit rollback or a restart; the
  error that is thrown is the ROLLBACK's and has no stable code, and the refusal
  is reported as a failed serialization.
* A file of version 2 without the retry or terminal columns is rewritten to version
  3 before the full check refuses it (`schema.ts:656`), against
  `docs/schema-compatibility.md:11`. Its events stay; `RefusedUntouched` says what
  it becomes (`RewrittenInVain`).
* An event that exceeds `maxPendingSerializedBytes` by itself is refused as
  retryable for ever where no per-event limit is set (`boundary.ts:174`), and so is
  every event where a limit is zero. The models give this answer; no property is
  claimed of it.
* The outcome of an indeterminate ingest can be looked up only as long as
  retention keeps the row. The windows count from the `ingestedAt` of the event if it
  gives one (`SQLiteReservoir.ts:435`), so that the next pruning gives an old event
  up and only `DeadLetterRetention` keeps its row; a producer that then finds it
  absent stores it again. `ReconcileWithin` is counted from that time.
* A late report moves a component's time back (`HealthTracker.ts:78`), so that a
  refresh suspects it before its threshold has passed since the latest evidence, by
  up to the delay of the report.
* A health probe, an `onReplayStateChange` or an `onError` that calls `tick()` before
  its run has first awaited begins a second run beside it, since `#activeTick` is
  assigned only then (`MonitorScheduler.ts:95-96`); one that calls `stop()` has the
  adapter closed and the stop resolved in the middle of the run.
* `stop()` on a stopped scheduler without an active tick resolves and leaves the
  adapter open, whatever `closeAdapterOnStop` says (`MonitorScheduler.ts:81`).
* A failed session keeps the gate closed after its backoff until the next
  reconciliation, but the operational state shows `healthy_live` then
  (`inspectMonitorSnapshot.ts:25-40`), beside a status of `attention_required` and
  an admission that does say that events are buffered.
* `stop()` awaited by a health probe waits for itself. `start()` during a `stop()`
  leaves a running scheduler on a closed adapter. A stop whose tick failed by a
  throwing `onError` does not close the adapter.
* Unsubscribing after `close()` takes the reported count of subscribers to -1.
* `abortReplay` by a late worker takes rows from the worker that has them now.
  `startReplay` does not look at the retry backoff.
* A live delivery whose decision was taken before a drain can begin during it
  (`TransportMonitorAdapter.ts:157`). A session left `failed` whose rows
  were then settled by retention keeps the gate closed until new rows arrive.
* A rejecting `onReplayStateChange` after a health report is an unhandled
  rejection, since nothing awaits it (`TransportMonitorAdapter.ts:125`).

## Not modelled

* What a WAL checkpoint does to the files, session and health history kept for
  inspection, attempt counters except in `CrashBoundary`, how payloads are
  serialized, log and error texts, recommended actions
  (they go with the codes), the inspector's counts, ages and percentages.
* Throttle tiers other than the pause of a bypass with too large a backlog: rates
  and batch sizes are reported and read by nothing. A `defaultTier` of `paused` is
  not considered.
* How a duration, a byte limit or a number is parsed: a value is valid or not.
* The adapter model has no filesystem reserve, which `Reservoir` covers, and its
  failing writes are rolled back. Transactions that SQLite ends itself are in
  `IngressBoundary`, for ingestion, and in `Reservoir`, for every operation.
* Two processes on one file, which the documentation rules out.
* `testing/` is tables of constants; `migrateLegacySchema` is called by nothing.
* `scripts/` (about 11000 lines, over half of the repository's code), except for the
  two contracts above: they drive the package through sequences that the models of
  the components contain, measure it, or check how it is packaged. They are read as
  documentation of intended behaviour.
