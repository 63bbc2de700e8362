--------------------------- MODULE AdapterProofs ----------------------------
(***************************************************************************)
(* The adapter over its runtime, for every configuration, any number of    *)
(* concurrent deliveries, any batch size, every fault and every crash: no  *)
(* row is written off that was not delivered, and the gate that holds live *)
(* flow back opens over no backlog.  And without crashes and faults of     *)
(* storage or observers, replay never overtakes.                           *)
(***************************************************************************)
EXTENDS TransportMonitor, RuntimeLemmas

IngestType ==
  ingest \in [Slots -> [at: Awaits, row: 0..mon.res.seq,
                        action: {"accept", "buffer_only"}]]
ReplayType ==
  /\ replay \in [at: ReplayAwaits, batch: {replay.batch}, done: {replay.done}]
  /\ DOMAIN replay.batch \subseteq 1..mon.res.seq
  /\ replay.done \subseteq DOMAIN replay.batch

IngestSound == \A s \in Slots : ingest[s].at # "none" => ingest[s].row # 0

\* Before and within the delivery loop, whose acknowledgement is still to come.
LoopAwaits == {"claimNotify", "deliver"}

\* The inductive invariant.  What the delivery loop has counted as done lives
\* in the operation alone until the batch is acknowledged.
IInv ==
  /\ SoundMon(mon)
  /\ now \in Nat
  /\ IngestType
  /\ IngestSound
  /\ ReplayType
  /\ handled \subseteq 1..mon.res.seq
  /\ DeliveredRows(mon.res) \subseteq handled
  /\ replay.at \in LoopAwaits => replay.done \subseteq handled

\* While the cached count is right, it stays so, and the gate opens over no
\* backlog.
Counted == Drift(mon.res) = 0
GateRule ==
  Counted => Counted' /\ (GateClosed(mon) /\ ~GateClosed(mon') => Backlog(mon') = 0)

-----------------------------------------------------------------------------
(* What most steps have in common.                                         *)

\* A step of the runtime that writes off what has been handled at most.
LEMMA RuntimeStep ==
  ASSUME IInv, NEW ids, Keeps(mon, mon', ids), ids \subseteq handled',
         handled \subseteq handled', handled' \subseteq 1..mon.res.seq
  PROVE  /\ SoundMon(mon')
         /\ mon'.res.seq = mon.res.seq
         /\ handled' \subseteq 1..mon'.res.seq
         /\ DeliveredRows(mon'.res) \subseteq handled'
         /\ GateRule
<1>1. SoundMon(mon') /\ mon'.res.seq = mon.res.seq
  BY DEF IInv, Keeps, Moves
<1>2. DeliveredRows(mon'.res) \subseteq handled'
  BY DEF IInv, Keeps, Moves
<1>3. GateRule
  <2>1. Counted => Counted'
    BY DEF Keeps, Moves, Counted
  <2>2. QED
    BY <1>1, <2>1, GateKept DEF GateRule, Counted, Keeps
<1>4. QED
  BY <1>1, <1>2, <1>3

\* Such a step that leaves the rest alone, or ends the replay operation.
LEMMA MonitorStep ==
  ASSUME IInv, Keeps(mon, mon', {}), UNCHANGED <<now, ingest, handled>>,
         \/ replay' = replay
         \/ \E at \in ReplayAwaits : replay' = ReplayAt(at, Nothing, {})
  PROVE  IInv' /\ GateRule
<1>1. handled \subseteq 1..mon.res.seq /\ handled' = handled
  BY DEF IInv
<1>2. /\ SoundMon(mon') /\ mon'.res.seq = mon.res.seq
      /\ handled' \subseteq 1..mon'.res.seq
      /\ DeliveredRows(mon'.res) \subseteq handled'
      /\ GateRule
  BY <1>1, RuntimeStep
<1>3. IngestType' /\ IngestSound'
  BY <1>2 DEF IInv, IngestType, IngestSound
<1>4. ReplayType' /\ (replay'.at \in LoopAwaits => replay'.done \subseteq handled')
  <2>1. CASE replay' = replay
    BY <1>1, <1>2, <2>1 DEF IInv, ReplayType
  <2>2. CASE \E at \in ReplayAwaits : replay' = ReplayAt(at, Nothing, {})
    BY <1>2, <2>2 DEF ReplayType, ReplayAt, Nothing
  <2>3. QED
    BY <2>1, <2>2
<1>5. now' \in Nat
  BY DEF IInv
<1>6. QED
  BY <1>1, <1>2, <1>3, <1>4, <1>5, Zenon DEF IInv

LEMMA NoReplayForm ==
  /\ NoReplay = ReplayAt("none", Nothing, {})
  /\ {"none", "queueNotify", "lastNotify"} \subseteq ReplayAwaits
  BY DEF NoReplay, ReplayAwaits

-----------------------------------------------------------------------------
(* Replay operations.                                                      *)

LEMMA PumpStep ==
  ASSUME IInv, Pump(mon), UNCHANGED <<now, ingest, handled>>
  PROVE  IInv' /\ GateRule
<1>1. SoundMon(mon) /\ now \in Nat
  BY DEF IInv
<1>2. CASE /\ ClaimAllowed(mon, now)
           /\ mon' = BatchClaimed(mon, BatchSize, now)
           /\ replay' = ReplayAt("claimNotify",
                                 BatchEntries(ReplayBatch(mon, BatchSize, now)), {})
  <2> DEFINE ids == ReplayBatch(mon, BatchSize, now)
  <2>1. Keeps(mon, mon', {}) /\ ids \subseteq 1..mon.res.seq
    BY <1>1, <1>2, BatchClaimedKeeps
  <2> HIDE DEF ids
  <2>2. /\ SoundMon(mon') /\ mon'.res.seq = mon.res.seq
        /\ handled' \subseteq 1..mon'.res.seq
        /\ DeliveredRows(mon'.res) \subseteq handled'
        /\ GateRule
    BY <2>1, RuntimeStep DEF IInv
  <2>3. IngestType' /\ IngestSound'
    BY <2>2 DEF IInv, IngestType, IngestSound
  <2>4. replay' = ReplayAt("claimNotify", BatchEntries(ids), {})
    BY <1>2 DEF ids
  <2>5. DOMAIN BatchEntries(ids) = ids
    BY DEF BatchEntries
  <2>6. ReplayType' /\ replay'.done = {}
    BY <2>1, <2>2, <2>4, <2>5 DEF ReplayType, ReplayAt, ReplayAwaits
  <2>7. QED
    BY <1>1, <2>2, <2>3, <2>6 DEF IInv
<1>3. CASE mon' = ClaimRejected(mon, now) /\ ReplayOver
  BY <1>1, <1>3, BatchClaimedKeeps, NoReplayForm, MonitorStep DEF ReplayOver
<1>4. CASE mon' \in ClaimInterrupted(mon, now) /\ ReplayOver
  BY <1>1, <1>4, BatchClaimedKeeps, NoReplayForm, MonitorStep DEF ReplayOver
<1>5. QED
  BY <1>2, <1>3, <1>4 DEF Pump

\* The catch block, after an acknowledgement of done rows at most.
LEMMA FailedStep ==
  ASSUME IInv, NEW m, NEW ids, NEW jds, Keeps(mon, m, ids), m.session = mon.session,
         ids \subseteq handled', handled \subseteq handled',
         handled' \subseteq 1..mon.res.seq,
         ReplayFailed(m, jds), UNCHANGED <<now, ingest>>
  PROVE  IInv' /\ GateRule
<1>1. SoundMon(m) /\ now \in Nat
  BY DEF IInv, Keeps
<1>2. Keeps(m, mon', {})
  BY <1>1, FailKeeps DEF ReplayFailed
<1>3. Keeps(mon, mon', ids)
  <2>1. Keeps(mon, mon', ids \cup {})
    BY <1>2, KeepsThen
  <2>2. ids \cup {} = ids
    OBVIOUS
  <2>3. QED
    BY <2>1, <2>2
<1>4. /\ SoundMon(mon') /\ mon'.res.seq = mon.res.seq
      /\ handled' \subseteq 1..mon'.res.seq
      /\ DeliveredRows(mon'.res) \subseteq handled'
      /\ GateRule
  BY <1>3, RuntimeStep
<1>5. replay' = ReplayAt("lastNotify", Nothing, {}) \/ replay' = ReplayAt("none", Nothing, {})
  BY NoReplayForm DEF ReplayFailed, ReplayOver
<1>6. ReplayType' /\ replay'.done = {}
  BY <1>5 DEF ReplayType, ReplayAt, ReplayAwaits, Nothing
<1>7. IngestType' /\ IngestSound'
  BY <1>4 DEF IInv, IngestType, IngestSound
<1>8. QED
  BY <1>1, <1>4, <1>6, <1>7 DEF IInv

LEMMA DeliveredStep == ASSUME IInv, ReplayDelivered PROVE IInv' /\ GateRule
<1>1. PICK i \in DOMAIN replay.batch \ replay.done :
        LET done == replay.done \cup {i}
        IN  /\ handled' = handled \cup {i}
            /\ \/ done # DOMAIN replay.batch
                  /\ replay' = [replay EXCEPT !.done = done] /\ UNCHANGED mon
               \/ mon' = AcknowledgeBatch(mon, done, now)
                  /\ replay' = ReplayAt("ackNotify", replay.batch, done)
               \/ \E m \in AcknowledgePrefixes(mon, done, now) : ReplayFailed(m, done)
  BY Zenon DEF ReplayDelivered
<1> DEFINE done == replay.done \cup {i}
<1>2. /\ replay.at = "deliver" /\ UNCHANGED <<now, ingest>>
      /\ SoundMon(mon) /\ now \in Nat
  BY DEF ReplayDelivered, IInv
<1>3. /\ handled' = handled \cup {i} /\ handled \subseteq handled'
      /\ done \subseteq handled' /\ handled' \subseteq 1..mon.res.seq
      /\ done \subseteq DOMAIN replay.batch
  BY <1>1, <1>2 DEF IInv, ReplayType, LoopAwaits
<1>4. CASE replay' = [replay EXCEPT !.done = done] /\ UNCHANGED mon
  <2>1. Keeps(mon, mon', {})
    BY <1>2, <1>4, KeepsNot
  <2>2. /\ SoundMon(mon') /\ mon'.res.seq = mon.res.seq
        /\ handled' \subseteq 1..mon'.res.seq
        /\ DeliveredRows(mon'.res) \subseteq handled'
        /\ GateRule
    BY <1>3, <2>1, RuntimeStep
  <2>3. /\ replay' = [at |-> "deliver", batch |-> replay.batch, done |-> done]
        /\ "deliver" \in ReplayAwaits
    BY <1>2, <1>4 DEF IInv, ReplayType, ReplayAwaits
  <2> HIDE DEF done
  <2>4. ReplayType' /\ replay'.done \subseteq handled'
    BY <1>3, <2>2, <2>3 DEF IInv, ReplayType
  <2>5. IngestType' /\ IngestSound'
    BY <1>2, <2>2 DEF IInv, IngestType, IngestSound
  <2>6. QED
    BY <1>2, <2>2, <2>4, <2>5 DEF IInv
<1>5. CASE /\ mon' = AcknowledgeBatch(mon, done, now)
           /\ replay' = ReplayAt("ackNotify", replay.batch, done)
  <2>1. Keeps(mon, mon', done)
    BY <1>2, <1>5, AcknowledgeKeeps
  <2>2. /\ SoundMon(mon') /\ mon'.res.seq = mon.res.seq
        /\ handled' \subseteq 1..mon'.res.seq
        /\ DeliveredRows(mon'.res) \subseteq handled'
        /\ GateRule
    BY <1>3, <2>1, RuntimeStep
  <2> HIDE DEF done
  <2>3. ReplayType' /\ replay'.at \notin LoopAwaits
    BY <1>3, <1>5, <2>2 DEF IInv, ReplayType, ReplayAt, ReplayAwaits, LoopAwaits
  <2>4. IngestType' /\ IngestSound'
    BY <1>2, <2>2 DEF IInv, IngestType, IngestSound
  <2>5. QED
    BY <1>2, <2>2, <2>3, <2>4 DEF IInv
<1>6. ASSUME NEW m \in AcknowledgePrefixes(mon, done, now), ReplayFailed(m, done)
      PROVE  IInv' /\ GateRule
  <2>1. Keeps(mon, m, done) /\ m.session = mon.session
    BY <1>2, AcknowledgeKeeps
  <2> HIDE DEF done
  <2>2. QED
    BY <1>2, <1>3, <1>6, <2>1, FailedStep
<1>7. QED
  BY <1>1, <1>4, <1>5, <1>6

LEMMA RejectedStep == ASSUME IInv, ReplayRejected PROVE IInv' /\ GateRule
<1>1. PICK i \in DOMAIN replay.batch \ replay.done :
        ReplayFailed(mon, replay.done \cup {i})
  BY Zenon DEF ReplayRejected
<1>2. UNCHANGED <<now, ingest, handled>> /\ SoundMon(mon) /\ handled \subseteq 1..mon.res.seq
  BY DEF ReplayRejected, IInv
<1>3. Keeps(mon, mon, {})
  BY <1>2, KeepsNot
<1>4. QED
  BY <1>1, <1>2, <1>3, FailedStep

LEMMA NotifyRejectedStep == ASSUME IInv, NotifyRejected PROVE IInv' /\ GateRule
<1>1. UNCHANGED <<now, ingest, handled>> /\ SoundMon(mon) /\ handled \subseteq 1..mon.res.seq
  BY DEF NotifyRejected, IInv
<1>2. Keeps(mon, mon, {})
  BY <1>1, KeepsNot
<1>3. CASE ReplayOver /\ UNCHANGED mon
  BY <1>1, <1>2, <1>3, NoReplayForm, MonitorStep DEF ReplayOver
<1>4. CASE ReplayFailed(mon, DOMAIN replay.batch)
  BY <1>1, <1>2, <1>4, FailedStep
<1>5. QED
  BY <1>3, <1>4 DEF NotifyRejected

LEMMA ReconcileStep == ASSUME IInv, ReconcileRecovery PROVE IInv' /\ GateRule
<1>1. UNCHANGED <<now, ingest, handled>> /\ SoundMon(mon) /\ now \in Nat
  BY DEF ReconcileRecovery, IInv
<1>2. CASE mon' = QueueIfNeeded(mon, now) /\ replay' = ReplayAt("queueNotify", Nothing, {})
  <2>1. Keeps(mon, mon', {})
    BY <1>1, <1>2, QueueKeeps
  <2>2. QED
    BY <1>1, <1>2, <2>1, NoReplayForm, MonitorStep
<1>3. CASE mon' = mon /\ ReplayOver
  BY <1>1, <1>3, KeepsNot, NoReplayForm, MonitorStep DEF ReplayOver
<1>4. CASE Pump(mon)
  BY <1>1, <1>4, PumpStep
<1>5. QED
  BY <1>2, <1>3, <1>4 DEF ReconcileRecovery

\* The rest of an operation's awaits.
LEMMA NotifiedStep ==
  ASSUME IInv, QueueNotified \/ ClaimNotified \/ LastNotified
  PROVE  IInv' /\ GateRule
<1>1. UNCHANGED <<now, ingest, handled>> /\ SoundMon(mon)
  BY DEF QueueNotified, ClaimNotified, LastNotified, IInv
<1>2. Keeps(mon, mon, {})
  BY <1>1, KeepsNot
<1>3. CASE Pump(mon)
  BY <1>1, <1>3, PumpStep
<1>4. CASE ReplayOver /\ UNCHANGED mon
  BY <1>1, <1>2, <1>4, NoReplayForm, MonitorStep DEF ReplayOver
<1>5. CASE ClaimNotified /\ replay' = ReplayAt("lastNotify", Nothing, {})
  <2>1. UNCHANGED mon
    BY <1>5 DEF ClaimNotified
  <2>2. QED
    BY <1>1, <1>2, <1>5, <2>1, NoReplayForm, MonitorStep
<1>6. CASE ClaimNotified /\ replay' = [replay EXCEPT !.at = "deliver"]
  \* A batch enters its loop with nothing done.
  <2>1. UNCHANGED mon /\ replay.at \in LoopAwaits
    BY <1>6 DEF ClaimNotified, LoopAwaits
  <2>2. /\ SoundMon(mon') /\ mon'.res.seq = mon.res.seq
        /\ handled' \subseteq 1..mon'.res.seq
        /\ DeliveredRows(mon'.res) \subseteq handled'
        /\ GateRule
    BY <1>1, <1>2, <2>1, RuntimeStep DEF IInv
  <2>3. replay' = [at |-> "deliver", batch |-> replay.batch, done |-> replay.done]
    BY <1>6 DEF IInv, ReplayType
  <2>4. ReplayType' /\ replay'.done \subseteq handled'
    BY <1>1, <2>1, <2>2, <2>3 DEF IInv, ReplayType, ReplayAwaits
  <2>5. IngestType' /\ IngestSound'
    BY <1>1, <2>2 DEF IInv, IngestType, IngestSound
  <2>6. QED
    BY <1>1, <2>2, <2>4, <2>5 DEF IInv
<1>7. QED
  BY <1>3, <1>4, <1>5, <1>6 DEF QueueNotified, ClaimNotified, LastNotified

-----------------------------------------------------------------------------
(* Live deliveries.                                                        *)

\* The ingest time is any, not only the current one.
LEMMA IngestedAtSome ==
  ASSUME IInv, NEW s \in Slots, Ingest(s)
  PROVE  \E t \in Nat : mon' = Ingested(mon, EventBytes, t)
<1>1. PICK at \in EventTimes : mon' = Ingested(mon, EventBytes, IngestTime(at, now))
  BY DEF Ingest
<1>2. IngestTime(at, now) \in Nat
  BY AdapterAssumption DEF IInv, IngestTime, OptionalNat
<1>3. QED
  BY <1>1, <1>2

LEMMA IngestSteps ==
  ASSUME IInv, NEW s \in Slots, Ingest(s)
  PROVE  IInv' /\ GateRule
<1>0. PICK t \in Nat : mon' = Ingested(mon, EventBytes, t)
  BY IngestedAtSome
<1>1. /\ SoundMon(mon) /\ now \in Nat /\ EventBytes \in Nat
      /\ UNCHANGED <<now, replay, handled>>
  BY AdapterAssumption DEF Ingest, IInv
<1>2. /\ SoundMon(mon') /\ mon'.session = mon.session
      /\ Drift(mon'.res) = Drift(mon.res) /\ mon'.res.seq = mon.res.seq + 1
      /\ DeliveredRows(mon'.res) \subseteq DeliveredRows(mon.res)
  BY <1>0, <1>1, IngestedSound DEF IInv
<1>3. mon.res.seq \in Nat
  BY <1>1, MonitorParts
<1>4. IngressAction(mon) \in {"accept", "buffer_only"}
  BY DEF Ingest, Admits, IngressAction, RoutedAction
<1>5. ingest' = [ingest EXCEPT ![s] =
        [at |-> "onDecision", row |-> mon'.res.seq, action |-> IngressAction(mon)]]
  BY DEF Ingest
<1>6. /\ 1..mon.res.seq \subseteq 1..mon'.res.seq
      /\ 0..mon.res.seq \subseteq 0..mon'.res.seq
      /\ mon'.res.seq \in 0..mon'.res.seq /\ mon'.res.seq # 0
  BY <1>2, <1>3
<1>7. IngestType' /\ IngestSound'
  BY <1>4, <1>5, <1>6, Zenon DEF IInv, IngestType, IngestSound, Awaits
<1>8. ReplayType' /\ (replay'.at \in LoopAwaits => replay'.done \subseteq handled')
  BY <1>1, <1>6 DEF IInv, ReplayType
<1>9. GateRule
  BY <1>2, GateKept DEF GateRule, Counted, SessionKept
<1>10. QED
  BY <1>1, <1>2, <1>6, <1>7, <1>8, <1>9 DEF IInv

\* A delivery that goes on to at, or is over.
LEMMA SlotMoves ==
  ASSUME IInv, NEW s \in Slots, mon'.res.seq = mon.res.seq,
         \/ IngestOver(s)
         \/ /\ ingest[s].at # "none"
            /\ \E at \in Awaits : ingest' = [ingest EXCEPT ![s].at = at]
  PROVE  IngestType' /\ IngestSound'
<1>1. mon.res.seq \in Nat
  BY MonitorParts DEF IInv
<1>2. NoIngest \in [at: Awaits, row: 0..mon.res.seq, action: {"accept", "buffer_only"}]
  BY <1>1 DEF NoIngest, Awaits
<1>3. CASE IngestOver(s)
  BY <1>2, <1>3 DEF IngestOver, IInv, IngestType, IngestSound, NoIngest
<1>4. ASSUME ingest[s].at # "none", NEW at \in Awaits, ingest' = [ingest EXCEPT ![s].at = at]
      PROVE  IngestType' /\ IngestSound'
  BY <1>4 DEF IInv, IngestType, IngestSound
<1>5. QED
  BY <1>3, <1>4

LEMMA LiveSteps ==
  ASSUME IInv, NEW s \in Slots, LiveStep(s) \/ IngestFails(s)
  PROVE  IInv' /\ GateRule
<1>1. SoundMon(mon) /\ now \in Nat /\ handled \subseteq 1..mon.res.seq
  BY DEF IInv
<1>2. CASE UNCHANGED mon /\ UNCHANGED <<now, replay, handled>> /\ IngestType' /\ IngestSound'
  <2>1. Keeps(mon, mon', {})
    BY <1>1, <1>2, KeepsNot
  <2>2. /\ SoundMon(mon') /\ mon'.res.seq = mon.res.seq
        /\ handled' \subseteq 1..mon'.res.seq
        /\ DeliveredRows(mon'.res) \subseteq handled'
        /\ GateRule
    BY <1>1, <1>2, <2>1, RuntimeStep
  <2>3. ReplayType' /\ (replay'.at \in LoopAwaits => replay'.done \subseteq handled')
    BY <1>2, <2>2 DEF IInv, ReplayType
  <2>4. QED
    BY <1>1, <1>2, <2>2, <2>3 DEF IInv
<1>3. CASE DecisionObserved(s)
  <2>1. PICK at \in Awaits : ingest' = [ingest EXCEPT ![s].at = at]
    BY <1>3 DEF DecisionObserved, Awaits
  <2>2. UNCHANGED <<mon, now, replay, handled>> /\ ingest[s].at # "none"
    BY <1>3 DEF DecisionObserved
  <2>3. QED
    BY <1>2, <2>1, <2>2, SlotMoves
<1>4. CASE BufferedObserved(s) \/ IngestFails(s)
  <2>1. UNCHANGED <<mon, now, replay, handled>> /\ IngestOver(s)
    BY <1>4 DEF BufferedObserved, IngestFails
  <2>2. QED
    BY <1>2, <2>1, SlotMoves
<1>5. CASE LiveDelivered(s)
  <2> DEFINE row == ingest[s].row
  <2>1. /\ ingest[s].at = "deliver" /\ handled' = handled \cup {row}
        /\ IngestOver(s) /\ UNCHANGED <<now, replay>>
        /\ mon' = RowsDelivered(mon, {row}, now) \/ mon' = mon
    BY <1>5 DEF LiveDelivered
  <2>2. row \in 1..mon.res.seq
    <3>1. mon.res.seq \in Nat
      BY <1>1, MonitorParts
    <3>2. row \in 0..mon.res.seq /\ row # 0
      BY <2>1 DEF IInv, IngestType, IngestSound
    <3>3. QED
      BY <3>1, <3>2
  <2> HIDE DEF row
  <2>3. Keeps(mon, mon', {row})
    BY <1>1, <2>1, DeliveredKeeps, KeepsNot
  <2>4. {row} \subseteq handled' /\ handled \subseteq handled' /\ handled' \subseteq 1..mon.res.seq
    BY <1>1, <2>1, <2>2
  <2>5. /\ SoundMon(mon') /\ mon'.res.seq = mon.res.seq
        /\ handled' \subseteq 1..mon'.res.seq
        /\ DeliveredRows(mon'.res) \subseteq handled'
        /\ GateRule
    BY <2>3, <2>4, RuntimeStep
  <2>6. ReplayType' /\ (replay'.at \in LoopAwaits => replay'.done \subseteq handled')
    BY <2>1, <2>4, <2>5 DEF IInv, ReplayType
  <2>7. IngestType' /\ IngestSound'
    BY <2>1, <2>5, SlotMoves
  <2>8. QED
    BY <1>1, <2>1, <2>5, <2>6, <2>7 DEF IInv
<1>6. QED
  BY <1>3, <1>4, <1>5 DEF LiveStep

-----------------------------------------------------------------------------
(* The environment.                                                        *)

LEMMA HealthSteps ==
  ASSUME IInv,
         \/ \E report \in HealthReports : UpdateComponentHealth(report[1], report[2])
         \/ \E component \in HeartbeatsFrom : ObserveHeartbeat(component)
         \/ RefreshHealthStates
         \/ PruneReservoir
  PROVE  IInv' /\ GateRule
<1>1. SoundMon(mon) /\ now \in Nat
  BY DEF IInv
<1>2. ASSUME NEW report \in HealthReports, UpdateComponentHealth(report[1], report[2])
      PROVE  Keeps(mon, mon', {}) /\ UNCHANGED <<now, ingest, replay, handled>>
  <2>1. report[1] \in Components /\ report[2] \in HealthStates
    BY AdapterAssumption
  <2>2. QED
    BY <1>1, <1>2, <2>1, HealthKeeps DEF UpdateComponentHealth
<1>3. ASSUME NEW component \in HeartbeatsFrom, ObserveHeartbeat(component)
      PROVE  Keeps(mon, mon', {}) /\ UNCHANGED <<now, ingest, replay, handled>>
  <2>1. component \in Components
    BY AdapterAssumption
  <2>2. QED
    BY <1>1, <1>3, <2>1, HeartbeatKeeps DEF ObserveHeartbeat
<1>4. CASE RefreshHealthStates
  <2>1. Keeps(mon, mon', {}) /\ UNCHANGED <<now, ingest, replay, handled>>
    BY <1>1, <1>4, RefreshKeeps DEF RefreshHealthStates
  <2>2. QED
    BY <2>1, MonitorStep
<1>5. CASE PruneReservoir
  <2>1. Keeps(mon, mon', {}) /\ UNCHANGED <<now, ingest, replay, handled>>
    BY <1>1, <1>5, PruneKeeps DEF PruneReservoir
  <2>2. QED
    BY <2>1, MonitorStep
<1>6. QED
  BY <1>2, <1>3, <1>4, <1>5, MonitorStep

LEMMA TickStep == ASSUME IInv, Tick PROVE IInv' /\ GateRule
<1>1. UNCHANGED <<mon, ingest, replay, handled>> /\ now' \in Nat
  BY DEF Tick, IInv
<1>2. GateRule
  BY <1>1 DEF GateRule, Counted
<1>3. IngestType' /\ IngestSound' /\ ReplayType'
  BY <1>1 DEF IInv, IngestType, IngestSound, ReplayType
<1>4. QED
  BY <1>1, <1>2, <1>3 DEF IInv

LEMMA FreshOperations ==
  ASSUME mon'.res.seq \in Nat, ingest' = [s \in Slots |-> NoIngest], replay' = NoReplay
  PROVE  IngestType' /\ IngestSound' /\ ReplayType' /\ replay'.done = {}
  BY DEF IngestType, IngestSound, ReplayType, NoIngest, NoReplay, ReplayAt, Nothing,
         Awaits, ReplayAwaits

LEMMA CrashStep == ASSUME IInv, Crash PROVE IInv' /\ GateRule
<1>1. /\ mon' = Opened(mon.res, now) /\ UNCHANGED <<now, handled>>
      /\ ingest' = [s \in Slots |-> NoIngest] /\ replay' = NoReplay
      /\ Good(mon.res) /\ now \in Nat
  BY DEF Crash, IInv, SoundMon
<1>2. /\ SoundMon(mon') /\ Moves(mon.res, mon'.res, {})
      /\ mon'.session.state \in OpenStates => mon'.res.cached = 0
  BY <1>1, OpenedKeeps
<1>3. Keeps(mon, mon', {})
  BY <1>2 DEF Keeps, SessionKept
<1>4. handled \subseteq 1..mon.res.seq /\ {} \subseteq handled' /\ handled' = handled
  BY <1>1 DEF IInv
<1>5. /\ mon'.res.seq = mon.res.seq
      /\ handled' \subseteq 1..mon'.res.seq
      /\ DeliveredRows(mon'.res) \subseteq handled'
      /\ GateRule
  BY <1>3, <1>4, RuntimeStep
<1>6. mon'.res.seq \in Nat
  BY <1>2, MonitorParts
<1>7. IngestType' /\ IngestSound' /\ ReplayType' /\ replay'.done = {}
  BY <1>1, <1>6, FreshOperations
<1>8. QED
  BY <1>1, <1>2, <1>5, <1>7 DEF IInv

-----------------------------------------------------------------------------
(* The invariant and what follows from it.                                 *)

LEMMA Initially == Init => IInv /\ Counted
<1>1. SUFFICES ASSUME Init PROVE IInv /\ Counted
  OBVIOUS
<1>2. Good(EmptyReservoir) /\ EmptyReservoir.seq = 0 /\ DOMAIN EmptyReservoir.rows = {}
  BY EmptyGood DEF EmptyReservoir
<1>3. /\ SoundMon(mon) /\ Drift(mon.res) = 0 /\ Moves(EmptyReservoir, mon.res, {})
  BY <1>1, <1>2, OpenedKeeps DEF Init
<1>4. mon.res.seq = 0 /\ DeliveredRows(mon.res) = {}
  BY <1>2, <1>3 DEF Moves, DeliveredRows, InState
<1>5. /\ now = 0 /\ handled = {}
      /\ ingest = [s \in Slots |-> NoIngest] /\ replay = NoReplay
  BY <1>1 DEF Init
<1>6. IngestType /\ IngestSound
  BY <1>4, <1>5 DEF IngestType, IngestSound, NoIngest, Awaits
<1>7. ReplayType /\ replay.done = {}
  BY <1>4, <1>5 DEF ReplayType, NoReplay, ReplayAt, Nothing, ReplayAwaits
<1>8. QED
  BY <1>3, <1>4, <1>5, <1>6, <1>7 DEF IInv, Counted

LEMMA StepKeeps == ASSUME IInv, [Next]_vars PROVE IInv' /\ GateRule
<1>1. CASE UNCHANGED vars
  <2>1. UNCHANGED <<mon, now, ingest, replay, handled>>
    BY <1>1 DEF vars
  <2>2. SoundMon(mon) /\ SoundMon(mon')
    BY <2>1 DEF IInv
  <2>3. Keeps(mon, mon', {})
    BY <2>1, <2>2, KeepsNot
  <2>4. QED
    BY <2>1, <2>3, MonitorStep
<1>2. ASSUME NEW s \in Slots, Ingest(s) \/ LiveStep(s)  PROVE IInv' /\ GateRule
  BY <1>2, IngestSteps, LiveSteps
<1>3. CASE ReconcileRecovery
  BY <1>3, ReconcileStep
<1>4. CASE ReplayStep
  BY <1>4, NotifiedStep, DeliveredStep DEF ReplayStep
<1>5. CASE Failure
  BY <1>5, LiveSteps, RejectedStep, NotifyRejectedStep DEF Failure
<1>6. CASE Environment
  BY <1>6, HealthSteps, TickStep, CrashStep DEF Environment
<1>7. CASE PumpReplayBatch
  BY <1>7, PumpStep DEF PumpReplayBatch
<1>8. QED
  BY <1>1, <1>2, <1>3, <1>4, <1>5, <1>6, <1>7 DEF Next, ScheduledNext

THEOREM Invariant == Spec => [](IInv /\ Counted)
<1>1. IInv /\ Counted /\ [Next]_vars => IInv' /\ Counted'
  BY StepKeeps DEF GateRule
<1>2. QED
  BY Initially, <1>1, PTL DEF Spec

\* Type correctness.
THEOREM TypeCorrect == Spec => []TypeOK
<1>1. IInv => TypeOK
  BY DEF IInv, TypeOK, SoundMon, IngestType, ReplayType
<1>2. QED
  BY <1>1, Invariant, PTL

\* Whatever interleaves, a row is written off as delivered only after the
\* delivery handler of the application has completed for it.
THEOREM DeliveredCorrect == Spec => []DeliveredOnlyAfterHandler
<1>1. IInv => DeliveredOnlyAfterHandler
  BY DEF IInv, DeliveredOnlyAfterHandler, DeliveredRows, InState
<1>2. QED
  BY <1>1, Invariant, PTL

\* The gate that holds live flow back opens only when nothing is left to replay.
THEOREM GateCorrect == Spec => GateOpensOnlyWhenDrained
<1>1. IInv /\ Counted /\ [Next]_vars =>
        [GateClosed(mon) /\ ~GateClosed(mon') => Backlog(mon') = 0]_vars
  BY StepKeeps DEF GateRule
<1>2. QED
  BY <1>1, Invariant, PTL DEF Spec, GateOpensOnlyWhenDrained

-----------------------------------------------------------------------------
(* Replay in order.                                                        *)

\* The rows an operation is about to deliver.
Handed == IF replay.at \in LoopAwaits THEN DOMAIN replay.batch ELSE {}
\* The time the next claim waits for.
Cutoff == IF mon.session.state = "failed" THEN mon.session.retryAt ELSE now

\* At the time a claim may be made next, no row still waits for its own
\* backoff, except those that are being delivered.
OrderInv ==
  /\ mon.session.state = "failed" => mon.session.retryAt \in Nat
  /\ Handed # {} => mon.session.state = "running"
  /\ \A i \in DOMAIN mon.res.rows :
       Due(mon.res.rows[i], IF i \in Handed THEN now + RetryBackoff ELSE Cutoff)

InOrder ==
  \A i \in Claimed : \A j \in InState(mon'.res.rows, PendingStates) \ Claimed :
    LET earlier == mon'.res.rows[i].ingestAt
        later == mon'.res.rows[j].ingestAt
    IN  earlier < later \/ (earlier = later /\ i < j)

LEMMA CutoffType == ASSUME IInv, OrderInv PROVE Cutoff \in Nat
  BY DEF IInv, OrderInv, Cutoff

LEMMA RowsTyped == ASSUME IInv PROVE \A i \in DOMAIN mon.res.rows : mon.res.rows[i] \in Row
  BY MonitorParts, ReservoirFacts DEF IInv

\* What a step has to respect.
LEMMA OrderKept ==
  ASSUME IInv, IInv', OrderInv, now' = now, NEW taken,
         Rests(mon.res, mon'.res, {}, taken, now),
         mon'.session.state = "failed" => mon'.session.retryAt \in Nat,
         Handed' # {} => mon'.session.state = "running",
         Cutoff <= Cutoff',
         \A i \in DOMAIN mon'.res.rows :
           i \in (Handed \cup taken) \ Handed' =>
             Cutoff' >= now + RetryBackoff \/ mon'.res.rows[i].state = "delivered"
  PROVE  OrderInv'
<1> USE ReplayAssumption
<1>1. now \in Nat /\ Cutoff \in Nat /\ Cutoff' \in Nat
  BY CutoffType DEF IInv, Cutoff
<1>2. ASSUME NEW i \in DOMAIN mon'.res.rows
      PROVE  Due(mon'.res.rows[i], IF i \in Handed' THEN now + RetryBackoff ELSE Cutoff')
  <2> DEFINE s == IF i \in Handed THEN now + RetryBackoff ELSE Cutoff
             u == IF i \in Handed' THEN now + RetryBackoff ELSE Cutoff'
  <2>1. i \in DOMAIN mon.res.rows /\ mon.res.rows[i] \in Row
    BY <1>2, RowsTyped DEF Rests, Stays
  <2>2. Due(mon.res.rows[i], s)
    BY <2>1 DEF OrderInv
  <2>3. s \in Nat /\ u \in Nat
    BY <1>1
  <2>4. CASE mon'.res.rows[i].state = "delivered"
    BY <2>4 DEF Due
  <2>5. CASE mon'.res.rows[i].state # "delivered"
    <3>1. i \in Handed' => Cutoff <= now
      BY <1>1, <1>2 DEF Cutoff
    <3>2. s <= u /\ (i \in taken => u >= now + RetryBackoff)
      BY <1>1, <1>2, <2>5, <3>1
    <3> HIDE DEF s, u
    <3>3. Due(mon.res.rows[i], u)
      BY <2>1, <2>2, <2>3, <3>2, DueLater
    <3>4. QED
      BY <1>2, <2>3, <3>2, <3>3 DEF Rests, u
  <2>6. QED
    BY <2>4, <2>5
<1>3. QED
  BY <1>2 DEF OrderInv

\* A step that leaves the operation and what the session waits for alone.
LEMMA OrderUntouched ==
  ASSUME IInv, IInv', OrderInv, now' = now, replay' = replay,
         Rests(mon.res, mon'.res, {}, {}, now),
         \/ /\ mon'.session.state = mon.session.state
            /\ mon'.session.retryAt = mon.session.retryAt
         \/ mon.session.state = "completed" /\ mon'.session.state = "idle"
  PROVE  OrderInv' /\ Claimed = {}
<1>1. Handed' = Handed /\ Cutoff' = Cutoff
  BY DEF Handed, Cutoff
<1>2. Cutoff \in Nat
  BY CutoffType
<1>3. /\ mon'.session.state = "failed" => mon'.session.retryAt \in Nat
      /\ Handed' # {} => mon'.session.state = "running"
  BY <1>1 DEF OrderInv
<1>4. OrderInv'
  BY <1>1, <1>2, <1>3, OrderKept
<1>5. QED
  BY <1>4 DEF Claimed

\* The end of an operation that is not in its loop.
LEMMA OrderOver ==
  ASSUME IInv, IInv', OrderInv, now' = now, Handed = {},
         \E at \in {"none", "queueNotify", "lastNotify"} : replay' = ReplayAt(at, Nothing, {}),
         mon'.res = mon.res,
         \/ mon'.session = mon.session
         \/ /\ mon'.session.state # "failed"
            /\ mon.session.state = "failed" => mon.session.retryAt <= now
  PROVE  OrderInv' /\ Claimed = {}
<1>1. Handed' = {} /\ Claimed = {}
  BY DEF Handed, ReplayAt, Claimed, LoopAwaits
<1>2. Rests(mon.res, mon'.res, {}, {}, now)
  BY RestsNot
<1>3. Cutoff \in Nat /\ now \in Nat
  BY CutoffType DEF IInv
<1>4. Cutoff <= Cutoff'
  BY <1>3 DEF Cutoff
<1>5. mon'.session.state = "failed" => mon'.session.retryAt \in Nat
  BY DEF OrderInv
<1>6. QED
  BY <1>1, <1>2, <1>4, <1>5, OrderKept

LEMMA OrderPump ==
  ASSUME IInv, IInv', OrderInv, Faults \cap {"observer", "storage"} = {},
         Pump(mon), now' = now, replay.at \notin LoopAwaits
  PROVE  OrderInv' /\ InOrder
<1> DEFINE batch == ReplayBatch(mon, BatchSize, now)
<1>1. SoundMon(mon) /\ now \in Nat /\ Handed = {}
  BY DEF IInv, Handed
<1>2. mon.session.state = "failed" => mon.session.retryAt \in Nat
  BY DEF OrderInv
<1>3. CASE /\ ClaimAllowed(mon, now)
           /\ mon' = BatchClaimed(mon, BatchSize, now)
           /\ replay' = ReplayAt("claimNotify", BatchEntries(batch), {})
  <2>1. /\ mon.session.state = "failed" => mon.session.retryAt <= now
        /\ mon'.session.state \in {"running", "completed"}
        /\ batch # {} => mon'.session.state = "running"
    BY <1>1, <1>2, <1>3, ClaimSessions
  <2>2. Rests(mon.res, mon'.res, {}, batch, now)
    BY <1>1, <1>3, BatchRests
  <2>3. /\ replay'.at = "claimNotify" /\ replay.at # "claimNotify"
        /\ DOMAIN replay'.batch = DOMAIN BatchEntries(batch)
    BY <1>3 DEF ReplayAt, LoopAwaits
  <2> HIDE DEF batch
  <2>4. DOMAIN replay'.batch = batch
    BY <2>3 DEF BatchEntries
  <2>5. Handed' = batch /\ Claimed = batch
    BY <2>3, <2>4 DEF Handed, Claimed, LoopAwaits
  <2>6. Cutoff \in Nat /\ Cutoff <= now /\ Cutoff' = now
    BY <1>1, <2>1, CutoffType DEF Cutoff
  <2>7. OrderInv'
    <3>1. /\ mon'.session.state = "failed" => mon'.session.retryAt \in Nat
          /\ Handed' # {} => mon'.session.state = "running"
      BY <2>1, <2>5
    <3>2. (Handed \cup batch) \ Handed' = {}
      BY <1>1, <2>5
    <3>3. QED
      BY <2>2, <2>6, <3>1, <3>2, OrderKept
  <2>8. \A k \in DOMAIN mon.res.rows : Due(mon.res.rows[k], now)
    <3> SUFFICES ASSUME NEW k \in DOMAIN mon.res.rows PROVE Due(mon.res.rows[k], now)
      OBVIOUS
    <3>1. Due(mon.res.rows[k], Cutoff) /\ mon.res.rows[k] \in Row
      BY <1>1, RowsTyped DEF OrderInv
    <3>2. QED
      BY <1>1, <2>6, <3>1, DueLater
  <2>9. InOrder
    <3>1. BatchSize \in Nat
      BY AdapterAssumption
    <3>2. QED
      BY <1>1, <1>3, <2>5, <2>8, <3>1, ClaimInOrder DEF InOrder, batch
  <2>10. QED
    BY <2>7, <2>9
<1>4. CASE mon' = ClaimRejected(mon, now) /\ ReplayOver
  <2>1. mon'.res = mon.res
    BY <1>1, <1>4, BatchRests
  <2>2. \/ mon'.session = mon.session
        \/ /\ mon'.session.state # "failed"
           /\ mon.session.state = "failed" => mon.session.retryAt <= now
    BY <1>1, <1>2, <1>4, ClaimSessions
  <2>3. OrderInv' /\ Claimed = {}
    BY <1>1, <1>4, <2>1, <2>2, OrderOver, NoReplayForm DEF ReplayOver
  <2>4. QED
    BY <2>3 DEF InOrder
<1>5. QED
  BY <1>3, <1>4 DEF Pump

LEMMA OrderDelivered ==
  ASSUME IInv, IInv', OrderInv, Faults \cap {"observer", "storage"} = {}, ReplayDelivered
  PROVE  OrderInv' /\ Claimed = {}
<1>1. PICK i \in DOMAIN replay.batch \ replay.done :
        LET done == replay.done \cup {i}
        IN  \/ done # DOMAIN replay.batch
               /\ replay' = [replay EXCEPT !.done = done] /\ UNCHANGED mon
            \/ /\ done = DOMAIN replay.batch
               /\ mon' = AcknowledgeBatch(mon, done, now)
               /\ replay' = ReplayAt("ackNotify", replay.batch, done)
  BY Zenon DEF ReplayDelivered
<1> DEFINE done == replay.done \cup {i}
<1>2. /\ replay.at = "deliver" /\ now' = now /\ SoundMon(mon) /\ now \in Nat
      /\ replay \in [at: ReplayAwaits, batch: {replay.batch}, done: {replay.done}]
  BY DEF ReplayDelivered, IInv, ReplayType
<1>3. Handed = DOMAIN replay.batch /\ mon.session.state = "running"
  BY <1>1, <1>2 DEF Handed, LoopAwaits, OrderInv
<1>4. CASE replay' = [replay EXCEPT !.done = done] /\ UNCHANGED mon
  <2>1. replay'.at = "deliver" /\ replay'.batch = replay.batch
    BY <1>2, <1>4
  <2>2. Handed' = Handed /\ Claimed = {} /\ Cutoff' = Cutoff
    BY <1>2, <1>4, <2>1 DEF Handed, Claimed, Cutoff
  <2>3. OrderInv'
    BY <1>2, <1>4, <2>2 DEF OrderInv
  <2>4. QED
    BY <2>2, <2>3
<1>5. CASE /\ done = DOMAIN replay.batch
           /\ mon' = AcknowledgeBatch(mon, done, now)
           /\ replay' = ReplayAt("ackNotify", replay.batch, done)
  <2>1. /\ \A k \in done \cap DOMAIN mon'.res.rows : mon'.res.rows[k].state = "delivered"
        /\ mon'.session = mon.session \/ mon'.session.state = "completed"
        /\ Rests(mon.res, mon'.res, {}, {}, now)
    BY <1>2, <1>5, AcknowledgedSettled, SettledRests
  <2>2. Handed' = {} /\ Claimed = {}
    BY <1>5 DEF Handed, Claimed, ReplayAt, LoopAwaits
  <2>3. Cutoff = now /\ Cutoff' = now
    BY <1>2, <1>3, <2>1 DEF Cutoff
  <2>4. OrderInv'
    <3>1. mon'.session.state # "failed"
      BY <1>3, <2>1
    <3>2. Cutoff <= Cutoff'
      BY <1>2, <2>3
    <3>3. \A k \in DOMAIN mon'.res.rows :
            k \in (Handed \cup {}) \ Handed' => mon'.res.rows[k].state = "delivered"
      BY <1>3, <1>5, <2>1
    <3>4. QED
      BY <1>2, <2>1, <2>2, <3>1, <3>2, <3>3, OrderKept
  <2>5. QED
    BY <2>2, <2>4
<1>6. QED
  BY <1>1, <1>4, <1>5

LEMMA OrderRejected ==
  ASSUME IInv, IInv', OrderInv, Faults \cap {"observer", "storage"} = {}, ReplayRejected
  PROVE  OrderInv' /\ Claimed = {}
<1> USE ReplayAssumption
<1>1. PICK i \in DOMAIN replay.batch \ replay.done :
        /\ mon' = Fail(mon, replay.done \cup {i}, now)
        /\ replay' = ReplayAt("lastNotify", Nothing, {})
  BY Zenon DEF ReplayRejected, ReplayFailed
<1> DEFINE ids == replay.done \cup {i}
<1>2. replay.at = "deliver" /\ now' = now /\ SoundMon(mon) /\ now \in Nat
  BY DEF ReplayRejected, IInv
<1>3. Handed = DOMAIN replay.batch /\ mon.session.state = "running"
  BY <1>1, <1>2 DEF Handed, LoopAwaits, OrderInv
<1>4. Rests(mon.res, mon'.res, {}, ids, now)
  BY <1>1, <1>2, FailedRests
<1>5. mon'.session.state = "failed" /\ mon'.session.retryAt = now + RetryBackoff
  <2>1. RowsRetried(mon, ids, now) \in
          [res: {RowsRetried(mon, ids, now).res}, session: Session, health: HealthTable,
           needed: BOOLEAN, observed: BOOLEAN, evidence: SUBSET Components, ready: BOOLEAN]
    BY <1>2 DEF RowsRetried, SoundMon, IsMonitor
  <2>2. QED
    BY <1>1, <2>1 DEF Fail, Session
<1>6. Handed' = {} /\ Claimed = {}
  BY <1>1 DEF Handed, Claimed, ReplayAt, LoopAwaits
<1>7. Cutoff = now /\ Cutoff' = now + RetryBackoff
  BY <1>3, <1>5 DEF Cutoff
<1>8. OrderInv'
  <2>1. now + RetryBackoff \in Nat /\ Cutoff <= Cutoff' /\ Cutoff' >= now + RetryBackoff
    BY <1>2, <1>7
  <2>2. QED
    BY <1>2, <1>4, <1>5, <1>6, <2>1, OrderKept
<1>9. QED
  BY <1>6, <1>8

\* A new row waits for nothing.
LEMMA OrderIngest ==
  ASSUME IInv, IInv', OrderInv, NEW s \in Slots, Ingest(s)
  PROVE  OrderInv' /\ Claimed = {}
<1>0. PICK t \in Nat : mon' = Ingested(mon, EventBytes, t)
  BY IngestedAtSome
<1>1. /\ SoundMon(mon) /\ now \in Nat /\ EventBytes \in Nat
      /\ now' = now /\ replay' = replay
  BY AdapterAssumption DEF Ingest, IInv
<1>2. mon'.session = mon.session
  BY <1>0, <1>1, IngestedSound
<1>3. Handed' = Handed /\ Cutoff' = Cutoff /\ Claimed = {}
  BY <1>1, <1>2 DEF Handed, Cutoff, Claimed
<1> DEFINE id == mon.res.seq + 1
<1>4. /\ DOMAIN mon'.res.rows = (DOMAIN mon.res.rows) \cup {id}
      /\ \A i \in DOMAIN mon.res.rows : mon'.res.rows[i] = mon.res.rows[i]
      /\ \A u : Due(mon'.res.rows[id], u)
  <2>1. /\ DOMAIN mon'.res.rows = (DOMAIN mon.res.rows) \cup {id}
        /\ \A i \in DOMAIN mon.res.rows : mon'.res.rows[i] = mon.res.rows[i]
    BY <1>0, <1>1, AppendedRows
  <2>2. \A u : Due(mon'.res.rows[id], u)
    <3>1. SUFFICES ASSUME NEW u PROVE Due(mon'.res.rows[mon.res.seq + 1], u)
      OBVIOUS
    <3>2. QED
      BY <1>0, <1>1, AppendedRows
  <2>3. QED
    BY <2>1, <2>2
<1> HIDE DEF id
<1>5. \A i \in DOMAIN mon'.res.rows :
        Due(mon'.res.rows[i], IF i \in Handed' THEN now' + RetryBackoff ELSE Cutoff')
  BY <1>1, <1>3, <1>4 DEF OrderInv
<1>6. QED
  BY <1>2, <1>3, <1>5 DEF OrderInv

LEMMA OrderTick == ASSUME IInv, OrderInv, Tick PROVE OrderInv' /\ Claimed = {}
<1> USE ReplayAssumption
<1>1. /\ now \in Nat /\ now' = now + 1
      /\ UNCHANGED <<mon, replay>> /\ Cutoff \in Nat
  BY CutoffType DEF Tick, IInv
<1>2. Handed' = Handed /\ Claimed = {} /\ Cutoff' \in Nat /\ Cutoff <= Cutoff'
  BY <1>1 DEF Handed, Claimed, Cutoff
<1>3. ASSUME NEW i \in DOMAIN mon'.res.rows
      PROVE  Due(mon'.res.rows[i], IF i \in Handed' THEN now' + RetryBackoff ELSE Cutoff')
  <2>1. mon.res.rows[i] \in Row /\ mon'.res.rows = mon.res.rows
    BY <1>1, <1>3, RowsTyped
  <2>2. CASE i \in Handed
    <3>1. /\ Due(mon.res.rows[i], now + RetryBackoff)
          /\ now + RetryBackoff \in Nat /\ now' + RetryBackoff \in Nat
          /\ now + RetryBackoff <= now' + RetryBackoff
      BY <1>1, <1>3, <2>2 DEF OrderInv
    <3>2. Due(mon.res.rows[i], now' + RetryBackoff)
      BY <2>1, <3>1, DueLater
    <3>3. QED
      BY <1>2, <2>1, <2>2, <3>2
  <2>3. CASE i \notin Handed
    <3>1. Due(mon.res.rows[i], Cutoff)
      BY <1>1, <1>3, <2>3 DEF OrderInv
    <3>2. Due(mon.res.rows[i], Cutoff')
      BY <1>1, <1>2, <2>1, <3>1, DueLater
    <3>3. QED
      BY <1>2, <2>1, <2>3, <3>2
  <2>4. QED
    BY <2>2, <2>3
<1>4. QED
  BY <1>1, <1>2, <1>3 DEF OrderInv

\* Reconciliation queues a session whose backoff is over, or pumps.
LEMMA OrderReconciled ==
  ASSUME IInv, IInv', OrderInv, Faults \cap {"observer", "storage"} = {}, ReconcileRecovery
  PROVE  OrderInv' /\ InOrder
<1>1. /\ SoundMon(mon) /\ now \in Nat /\ now' = now
      /\ replay.at \notin LoopAwaits /\ Handed = {}
      /\ mon.session.state = "failed" => mon.session.retryAt \in Nat
  BY DEF ReconcileRecovery, IInv, LoopAwaits, Handed, OrderInv
<1>2. CASE mon' = QueueIfNeeded(mon, now) /\ replay' = ReplayAt("queueNotify", Nothing, {})
  <2>1. mon'.res = mon.res
    BY <1>1, <1>2, QueueKeeps
  <2>2. \/ mon'.session = mon.session
        \/ /\ mon'.session.state # "failed"
           /\ mon.session.state = "failed" => mon.session.retryAt <= now
    BY <1>1, <1>2, ClaimSessions
  <2>3. OrderInv' /\ Claimed = {}
    BY <1>1, <1>2, <2>1, <2>2, OrderOver
  <2>4. QED
    BY <2>3 DEF InOrder
<1>3. CASE Pump(mon)
  BY <1>1, <1>3, OrderPump
<1>4. QED
  BY <1>2, <1>3 DEF ReconcileRecovery

LEMMA OrderNotified ==
  ASSUME IInv, IInv', OrderInv, Faults \cap {"observer", "storage"} = {},
         QueueNotified \/ ClaimNotified \/ LastNotified
  PROVE  OrderInv' /\ InOrder
<1>1. SoundMon(mon) /\ now \in Nat /\ now' = now
  BY DEF QueueNotified, ClaimNotified, LastNotified, IInv
<1>2. CASE QueueNotified /\ Pump(mon)
  <2>1. replay.at \notin LoopAwaits
    BY <1>2 DEF QueueNotified, LoopAwaits
  <2>2. QED
    BY <1>1, <1>2, <2>1, OrderPump
<1>3. CASE (QueueNotified \/ LastNotified) /\ ReplayOver /\ UNCHANGED mon
  <2>1. Handed = {}
    BY <1>3 DEF QueueNotified, LastNotified, Handed, LoopAwaits
  <2>2. OrderInv' /\ Claimed = {}
    BY <1>1, <1>3, <2>1, OrderOver, NoReplayForm DEF ReplayOver
  <2>3. QED
    BY <2>2 DEF InOrder
<1>4. CASE ClaimNotified
  <2>1. replay.at = "claimNotify" /\ UNCHANGED mon
    BY <1>4 DEF ClaimNotified
  <2>2. CASE DOMAIN replay.batch = {} /\ replay' = ReplayAt("lastNotify", Nothing, {})
    <3>1. Handed = {}
      BY <2>2 DEF Handed
    <3>2. OrderInv' /\ Claimed = {}
      BY <1>1, <2>1, <2>2, <3>1, OrderOver
    <3>3. QED
      BY <3>2 DEF InOrder
  <2>3. CASE replay' = [replay EXCEPT !.at = "deliver"]
    <3>1. replay'.at = "deliver" /\ replay'.batch = replay.batch
      BY <2>3 DEF IInv, ReplayType
    <3>2. Handed' = Handed /\ Claimed = {} /\ Cutoff' = Cutoff
      BY <1>1, <2>1, <3>1 DEF Handed, Claimed, Cutoff, LoopAwaits
    <3>3. OrderInv'
      BY <1>1, <2>1, <3>2 DEF OrderInv
    <3>4. QED
      BY <3>2, <3>3 DEF InOrder
  <2>4. QED
    BY <1>4, <2>2, <2>3 DEF ClaimNotified
<1>5. QED
  BY <1>2, <1>3, <1>4 DEF QueueNotified, LastNotified

LEMMA OrderLive ==
  ASSUME IInv, IInv', OrderInv, NEW s \in Slots, LiveStep(s) \/ IngestFails(s)
  PROVE  OrderInv' /\ Claimed = {}
<1>1. SoundMon(mon) /\ now \in Nat
  BY DEF IInv
<1>2. /\ now' = now /\ replay' = replay
      /\ mon' = mon \/ mon' = RowsDelivered(mon, {ingest[s].row}, now)
  BY DEF LiveStep, DecisionObserved, BufferedObserved, LiveDelivered, IngestFails
<1>3. Rests(mon.res, mon'.res, {}, {}, now) /\ mon'.session = mon.session
  BY <1>1, <1>2, SettledRests, DeliveredKeeps, RestsNot
<1>4. QED
  BY <1>2, <1>3, OrderUntouched

LEMMA OrderHealth ==
  ASSUME IInv, IInv', OrderInv,
         \/ \E report \in HealthReports : UpdateComponentHealth(report[1], report[2])
         \/ \E component \in HeartbeatsFrom : ObserveHeartbeat(component)
         \/ RefreshHealthStates
         \/ PruneReservoir
  PROVE  OrderInv' /\ Claimed = {}
<1>1. SoundMon(mon) /\ now \in Nat
  BY DEF IInv
<1>2. ASSUME Steady(mon, mon'), now' = now, replay' = replay
      PROVE  OrderInv' /\ Claimed = {}
  <2>1. Rests(mon.res, mon'.res, {}, {}, now)
    BY <1>2, RestsNot DEF Steady
  <2>2. QED
    BY <1>2, <2>1, OrderUntouched DEF Steady
<1>3. ASSUME NEW report \in HealthReports, UpdateComponentHealth(report[1], report[2])
      PROVE  OrderInv' /\ Claimed = {}
  <2>1. report[1] \in Components /\ report[2] \in HealthStates
    BY AdapterAssumption
  <2>2. Steady(mon, mon') /\ now' = now /\ replay' = replay
    BY <1>1, <1>3, <2>1, HealthKeeps DEF UpdateComponentHealth
  <2>3. QED
    BY <1>2, <2>2
<1>4. ASSUME NEW component \in HeartbeatsFrom, ObserveHeartbeat(component)
      PROVE  OrderInv' /\ Claimed = {}
  <2>1. component \in Components
    BY AdapterAssumption
  <2>2. Steady(mon, mon') /\ now' = now /\ replay' = replay
    BY <1>1, <1>4, <2>1, HeartbeatKeeps DEF ObserveHeartbeat
  <2>3. QED
    BY <1>2, <2>2
<1>5. CASE RefreshHealthStates
  <2>1. Steady(mon, mon') /\ now' = now /\ replay' = replay
    BY <1>1, <1>5, RefreshKeeps DEF RefreshHealthStates
  <2>2. QED
    BY <1>2, <2>1
<1>6. CASE PruneReservoir
  <2>1. /\ Rests(mon.res, mon'.res, {}, {}, now) /\ mon'.session = mon.session
        /\ now' = now /\ replay' = replay
    BY <1>1, <1>6, PrunedRests DEF PruneReservoir
  <2>2. QED
    BY <2>1, OrderUntouched
<1>7. QED
  BY <1>3, <1>4, <1>5, <1>6

LEMMA OrderStep ==
  ASSUME ~Crashes, Faults \cap {"observer", "storage"} = {},
         IInv, IInv', OrderInv, [Next]_vars
  PROVE  OrderInv' /\ InOrder
<1>1. Claimed = {} => InOrder
  BY DEF InOrder
<1>2. CASE UNCHANGED vars
  <2>1. UNCHANGED <<mon, now, replay>>
    BY <1>2 DEF vars
  <2>2. Rests(mon.res, mon'.res, {}, {}, now)
    BY <2>1, RestsNot
  <2>3. QED
    BY <1>1, <2>1, <2>2, OrderUntouched
<1>3. ASSUME NEW s \in Slots, Ingest(s) \/ LiveStep(s) PROVE OrderInv' /\ InOrder
  BY <1>1, <1>3, OrderIngest, OrderLive
<1>4. CASE ReconcileRecovery
  BY <1>4, OrderReconciled
<1>5. CASE ReplayStep
  BY <1>1, <1>5, OrderNotified, OrderDelivered DEF ReplayStep
<1>6. CASE Failure
  <2>1. ~NotifyRejected
    BY DEF NotifyRejected
  <2>2. QED
    BY <1>1, <1>6, <2>1, OrderLive, OrderRejected DEF Failure
<1>7. CASE Environment
  <2>1. ~Crash
    BY DEF Crash
  <2>2. QED
    BY <1>1, <1>7, <2>1, OrderHealth, OrderTick DEF Environment
<1>8. CASE PumpReplayBatch
  <2>1. Pump(mon) /\ now' = now /\ replay.at \notin LoopAwaits
    BY <1>8 DEF PumpReplayBatch, LoopAwaits
  <2>2. QED
    BY <2>1, OrderPump
<1>9. QED
  BY <1>2, <1>3, <1>4, <1>5, <1>6, <1>7, <1>8 DEF Next, ScheduledNext

LEMMA OrderInitially == Init => OrderInv
<1>1. SUFFICES ASSUME Init PROVE OrderInv
  OBVIOUS
<1>2. Good(EmptyReservoir) /\ DOMAIN EmptyReservoir.rows = {}
  BY EmptyGood DEF EmptyReservoir
<1>3. mon.res = RecoverRestartState(EmptyReservoir)
  BY <1>1, <1>2, OpenedKeeps DEF Init
<1>4. DOMAIN mon.res.rows = {}
  BY <1>2, <1>3, RecoverStays DEF Stays
<1>5. Handed = {}
  BY <1>1 DEF Init, Handed, NoReplay, ReplayAt, LoopAwaits
<1>6. mon.session.state # "failed"
  <2> DEFINE v == RecoverRestartState(EmptyReservoir)
  <2>1. v.cached = 0
    BY DEF RecoverRestartState, EmptyReservoir
  <2> HIDE DEF v
  <2>2. mon = Opened(EmptyReservoir, 0)
    BY <1>1 DEF Init
  <2>3. mon.session = Fresh("idle")
    <3>1. Opened(EmptyReservoir, 0).session = RestartSession(v, 0)
      BY Zenon DEF Opened, v
    <3>2. RestartSession(v, 0) = Fresh("idle")
      BY <2>1 DEF RestartSession
    <3>3. QED
      BY <2>2, <3>1, <3>2
  <2>4. QED
    BY <2>3 DEF Fresh
<1>7. QED
  BY <1>4, <1>5, <1>6 DEF OrderInv

\* While every write succeeds, every observing callback answers and the process
\* lives, no batch is claimed that leaves an older open row behind: the backoff
\* of a failed session outlasts that of every row the failure gave back.
THEOREM NeverOvertakes ==
  ASSUME ~Crashes, Faults \cap {"observer", "storage"} = {}
  PROVE  Spec => ReplayNeverOvertakes
<1>1. Init => OrderInv
  BY OrderInitially
<1>2. IInv /\ IInv' /\ OrderInv /\ [Next]_vars => OrderInv'
  BY OrderStep
<1>3. IInv /\ IInv' /\ OrderInv /\ [Next]_vars =>
        [\A i \in Claimed : \A j \in InState(mon'.res.rows, PendingStates) \ Claimed :
           LET earlier == mon'.res.rows[i].ingestAt
               later == mon'.res.rows[j].ingestAt
           IN  earlier < later \/ (earlier = later /\ i < j)]_vars
  BY OrderStep DEF InOrder
<1>4. Spec => []IInv
  BY Invariant, PTL
<1>5. QED
  BY <1>1, <1>2, <1>3, <1>4, PTL DEF Spec, ReplayNeverOvertakes

-----------------------------------------------------------------------------
(* The books.                                                              *)

Calm == Faults \cap {"replay", "observer", "storage"} = {}

\* The three kinds of steps: nothing is taken up again, a row comes in, or the
\* batch in hand fails.
Keeping ==
  /\ mon'.res.seq = mon.res.seq
  /\ Reopens(mon.res, mon'.res, {}) \/ Strikes(mon.res, mon'.res)
Accepting ==
  /\ mon'.res.seq = mon.res.seq + 1
  /\ DOMAIN mon'.res.rows = (DOMAIN mon.res.rows) \cup {mon.res.seq + 1}
  /\ \A i \in DOMAIN mon.res.rows : mon'.res.rows[i] = mon.res.rows[i]
Failing ==
  /\ ~Calm
  /\ mon'.res.seq = mon.res.seq
  /\ Reopens(mon.res, mon'.res, DOMAIN replay.batch)
  /\ replay'.at \in {"lastNotify", "none"}

LEMMA SameBooks == ASSUME mon'.res = mon.res PROVE Keeping
  BY ReopensNot DEF Keeping

LEMMA BooksPump == ASSUME IInv, Pump(mon) PROVE Keeping
<1>1. SoundMon(mon) /\ now \in Nat
  BY DEF IInv
<1>2. CASE ClaimAllowed(mon, now) /\ mon' = BatchClaimed(mon, BatchSize, now)
  BY <1>1, <1>2, BatchClaimedKeeps, BatchRests DEF Keeping, Keeps, Moves
<1>3. CASE mon' = ClaimRejected(mon, now)
  BY <1>1, <1>3, BatchRests, SameBooks
<1>4. CASE mon' \in ClaimInterrupted(mon, now)
  BY <1>1, <1>4, BatchClaimedKeeps, BatchRests DEF Keeping, Keeps, Moves
<1>5. QED
  BY <1>2, <1>3, <1>4 DEF Pump

\* Whatever was acknowledged before, only what is named is taken up again.
LEMMA BooksFailed ==
  ASSUME IInv, ~Calm, NEW m, SoundMon(m), m.res.seq = mon.res.seq,
         Reopens(mon.res, m.res, {}), NEW ids, ids \subseteq DOMAIN replay.batch,
         ReplayFailed(m, ids)
  PROVE  Failing
<1>1. mon' = Fail(m, ids, now) \/ mon' \in FailPrefixes(m, ids, now)
  BY DEF ReplayFailed
<1>2. Reopens(m.res, mon'.res, ids) /\ mon'.res.seq = m.res.seq
  BY <1>1, FailKeeps, FailedRests DEF Keeps, Moves, IInv
<1>3. Reopens(mon.res, mon'.res, ids)
  BY <1>2, ReopensTwice
<1>4. Reopens(mon.res, mon'.res, DOMAIN replay.batch)
  BY <1>3 DEF Reopens
<1>5. replay'.at \in {"lastNotify", "none"}
  BY DEF ReplayFailed, ReplayOver, NoReplay, ReplayAt
<1>6. QED
  BY <1>2, <1>4, <1>5 DEF Failing

LEMMA BooksDelivered == ASSUME IInv, ReplayDelivered PROVE Keeping \/ Failing
<1>1. SoundMon(mon) /\ now \in Nat /\ replay.done \subseteq DOMAIN replay.batch
  BY DEF IInv, ReplayType
<1>2. PICK i \in DOMAIN replay.batch \ replay.done :
        LET done == replay.done \cup {i}
        IN  \/ UNCHANGED mon
            \/ mon' = AcknowledgeBatch(mon, done, now)
            \/ /\ "storage" \in Faults
               /\ \E m \in AcknowledgePrefixes(mon, done, now) : ReplayFailed(m, done)
  BY Zenon DEF ReplayDelivered
<1> DEFINE done == replay.done \cup {i}
<1>3. CASE UNCHANGED mon
  BY <1>3, SameBooks
<1>4. CASE mon' = AcknowledgeBatch(mon, done, now)
  BY <1>1, <1>4, AcknowledgeKeeps, SettledRests DEF Keeping, Keeps, Moves
<1>5. ASSUME "storage" \in Faults, NEW m \in AcknowledgePrefixes(mon, done, now),
             ReplayFailed(m, done)
      PROVE  Failing
  <2>1. Reopens(mon.res, m.res, {}) /\ Keeps(mon, m, done)
    BY <1>1, AcknowledgeKeeps, SettledRests
  <2>2. SoundMon(m) /\ m.res.seq = mon.res.seq
    BY <2>1 DEF Keeps, Moves
  <2>3. done \subseteq DOMAIN replay.batch /\ ~Calm
    BY <1>1, <1>5 DEF Calm
  <2> HIDE DEF done
  <2>4. QED
    BY <1>5, <2>1, <2>2, <2>3, BooksFailed
<1>6. QED
  BY <1>2, <1>3, <1>4, <1>5

LEMMA BooksFailure == ASSUME IInv, Failure PROVE Keeping \/ Failing
<1>1. SoundMon(mon) /\ Reopens(mon.res, mon.res, {})
  BY ReopensNot DEF IInv
<1>2. ASSUME NEW s \in Slots, IngestFails(s) PROVE Keeping
  BY <1>2, SameBooks DEF IngestFails
<1>3. CASE ReplayRejected
  <2>1. ~Calm
    BY <1>3 DEF ReplayRejected, Calm
  <2>2. PICK i \in DOMAIN replay.batch \ replay.done :
             ReplayFailed(mon, replay.done \cup {i})
    BY <1>3, Zenon DEF ReplayRejected
  <2>3. replay.done \cup {i} \subseteq DOMAIN replay.batch
    BY DEF IInv, ReplayType
  <2>4. QED
    BY <1>1, <2>1, <2>2, <2>3, BooksFailed
<1>4. CASE NotifyRejected
  <2>1. ~Calm
    BY <1>4 DEF NotifyRejected, Calm
  <2>2. UNCHANGED mon \/ ReplayFailed(mon, DOMAIN replay.batch)
    BY <1>4 DEF NotifyRejected
  <2>3. QED
    BY <1>1, <2>1, <2>2, BooksFailed, SameBooks
<1>5. QED
  BY <1>2, <1>3, <1>4 DEF Failure

LEMMA BooksIngest ==
  ASSUME IInv, NEW s \in Slots, Ingest(s) \/ LiveStep(s)
  PROVE  Accepting \/ Keeping
<1>1. SoundMon(mon) /\ now \in Nat
  BY DEF IInv
<1>2. CASE Ingest(s)
  <2>1. PICK t \in Nat : mon' = Ingested(mon, EventBytes, t)
    BY <1>2, IngestedAtSome
  <2>2. QED
    BY <1>1, <2>1, AppendedRows DEF Accepting
<1>3. CASE mon' = mon
  BY <1>3, SameBooks
<1>4. CASE mon' = RowsDelivered(mon, {ingest[s].row}, now)
  BY <1>1, <1>4, DeliveredKeeps, SettledRests DEF Keeping, Keeps, Moves
<1>5. QED
  BY <1>2, <1>3, <1>4
     DEF LiveStep, DecisionObserved, BufferedObserved, LiveDelivered

LEMMA BooksEnvironment == ASSUME IInv, Environment PROVE Keeping
<1>1. SoundMon(mon) /\ now \in Nat /\ Good(mon.res)
  BY DEF IInv, SoundMon
<1>2. ASSUME NEW report \in HealthReports, UpdateComponentHealth(report[1], report[2])
      PROVE  Keeping
  <2>1. report[1] \in Components /\ report[2] \in HealthStates
    BY AdapterAssumption
  <2>2. QED
    BY <1>1, <1>2, <2>1, HealthKeeps, SameBooks DEF UpdateComponentHealth, Steady
<1>3. ASSUME NEW component \in HeartbeatsFrom, ObserveHeartbeat(component)
      PROVE  Keeping
  <2>1. component \in Components
    BY AdapterAssumption
  <2>2. QED
    BY <1>1, <1>3, <2>1, HeartbeatKeeps, SameBooks DEF ObserveHeartbeat, Steady
<1>4. CASE RefreshHealthStates
  BY <1>1, <1>4, RefreshKeeps, SameBooks DEF RefreshHealthStates, Steady
<1>5. CASE PruneReservoir
  BY <1>1, <1>5, PruneKeeps, PrunedRests DEF PruneReservoir, Keeping, Keeps, Moves
<1>6. CASE Tick
  BY <1>6, SameBooks DEF Tick
<1>7. CASE Crash
  <2>1. mon' = Opened(mon.res, now)
    BY <1>7 DEF Crash
  <2>2. mon'.res = RecoverRestartState(mon.res) /\ mon'.res.seq = mon.res.seq
    BY <1>1, <2>1, OpenedKeeps DEF Moves
  <2>3. QED
    BY <1>1, <2>2, RecoverReopens DEF Keeping
<1>8. QED
  BY <1>2, <1>3, <1>4, <1>5, <1>6, <1>7 DEF Environment

LEMMA BooksStep == ASSUME IInv, [Next]_vars PROVE Accepting \/ Keeping \/ Failing
<1>1. SoundMon(mon) /\ now \in Nat
  BY DEF IInv
<1>2. CASE UNCHANGED vars
  BY <1>2, SameBooks DEF vars
<1>3. CASE ReconcileRecovery
  <2>1. mon' = QueueIfNeeded(mon, now) \/ mon' = mon \/ Pump(mon)
    BY <1>3 DEF ReconcileRecovery
  <2>2. QED
    BY <1>1, <2>1, QueueKeeps, SameBooks, BooksPump
<1>4. CASE ReplayStep
  <2>1. CASE QueueNotified \/ ClaimNotified \/ LastNotified
    <3>1. Pump(mon) \/ mon' = mon
      BY <2>1 DEF QueueNotified, ClaimNotified, LastNotified
    <3>2. QED
      BY <3>1, BooksPump, SameBooks
  <2>2. QED
    BY <1>4, <2>1, BooksDelivered DEF ReplayStep
<1>5. CASE PumpReplayBatch
  BY <1>5, BooksPump DEF PumpReplayBatch
<1>6. ASSUME NEW s \in Slots, Ingest(s) \/ LiveStep(s) PROVE Accepting \/ Keeping
  BY <1>6, BooksIngest
<1>7. QED
  BY <1>2, <1>3, <1>4, <1>5, <1>6, BooksFailure, BooksEnvironment DEF Next, ScheduledNext

\* What such a step takes up again.
LEMMA ReopenedRows ==
  ASSUME Accepting \/ Keeping \/ Failing, NEW i \in DOMAIN mon.res.rows \cap DOMAIN mon'.res.rows,
         mon.res.rows[i].state \in TerminalStates, mon'.res.rows[i].state \notin TerminalStates
  PROVE  ~Calm /\ i \in DOMAIN replay.batch /\ replay'.at \in {"lastNotify", "none"}
  BY DEF Accepting, Keeping, Failing, Reopens, Strikes, IsTerminal

\* No call, failure or restart takes up again what is settled, but the failure
\* of the batch that holds it.
THEOREM OnlyBatchesReopen == Spec => ReopenedOnlyByItsBatch
<1>1. ASSUME IInv, [Next]_vars
      PROVE  \A i \in DOMAIN mon.res.rows \cap DOMAIN mon'.res.rows :
               /\ mon.res.rows[i].state \in TerminalStates
               /\ mon'.res.rows[i].state \notin TerminalStates
               => i \in DOMAIN replay.batch /\ replay'.at \in {"lastNotify", "none"}
  BY <1>1, BooksStep, ReopenedRows
<1>2. QED
  BY <1>1, Invariant, PTL DEF Spec, ReopenedOnlyByItsBatch

\* What the document says of terminal rows holds as long as no replay handler,
\* no observing callback and no write fails.
THEOREM SettledForGood ==
  ASSUME Faults \cap {"replay", "observer", "storage"} = {}
  PROVE  Spec => TerminalRowsStayTerminal
<1>1. ASSUME IInv, [Next]_vars
      PROVE  \A i \in DOMAIN mon.res.rows \cap DOMAIN mon'.res.rows :
               mon.res.rows[i].state \in TerminalStates =>
                 mon'.res.rows[i].state \in TerminalStates
  BY <1>1, BooksStep, ReopenedRows DEF Calm
<1>2. QED
  BY <1>1, Invariant, PTL DEF Spec, TerminalRowsStayTerminal

\* The adapter keeps the books of the ledger whatever interleaves, fails or
\* dies: no accepted event goes missing, and the backlog is what is open.
THEOREM LedgerKept == Spec => ImplementsLedger
<1>1. Init => L!Init
  <2>1. SUFFICES ASSUME Init PROVE L!Init
    OBVIOUS
  <2>2. /\ Good(EmptyReservoir) /\ EmptyReservoir.seq = 0
        /\ DOMAIN EmptyReservoir.rows = {} /\ mon = Opened(EmptyReservoir, 0)
    BY <2>1, EmptyGood DEF EmptyReservoir, Init
  <2>3. DOMAIN mon.res.rows = {} /\ mon.res.seq = 0 /\ Good(mon.res) /\ Drift(mon.res) = 0
    BY <2>2, OpenedKeeps, RecoverReopens DEF Moves, Reopens
  <2>4. Backlog(mon) = 0
    BY <2>3, FS_EmptySet DEF Drift, Good, AccountingMatches, IsReservoir, InState, Backlog
  <2>5. QED
    BY <2>3, <2>4 DEF L!Init, InState
<1>2. ASSUME IInv, IInv', Counted', [Next]_vars PROVE [L!Next]_(L!vars)
  <2> DEFINE r == mon.res
             n == mon'.res
  <2>1. /\ IsReservoir(r) /\ IsReservoir(n) /\ Good(n) /\ Drift(n) = 0
        /\ r.seq \in Nat /\ DOMAIN n.rows \subseteq 1..n.seq
    BY <1>2, MonitorParts DEF IInv, Counted
  <2>2. /\ n.cached = Cardinality(InState(n.rows, PendingStates))
        /\ Backlog(mon') = n.cached
    BY <2>1 DEF Good, Drift, AccountingMatches, IsReservoir, Backlog
  <2>3. /\ InState(r.rows, PendingStates) \cup InState(r.rows, TerminalStates) = DOMAIN r.rows
        /\ InState(n.rows, PendingStates) \cup InState(n.rows, TerminalStates) = DOMAIN n.rows
        /\ InState(n.rows, PendingStates) \cap InState(n.rows, TerminalStates) = {}
    BY <2>1, OpenOrSettled
  <2>4. L!Balanced
    <3>1. \A S : L!Cardinality(S) = Cardinality(S)
      BY Zenon DEF L!Cardinality, Cardinality
    <3>2. QED
      BY <2>1, <2>2, <2>3, <3>1 DEF L!Balanced, L!Books
  <2>5. Accepting \/ Keeping \/ Failing
    BY <1>2, BooksStep
  <2>6. CASE n.seq = r.seq /\ DOMAIN n.rows = DOMAIN r.rows
    BY <2>3, <2>4, <2>6 DEF L!Next, L!Reclassify, L!Books
  <2>7. CASE n.seq = r.seq /\ Strikes(r, n)
    <3>1. InState(n.rows, PendingStates) \subseteq InState(r.rows, PendingStates)
      <4>1. \A i \in DOMAIN n.rows : i \in InState(r.rows, TerminalStates) =>
                                      i \in InState(n.rows, TerminalStates)
        BY <2>7 DEF Strikes, InState, IsTerminal
      <4>2. QED
        BY <2>3, <2>7, <4>1 DEF Strikes
    <3>2. (DOMAIN r.rows) \ DOMAIN n.rows \subseteq
            IF DeadLetterRetention = 0 THEN DOMAIN r.rows ELSE InState(r.rows, TerminalStates)
      BY <2>7 DEF Strikes, InState, IsTerminal
    <3>3. DOMAIN n.rows \subseteq DOMAIN r.rows
      BY <2>7 DEF Strikes
    <3>4. QED
      BY <2>3, <2>4, <2>7, <3>1, <3>2, <3>3 DEF L!Next, L!Retire, L!Books
  <2>8. CASE Accepting
    <3>1. /\ InState(r.rows, PendingStates) \subseteq InState(n.rows, PendingStates)
          /\ InState(r.rows, TerminalStates) \subseteq InState(n.rows, TerminalStates)
      BY <2>8 DEF Accepting, InState
    <3>2. n.seq > r.seq /\ DOMAIN n.rows = (DOMAIN r.rows) \cup {n.seq}
      BY <2>1, <2>8 DEF Accepting
    <3>3. QED
      BY <2>3, <2>4, <3>1, <3>2 DEF L!Next, L!Accept, L!Books
  <2>9. QED
    BY <2>5, <2>6, <2>7, <2>8 DEF Keeping, Failing, Reopens
<1>3. QED
  BY <1>1, <1>2, Invariant, PTL DEF Spec, ImplementsLedger, L!Spec
=============================================================================
