--------------------------- MODULE BoundaryProofs ---------------------------
(***************************************************************************)
(* The producers for every adapter beneath, any number of them, every      *)
(* error a write may end in, and closings and deaths at any point: what    *)
(* they are told is true, and whoever goes by it gets its event in once.   *)
(***************************************************************************)
EXTENDS IngressBoundary, AdapterProofs

\* What producer p has been told agrees with what was stored of its event; only
\* who may not call again has a call in flight or an event in.
Honest(p) ==
  /\ ingest[p].at # "none" => told[p] = InFlight
  /\ told[p].retryable \/ told[p].outcome = "definite_rejection" => stored[p] = {}
  /\ told[p].outcome \in {"accepted", "indeterminate"} \/ told[p].code = "in_flight" =>
       stored[p] # {}

\* Of its event one row was stored at most, and that row is there for as long
\* as the producer may look for it.
Found(p) ==
  \A i \in stored[p] :
    /\ stored[p] = {i}
    /\ i \in DOMAIN mon.res.rows => Sane(mon.res.rows[i], storedAt[p])
    /\ i \notin DOMAIN mon.res.rows => storedAt[p] + ReconcileWithin <= now

Producers ==
  /\ detached \subseteq {p \in Slots : ingest[p].at # "none"}
  /\ told \in [Slots -> Answers]
  /\ storedAt \in [Slots -> 0..now]
  /\ stored \in [Slots -> SUBSET (1..mon.res.seq)]

\* The inductive invariant, on top of the adapter's.
BoundaryInv ==
  /\ IInv
  /\ open \in BOOLEAN
  /\ Producers
  /\ \A p \in Slots : Honest(p) /\ Found(p)

-----------------------------------------------------------------------------
(* Answers.                                                                *)

LEMMA AnswerTypes ==
  {NotAsked, Accepted, InFlight, Lost, Indeterminate, MonitorClosed, AdmissionRefused,
   CapacityRefused("serialized_event_bytes"), CapacityRefused("pending")} \subseteq Answers
<1>1. {MonitorClosed, AdmissionRefused, CapacityRefused("serialized_event_bytes"),
       CapacityRefused("pending"), Indeterminate} \subseteq Errors
  BY DEF Errors, BoundaryErrors
<1>2. \A error \in Errors : BoundaryError(error) \in Answers
  BY DEF Answers
<1>3. \A error \in BoundaryErrors : BoundaryError(error) = error
  BY DEF BoundaryErrors, BoundaryError, Raw, RecognizedTexts, MonitorClosed,
         AdmissionRefused, CapacityRefused, Indeterminate, Rejection, Answer
<1>4. {MonitorClosed, AdmissionRefused, CapacityRefused("serialized_event_bytes"),
       CapacityRefused("pending"), Indeterminate} \subseteq Answers
  BY <1>1, <1>2, <1>3 DEF BoundaryErrors
<1>5. QED
  BY <1>4 DEF Answers

\* A write that fails is answered by a definite rejection, or by nothing that
\* says what became of the event.
LEMMA WriteErrorAnswers ==
  ASSUME NEW text \in WriteErrors
  PROVE  LET answer == BoundaryError(Raw(text))
         IN  /\ answer \in Answers
             /\ answer.outcome \in {"definite_rejection", "unknown"}
             /\ answer.code \in Texts
<1>1. text \in Texts /\ text \in RecognizedTexts \cup {"no_transaction"}
  BY BoundaryAssumption DEF Texts
<1>2. Raw(text) \in Errors
  BY <1>1 DEF Errors
<1>3. BoundaryError(Raw(text)) \in Answers
  BY <1>2 DEF Answers
<1>4. Raw(text).code = text /\ Raw(text).outcome = "unknown"
  BY DEF Raw, Answer
<1>5. \/ BoundaryError(Raw(text)) = Raw(text)
      \/ BoundaryError(Raw(text)) = Answer(text, "definite_rejection", text # "io")
  BY <1>4 DEF BoundaryError, Rejection
<1>6. QED
  BY <1>1, <1>3, <1>4, <1>5 DEF Answer

-----------------------------------------------------------------------------
(* What most steps have in common.                                         *)

LEMMA BoundaryFacts ==
  ASSUME BoundaryInv
  PROVE  /\ SoundMon(mon) /\ now \in Nat /\ mon.res.seq \in Nat
         /\ DOMAIN mon.res.rows \subseteq 1..mon.res.seq
         /\ handled \subseteq 1..mon.res.seq
  BY MonitorParts DEF BoundaryInv, IInv

\* The row of an event stays as it was, or has outlived what producers wait.
LEMMA FoundKept ==
  ASSUME BoundaryInv, NEW p \in Slots, Stays(mon.res, mon'.res, now),
         UNCHANGED <<now, storedAt, stored>>
  PROVE  Found(p)'
<1>1. Found(p) /\ now \in Nat /\ storedAt[p] \in 0..now
  BY DEF BoundaryInv, IInv, Producers
<1>2. ASSUME NEW i \in stored[p]
      PROVE  /\ i \in DOMAIN mon'.res.rows => Sane(mon'.res.rows[i], storedAt[p])
             /\ i \notin DOMAIN mon'.res.rows => storedAt[p] + ReconcileWithin <= now
  <2>1. CASE i \in DOMAIN mon'.res.rows
    BY <1>1, <1>2, <2>1 DEF Found, Stays, RowRests
  <2>2. CASE i \notin DOMAIN mon'.res.rows /\ i \in DOMAIN mon.res.rows
    <3>1. Outlived(storedAt[p], now)
      BY <1>1, <1>2, <2>2 DEF Found, Stays
    <3>2. storedAt[p] + ReconcileWithin <= now
      BY <1>1, <3>1, BoundaryAssumption, RetentionAssumption DEF Outlived
    <3>3. QED
      BY <2>2, <3>2
  <2>3. CASE i \notin DOMAIN mon'.res.rows /\ i \notin DOMAIN mon.res.rows
    BY <1>1, <1>2, <2>3 DEF Found
  <2>4. QED
    BY <2>1, <2>2, <2>3
<1>3. QED
  BY <1>1, <1>2 DEF Found

\* A step in which no producer is told anything.
LEMMA SilentStep ==
  ASSUME BoundaryInv, IInv', Stays(mon.res, mon'.res, now), mon'.res.seq = mon.res.seq,
         open' \in BOOLEAN, UNCHANGED <<now, told, storedAt, stored>>,
         \A q \in Slots : ingest'[q].at # "none" <=> ingest[q].at # "none",
         detached' \subseteq detached \/ detached' = {q \in Slots : ingest[q].at # "none"}
  PROVE  BoundaryInv'
<1>1. Producers'
  BY DEF BoundaryInv, Producers
<1>2. ASSUME NEW p \in Slots PROVE Honest(p)' /\ Found(p)'
  <2>1. Found(p)'
    BY FoundKept
  <2>2. Honest(p)'
    BY DEF BoundaryInv, Honest, BytesOf
  <2>3. QED
    BY <2>1, <2>2
<1>3. QED
  BY <1>1, <1>2 DEF BoundaryInv

\* A step that leaves producer p with an answer and no call in flight.
LEMMA AnsweredStep ==
  ASSUME BoundaryInv, IInv', NEW p \in Slots, NEW answer \in Answers, Tell(p, answer),
         Stays(mon.res, mon'.res, now), mon'.res.seq = mon.res.seq,
         UNCHANGED <<open, now, storedAt, stored>>,
         ingest'[p].at = "none", \A q \in Slots \ {p} : ingest'[q] = ingest[q],
         detached' = detached \ {p} \/ (ingest[p].at = "none" /\ detached' = detached),
         answer.retryable \/ answer.outcome = "definite_rejection" => stored[p] = {},
         answer.outcome \in {"accepted", "indeterminate"} => stored[p] # {},
         answer.code # "in_flight"
  PROVE  BoundaryInv'
<1>1. /\ told \in [Slots -> Answers] /\ told' = [told EXCEPT ![p] = answer]
      /\ detached \subseteq {q \in Slots : ingest[q].at # "none"}
  BY DEF BoundaryInv, Producers, Tell
<1>2. Producers'
  <2>1. told' \in [Slots -> Answers]
    BY <1>1
  <2>2. detached' \subseteq {q \in Slots : ingest'[q].at # "none"}
    BY <1>1
  <2>3. QED
    BY <2>1, <2>2 DEF BoundaryInv, Producers
<1>3. told'[p] = answer /\ \A q \in Slots \ {p} : told'[q] = told[q]
  BY <1>1
<1>4. Honest(p)'
  BY <1>3 DEF Honest, BytesOf
<1>5. ASSUME NEW q \in Slots \ {p} PROVE Honest(q)'
  BY <1>3, <1>5 DEF BoundaryInv, Honest, BytesOf
<1>6. \A q \in Slots : Found(q)'
  BY FoundKept
<1>7. QED
  BY <1>2, <1>4, <1>5, <1>6 DEF BoundaryInv

-----------------------------------------------------------------------------
(* What the adapter does meanwhile.                                        *)

\* m becomes n at t with every event in its place.
Holds(m, n, t) == Stays(m.res, n.res, t) /\ n.res.seq = m.res.seq

LEMMA HoldsNot == ASSUME NEW m, NEW n, NEW t, n.res = m.res PROVE Holds(m, n, t)
  BY DEF Holds, Stays, RowRests

LEMMA PumpHolds ==
  ASSUME BoundaryInv, Pump(mon)
  PROVE  Holds(mon, mon', now)
<1>1. SoundMon(mon) /\ now \in Nat
  BY BoundaryFacts
<1>2. CASE ClaimAllowed(mon, now) /\ mon' = BatchClaimed(mon, BatchSize, now)
  BY <1>1, <1>2, BatchClaimedKeeps, BatchRests DEF Holds, Rests, Keeps, Moves
<1>3. CASE mon' = ClaimRejected(mon, now)
  BY <1>1, <1>3, BatchRests, HoldsNot
<1>4. CASE mon' \in ClaimInterrupted(mon, now)
  BY <1>1, <1>4, BatchClaimedKeeps, BatchRests DEF Holds, Rests, Keeps, Moves
<1>5. QED
  BY <1>2, <1>3, <1>4 DEF Pump

LEMMA FailedHolds ==
  ASSUME NEW m, SoundMon(m), now \in Nat, NEW ids, ReplayFailed(m, ids)
  PROVE  Rests(m.res, mon'.res, {}, ids, now) /\ mon'.res.seq = m.res.seq
<1>1. mon' = Fail(m, ids, now) \/ mon' \in FailPrefixes(m, ids, now)
  BY DEF ReplayFailed
<1>2. QED
  BY <1>1, FailKeeps, FailedRests DEF Keeps, Moves

LEMMA DeliveredHolds == ASSUME BoundaryInv, ReplayDelivered PROVE Holds(mon, mon', now)
<1>1. SoundMon(mon) /\ now \in Nat
  BY BoundaryFacts
<1>2. PICK i \in DOMAIN replay.batch \ replay.done :
        LET done == replay.done \cup {i}
        IN  \/ UNCHANGED mon
            \/ mon' = AcknowledgeBatch(mon, done, now)
            \/ \E m \in AcknowledgePrefixes(mon, done, now) : ReplayFailed(m, done)
  BY Zenon DEF ReplayDelivered
<1> DEFINE done == replay.done \cup {i}
<1>3. CASE UNCHANGED mon
  BY <1>3, HoldsNot
<1>4. CASE mon' = AcknowledgeBatch(mon, done, now)
  BY <1>1, <1>4, AcknowledgeKeeps, SettledRests DEF Holds, Rests, Keeps, Moves
<1>5. ASSUME NEW m \in AcknowledgePrefixes(mon, done, now), ReplayFailed(m, done)
      PROVE  Holds(mon, mon', now)
  <2>1. Rests(mon.res, m.res, {}, {}, now) /\ Keeps(mon, m, done)
    BY <1>1, AcknowledgeKeeps, SettledRests
  <2>2. SoundMon(m) /\ m.res.seq = mon.res.seq
    BY <2>1 DEF Keeps, Moves
  <2> HIDE DEF done
  <2>3. Rests(m.res, mon'.res, {}, done, now) /\ mon'.res.seq = m.res.seq
    BY <1>1, <1>5, <2>2, FailedHolds
  <2>4. Rests(mon.res, mon'.res, {}, {} \cup done, now)
    BY <2>1, <2>3, RestsTwice
  <2>5. QED
    BY <2>2, <2>3, <2>4 DEF Holds, Rests
<1>6. QED
  BY <1>2, <1>3, <1>4, <1>5

LEMMA HealthHolds ==
  ASSUME BoundaryInv, NEW report \in HealthReports,
         UpdateComponentHealth(report[1], report[2])
  PROVE  Holds(mon, mon', now)
<1>1. /\ SoundMon(mon) /\ now \in Nat
      /\ report[1] \in Components /\ report[2] \in HealthStates
  BY BoundaryFacts, AdapterAssumption
<1>2. Steady(mon, mon')
  BY <1>1, HealthKeeps DEF UpdateComponentHealth
<1>3. QED
  BY <1>2, HoldsNot DEF Steady

LEMMA BackgroundStep == ASSUME BoundaryInv, Background PROVE BoundaryInv'
<1>1. /\ SoundMon(mon) /\ now \in Nat /\ IInv
      /\ UNCHANGED <<open, detached, told, storedAt, stored>> /\ open \in BOOLEAN
  BY BoundaryFacts DEF Background, BoundaryInv
<1>2. CASE PumpReplayBatch
  <2>1. Pump(mon) /\ UNCHANGED <<now, ingest, handled>>
    BY <1>2 DEF PumpReplayBatch
  <2>2. IInv' /\ Holds(mon, mon', now)
    BY <1>1, <2>1, PumpStep, PumpHolds
  <2>3. QED
    BY <1>1, <2>1, <2>2, SilentStep DEF Holds
<1>3. CASE QueueNotified \/ ClaimNotified \/ LastNotified
  <2>1. UNCHANGED <<now, ingest, handled>> /\ (Pump(mon) \/ UNCHANGED mon)
    BY <1>3 DEF QueueNotified, ClaimNotified, LastNotified
  <2>2. IInv' /\ Holds(mon, mon', now)
    BY <1>1, <1>3, <2>1, NotifiedStep, PumpHolds, HoldsNot
  <2>3. QED
    BY <1>1, <2>1, <2>2, SilentStep DEF Holds
<1>4. CASE ReplayDelivered
  <2>1. IInv' /\ Holds(mon, mon', now) /\ UNCHANGED <<now, ingest>>
    BY <1>1, <1>4, DeliveredStep, DeliveredHolds DEF ReplayDelivered
  <2>2. QED
    BY <1>1, <2>1, SilentStep DEF Holds
<1>5. CASE PruneReservoir
  <2>1. /\ UNCHANGED <<now, ingest>>
        /\ mon' \in {Pruned(mon, now)} \cup PrunePrefixes(mon, now)
    BY <1>5 DEF PruneReservoir
  <2>2. IInv' /\ Holds(mon, mon', now)
    BY <1>1, <1>5, <2>1, HealthSteps, PruneKeeps, PrunedRests
    DEF Holds, Rests, Keeps, Moves
  <2>3. QED
    BY <1>1, <2>1, <2>2, SilentStep DEF Holds
<1>6. ASSUME NEW report \in HealthReports, UpdateComponentHealth(report[1], report[2])
      PROVE  BoundaryInv'
  <2>1. IInv' /\ Holds(mon, mon', now)
    BY <1>1, <1>6, HealthSteps, HealthHolds
  <2>2. UNCHANGED <<now, ingest>>
    BY <1>6 DEF UpdateComponentHealth
  <2>3. QED
    BY <1>1, <2>1, <2>2, SilentStep DEF Holds
<1>7. QED
  BY <1>2, <1>3, <1>4, <1>5, <1>6 DEF Background, ReplayStep

LEMMA TimeStep == ASSUME BoundaryInv, TimePasses PROVE BoundaryInv'
<1>1. /\ now \in Nat /\ now' = now + 1 /\ UNCHANGED <<mon, ingest>>
      /\ UNCHANGED <<open, detached, told, storedAt, stored>>
      /\ storedAt \in [Slots -> 0..now]
  BY BoundaryFacts DEF TimePasses, Tick, BoundaryInv, Producers
<1>2. IInv'
  BY TickStep DEF TimePasses, BoundaryInv
<1>3. Producers'
  <2>1. 0..now \subseteq 0..now'
    BY <1>1
  <2>2. storedAt' \in [Slots -> 0..now']
    BY <1>1, <2>1
  <2>3. QED
    BY <1>1, <2>2 DEF BoundaryInv, Producers
<1>4. ASSUME NEW p \in Slots PROVE Honest(p)' /\ Found(p)'
  <2>1. Honest(p)'
    BY <1>1 DEF BoundaryInv, Honest, BytesOf
  <2>2. storedAt[p] \in Nat /\ Found(p) /\ ReconcileWithin \in Nat
    BY <1>1, BoundaryAssumption DEF BoundaryInv
  <2>3. Found(p)'
    BY <1>1, <2>2 DEF Found
  <2>4. QED
    BY <2>1, <2>3
<1>5. QED
  BY <1>1, <1>2, <1>3, <1>4 DEF BoundaryInv

-----------------------------------------------------------------------------
(* The life of the adapter.                                                *)

LEMMA CloseStep == ASSUME BoundaryInv, Close PROVE BoundaryInv'
<1>1. /\ UNCHANGED <<mon, now, ingest, handled, told, storedAt, stored>>
      /\ open' = FALSE /\ detached' = {p \in Slots : ingest[p].at # "none"}
      /\ replay' = ReplayAt("none", Nothing, {})
  BY NoReplayForm DEF Close
<1>2. IInv /\ Keeps(mon, mon', {})
  BY <1>1, BoundaryFacts, KeepsNot DEF BoundaryInv
<1>3. IInv'
  BY <1>1, <1>2, NoReplayForm, MonitorStep
<1>4. Holds(mon, mon', now)
  BY <1>1, HoldsNot
<1>5. QED
  BY <1>1, <1>3, <1>4, SilentStep DEF Holds

LEMMA OpenStep == ASSUME BoundaryInv, Open PROVE BoundaryInv'
<1>1. /\ mon' = Opened(mon.res, now) /\ open' = TRUE
      /\ UNCHANGED <<now, ingest, replay, handled, detached, told, storedAt, stored>>
  BY DEF Open
<1>2. IInv /\ Good(mon.res) /\ now \in Nat
  BY BoundaryFacts DEF BoundaryInv, SoundMon
<1>3. /\ SoundMon(mon') /\ Moves(mon.res, mon'.res, {})
      /\ mon'.session.state \in OpenStates => mon'.res.cached = 0
      /\ mon'.res = RecoverRestartState(mon.res)
  BY <1>1, <1>2, OpenedKeeps
<1>4. Keeps(mon, mon', {})
  BY <1>3 DEF Keeps, SessionKept
<1>5. IInv'
  BY <1>1, <1>2, <1>4, MonitorStep
<1>6. Holds(mon, mon', now)
  BY <1>2, <1>3, RecoverStays DEF Holds, Moves
<1>7. QED
  BY <1>1, <1>5, <1>6, SilentStep DEF Holds

\* With the process go the answers of all calls it had in flight, and of those
\* that had not stored anything yet.
LEMMA DieStep == ASSUME BoundaryInv, Die PROVE BoundaryInv'
<1>1. PICK calling \in SUBSET {p \in Slots : MayAsk(p)} :
        told' = [p \in Slots |->
          IF ingest[p].at # "none" \/ p \in calling THEN Lost ELSE told[p]]
  BY Zenon DEF Die
<1>2. /\ mon' = Opened(mon.res, now) /\ open' = TRUE /\ detached' = {}
      /\ ingest' = [s \in Slots |-> NoIngest]
      /\ UNCHANGED <<now, storedAt, stored>>
  BY DEF Die, Crash
<1>3. IInv' /\ Good(mon.res) /\ now \in Nat
  BY BoundaryFacts, CrashStep DEF Die, BoundaryInv, SoundMon
<1>4. Stays(mon.res, mon'.res, now) /\ mon'.res.seq = mon.res.seq
  BY <1>2, <1>3, OpenedKeeps, RecoverStays DEF Moves
<1>5. \A p \in Slots : ingest'[p].at = "none"
  BY <1>2 DEF NoIngest
<1>6. Producers'
  <2>1. told' \in [Slots -> Answers]
    BY <1>1, AnswerTypes DEF BoundaryInv, Producers
  <2>2. QED
    BY <1>2, <1>4, <2>1 DEF BoundaryInv, Producers
<1>7. ASSUME NEW p \in Slots PROVE Honest(p)' /\ Found(p)'
  <2>1. Found(p)'
    BY <1>2, <1>4, FoundKept
  <2>2. told'[p] = Lost \/ (told'[p] = told[p] /\ Honest(p))
    BY <1>1 DEF BoundaryInv
  <2>3. Honest(p)'
    BY <1>2, <1>5, <2>2 DEF Honest, BytesOf, Lost, Answer
  <2>4. QED
    BY <2>1, <2>3
<1>8. QED
  BY <1>2, <1>3, <1>6, <1>7 DEF BoundaryInv

-----------------------------------------------------------------------------
(* Calls.                                                                  *)

\* Only who has nothing stored may call, and then has one row.
LEMMA StoreStep == ASSUME BoundaryInv, NEW p \in Slots, Store(p) PROVE BoundaryInv'
<1> DEFINE id == mon.res.seq + 1
<1> DEFINE first(t) == IF t < now THEN t ELSE now
<1>0. PICK t \in Nat : mon' = Ingested(mon, EventBytes, t)
  BY IngestedAtSome DEF Store, BoundaryInv
<1>1. /\ Ingest(p)
      /\ ingest' = [ingest EXCEPT ![p] =
           [at |-> "onDecision", row |-> mon'.res.seq, action |-> IngressAction(mon)]]
      /\ told' = [told EXCEPT ![p] = InFlight]
      /\ stored' = [stored EXCEPT ![p] = @ \cup {mon'.res.seq}]
      /\ storedAt' = [storedAt EXCEPT ![p] = first(mon'.res.rows[mon'.res.seq].ingestAt)]
      /\ UNCHANGED <<now, open, detached>>
      /\ ingest[p].at = "none" /\ told[p].retryable
  BY DEF Store, Ingest, Tell, MayAsk
<1>2. /\ SoundMon(mon) /\ now \in Nat /\ mon.res.seq \in Nat /\ EventBytes \in Nat
      /\ DOMAIN mon.res.rows \subseteq 1..mon.res.seq
      /\ IInv /\ Producers /\ open \in BOOLEAN
  BY BoundaryFacts, AdapterAssumption DEF BoundaryInv
<1>3. /\ DOMAIN mon'.res.rows = (DOMAIN mon.res.rows) \cup {id}
      /\ mon'.res.seq = id
      /\ \A i \in DOMAIN mon.res.rows : mon'.res.rows[i] = mon.res.rows[i]
      /\ mon'.res.rows[id].ingestAt = t
      /\ \A since \in 0..t : Sane(mon'.res.rows[id], since)
  BY <1>0, <1>2, AppendedRows
<1>4. id \in 1..id /\ 1..mon.res.seq \subseteq 1..id /\ id \notin 1..mon.res.seq
      /\ first(t) \in 0..now /\ first(t) \in 0..t
  BY <1>2
<1> HIDE DEF id, first
<1>5. IInv'
  BY <1>1, <1>2, IngestSteps
<1>6. ingest \in [Slots -> [at: Awaits, row: 0..mon.res.seq, action: {"accept", "buffer_only"}]]
  BY <1>2 DEF IInv, IngestType
<1>7. ingest'[p].at = "onDecision" /\ \A q \in Slots \ {p} : ingest'[q] = ingest[q]
  BY <1>1, <1>6
<1>8. /\ told \in [Slots -> Answers] /\ storedAt \in [Slots -> 0..now]
      /\ stored \in [Slots -> SUBSET (1..mon.res.seq)] /\ InFlight \in Answers
      /\ detached \subseteq {q \in Slots : ingest[q].at # "none"}
  BY <1>2, AnswerTypes DEF Producers
<1>9. stored[p] = {}
  BY <1>1 DEF BoundaryInv, Honest
<1>10. /\ told'[p] = InFlight /\ stored'[p] = {id} /\ storedAt'[p] = first(t)
       /\ \A q \in Slots \ {p} :
            told'[q] = told[q] /\ stored'[q] = stored[q] /\ storedAt'[q] = storedAt[q]
  BY <1>1, <1>3, <1>8, <1>9
<1>11. Producers'
  <2>1. detached' \subseteq {q \in Slots : ingest'[q].at # "none"}
    BY <1>1, <1>7, <1>8
  <2>2. told' \in [Slots -> Answers] /\ storedAt' \in [Slots -> 0..now']
    BY <1>1, <1>3, <1>4, <1>8
  <2>3. stored' \in [Slots -> SUBSET (1..mon'.res.seq)]
    BY <1>1, <1>3, <1>4, <1>8
  <2>4. QED
    BY <2>1, <2>2, <2>3 DEF Producers
<1>12. Honest(p)' /\ Found(p)'
  <2>1. Honest(p)'
    BY <1>10 DEF Honest, InFlight, Answer
  <2>2. Found(p)'
    BY <1>1, <1>3, <1>4, <1>10 DEF Found
  <2>3. QED
    BY <2>1, <2>2
<1>13. ASSUME NEW q \in Slots \ {p} PROVE Honest(q)' /\ Found(q)'
  <2>1. Honest(q) /\ Found(q) /\ stored[q] \subseteq 1..mon.res.seq
    BY <1>8, <1>13 DEF BoundaryInv
  <2>2. Honest(q)'
    BY <1>7, <1>10, <2>1 DEF Honest, BytesOf
  <2>3. \A i \in stored[q] :
          i \in DOMAIN mon'.res.rows => /\ i \in DOMAIN mon.res.rows
                                        /\ mon'.res.rows[i] = mon.res.rows[i]
    BY <1>3, <1>4, <2>1
  <2>4. Found(q)'
    BY <1>1, <1>3, <1>10, <2>1, <2>3 DEF Found
  <2>5. QED
    BY <2>2, <2>4
<1>14. QED
  BY <1>1, <1>2, <1>5, <1>11, <1>12, <1>13 DEF BoundaryInv

\* A call that throws before its first await leaves the table as it is, and at
\* most the cached count off.
LEMMA ThrowStep ==
  ASSUME BoundaryInv, NEW p \in Slots, NEW m, NEW error \in Answers, Throws(p, m, error),
         m = mon \/ \E c \in Int : m = [mon EXCEPT !.res.cached = c],
         error.outcome \in {"definite_rejection", "unknown"}, error.code # "in_flight"
  PROVE  BoundaryInv'
<1>1. /\ mon' = m /\ Tell(p, error) /\ ingest[p].at = "none" /\ told[p].retryable
      /\ UNCHANGED <<now, ingest, replay, handled, open, detached, stored, storedAt>>
  BY DEF Throws, MayAsk
<1>2. SoundMon(mon) /\ now \in Nat /\ handled \subseteq 1..mon.res.seq
  BY BoundaryFacts
<1>3. /\ SoundMon(mon') /\ mon'.res.rows = mon.res.rows /\ mon'.res.seq = mon.res.seq
  <2>1. CASE m = mon
    BY <1>1, <1>2, <2>1
  <2>2. ASSUME NEW c \in Int, m = [mon EXCEPT !.res.cached = c]
        PROVE  /\ SoundMon(mon') /\ mon'.res.rows = mon.res.rows
               /\ mon'.res.seq = mon.res.seq
    <3> DEFINE r == [mon.res EXCEPT !.cached = c]
    <3>1. Good(r) /\ r.rows = mon.res.rows /\ r.seq = mon.res.seq
      BY <1>2, CachedGood DEF SoundMon, Good, IsReservoir
    <3>2. mon' = [mon EXCEPT !.res = r]
      BY <1>1, <1>2, <2>2 DEF SoundMon, IsMonitor
    <3> HIDE DEF r
    <3>3. mon'.res = r /\ IsMonitor(mon')
      BY <1>2, <3>1, <3>2 DEF SoundMon, IsMonitor, Good
    <3>4. QED
      BY <3>1, <3>3 DEF SoundMon
  <2>3. QED
    BY <2>1, <2>2
<1>4. IInv'
  <2>1. IngestType' /\ IngestSound' /\ ReplayType'
    BY <1>1, <1>3 DEF BoundaryInv, IInv, IngestType, IngestSound, ReplayType
  <2>2. DeliveredRows(mon'.res) = DeliveredRows(mon.res)
    BY <1>3 DEF DeliveredRows
  <2>3. QED
    BY <1>1, <1>3, <2>1, <2>2 DEF BoundaryInv, IInv
<1>5. Stays(mon.res, mon'.res, now)
  BY <1>3 DEF Stays, RowRests
<1>6. stored[p] = {}
  BY <1>1 DEF BoundaryInv, Honest
<1>7. QED
  BY <1>1, <1>3, <1>4, <1>5, <1>6, AnsweredStep

LEMMA CapacityAnswers ==
  /\ CapacityRefused("serialized_event_bytes") =
       Answer("capacity_refused", "definite_rejection", FALSE)
  /\ CapacityRefused("pending") = Answer("capacity_refused", "definite_rejection", TRUE)
  BY DEF CapacityRefused, Rejection

LEMMA CallStep == ASSUME BoundaryInv, NEW p \in Slots, Call(p) PROVE BoundaryInv'
<1> USE DEF Answer
<1>1. CASE Store(p)
  BY <1>1, StoreStep
<1>2. CASE RejectClosed(p)
  <2>1. Throws(p, mon, MonitorClosed)
    BY <1>2 DEF RejectClosed
  <2>2. QED
    BY <2>1, AnswerTypes, ThrowStep DEF MonitorClosed, Rejection
<1>3. CASE RefuseAdmission(p)
  <2>1. Throws(p, mon, AdmissionRefused)
    BY <1>3 DEF RefuseAdmission
  <2>2. QED
    BY <2>1, AnswerTypes, ThrowStep DEF AdmissionRefused, Rejection
<1>4. CASE RefuseLarge(p)
  <2>1. Throws(p, mon, CapacityRefused("serialized_event_bytes"))
    BY <1>4 DEF RefuseLarge
  <2> DEFINE error == CapacityRefused("serialized_event_bytes")
  <2>2. error \in Answers /\ error = Answer("capacity_refused", "definite_rejection", FALSE)
    BY AnswerTypes, CapacityAnswers
  <2> HIDE DEF error
  <2>3. QED
    BY <2>1, <2>2, ThrowStep DEF error
<1>5. mon.res.pendingRows \in Int /\ mon.res.cached \in Int
  BY BoundaryFacts DEF SoundMon, IsMonitor, IsReservoir
<1>6. CASE RefuseQuota(p)
  <2> DEFINE error == CapacityRefused("pending")
             m == [mon EXCEPT !.res = RolledBack(@, @)]
  <2>1. Throws(p, m, error)
    BY <1>6 DEF RefuseQuota
  <2>2. error \in Answers /\ error = Answer("capacity_refused", "definite_rejection", TRUE)
    BY AnswerTypes, CapacityAnswers
  <2>3. m = [mon EXCEPT !.res.cached = mon.res.pendingRows]
    BY BoundaryFacts DEF RolledBack, SoundMon, IsMonitor
  <2> HIDE DEF error, m
  <2>4. QED
    BY <1>5, <2>1, <2>2, <2>3, ThrowStep
<1>7. CASE FindBusy(p)
  <2> DEFINE error == BoundaryError(Raw("busy"))
  <2>1. Throws(p, mon, error) /\ "busy" \in WriteErrors
    BY <1>7 DEF FindBusy
  <2>2. /\ error \in Answers /\ error.outcome \in {"definite_rejection", "unknown"}
        /\ error.code \notin {"in_flight", "capacity_refused"}
    BY <2>1, WriteErrorAnswers DEF Texts, RecognizedTexts
  <2> HIDE DEF error
  <2>3. QED
    BY <2>1, <2>2, ThrowStep
<1>8. CASE FailWrite(p)
  <2> DEFINE attempted == Ingested(mon, BytesOf(p), now).res
  <2>1. PICK text \in WriteErrors \ {"busy"} :
          Throws(p, [mon EXCEPT !.res = IF text = "no_transaction"
                                        THEN AutoRolledBack(@, attempted)
                                        ELSE RolledBack(@, attempted)],
                 BoundaryError(Raw(text)))
    BY <1>8, Zenon DEF FailWrite
  <2> DEFINE error == BoundaryError(Raw(text))
             m == [mon EXCEPT !.res = IF text = "no_transaction"
                                      THEN AutoRolledBack(@, attempted)
                                      ELSE RolledBack(@, attempted)]
  <2>2. /\ error \in Answers /\ error.outcome \in {"definite_rejection", "unknown"}
        /\ error.code \notin {"in_flight", "capacity_refused"}
    BY WriteErrorAnswers DEF Texts, RecognizedTexts
  <2>3. attempted.cached \in Int
    <3>1. BytesOf(p) \in Nat
      BY AdapterAssumption, BoundaryAssumption DEF BytesOf
    <3>2. SoundMon(Ingested(mon, BytesOf(p), now))
      BY <3>1, BoundaryFacts, IngestedSound
    <3>3. QED
      BY <3>2 DEF SoundMon, Good, IsReservoir
  <2> HIDE DEF attempted
  <2>4. \E c \in Int : m = [mon EXCEPT !.res.cached = c]
    <3>1. CASE text = "no_transaction"
      <4>1. m = [mon EXCEPT !.res.cached = attempted.cached]
        BY <3>1, BoundaryFacts DEF AutoRolledBack, SoundMon, IsMonitor
      <4>2. QED
        BY <2>3, <4>1
    <3>2. CASE text # "no_transaction"
      <4>1. m = [mon EXCEPT !.res.cached = mon.res.pendingRows]
        BY <3>2, BoundaryFacts DEF RolledBack, SoundMon, IsMonitor
      <4>2. QED
        BY <1>5, <4>1
    <3>3. QED
      BY <3>1, <3>2
  <2>5. Throws(p, m, error)
    BY <2>1
  <2> HIDE DEF error, m
  <2>6. QED
    BY <2>2, <2>4, <2>5, ThrowStep
<1>9. QED
  BY <1>1, <1>2, <1>3, <1>4, <1>6, <1>7, <1>8 DEF Call

\* The end of a call whose event is stored: whatever it is told, it is not that
\* the event was refused.
LEMMA CallEnds ==
  ASSUME BoundaryInv, IInv', NEW p \in Slots, NEW answer \in {Accepted, Indeterminate},
         Tell(p, answer), CallOver(p), IngestOver(p), now' = now,
         ingest[p].at # "none", Holds(mon, mon', now)
  PROVE  BoundaryInv'
<1>1. /\ ingest \in [Slots -> [at: Awaits, row: 0..mon.res.seq,
                               action: {"accept", "buffer_only"}]]
      /\ ingest' = [ingest EXCEPT ![p] = NoIngest] /\ NoIngest.at = "none"
  BY DEF BoundaryInv, IInv, IngestType, IngestOver, NoIngest
<1>2. ingest'[p].at = "none" /\ \A q \in Slots \ {p} : ingest'[q] = ingest[q]
  BY <1>1
<1>3. detached' = detached \ {p} /\ UNCHANGED <<open, storedAt, stored>>
  BY DEF CallOver
<1>4. stored[p] # {}
  <2>1. Honest(p)
    BY DEF BoundaryInv
  <2>2. told[p].code = "in_flight"
    BY <2>1 DEF Honest, InFlight, Answer
  <2>3. QED
    BY <2>1, <2>2 DEF Honest
<1>5. /\ answer \in Answers /\ ~answer.retryable /\ answer.outcome # "definite_rejection"
      /\ answer.code \notin {"in_flight", "capacity_refused"}
  <2>1. CASE answer = Accepted
    BY <2>1, AnswerTypes DEF Accepted, Answer
  <2>2. CASE answer = Indeterminate
    BY <2>2, AnswerTypes DEF Indeterminate, Answer
  <2>3. QED
    BY <2>1, <2>2, Zenon
<1> HIDE DEF Accepted, Indeterminate
<1>6. QED
  BY <1>2, <1>3, <1>4, <1>5, AnsweredStep DEF Holds

LEMMA CallsAnswered == ASSUME BoundaryInv, NEW p \in Slots, Answered(p) PROVE BoundaryInv'
<1>1. /\ SoundMon(mon) /\ now \in Nat /\ IInv /\ open \in BOOLEAN
      /\ handled \subseteq 1..mon.res.seq
      /\ ingest \in [Slots -> [at: Awaits, row: 0..mon.res.seq,
                               action: {"accept", "buffer_only"}]]
  BY BoundaryFacts DEF BoundaryInv, IInv, IngestType
<1>2. CASE Decided(p)
  <2>1. /\ DecisionObserved(p)
        /\ UNCHANGED <<mon, now, open, detached, told, storedAt, stored>>
    BY <1>2 DEF Decided, DecisionObserved
  <2>2. /\ ingest'[p].at # "none" /\ ingest[p].at # "none"
        /\ \A q \in Slots \ {p} : ingest'[q] = ingest[q]
    BY <1>1, <2>1 DEF DecisionObserved
  <2>3. IInv' /\ Holds(mon, mon', now)
    BY <1>1, <2>1, LiveSteps, HoldsNot DEF LiveStep
  <2>4. QED
    BY <1>1, <2>1, <2>2, <2>3, SilentStep DEF Holds
<1>3. CASE Buffered(p)
  <2>1. BufferedObserved(p) /\ Tell(p, Accepted) /\ CallOver(p)
    BY <1>3 DEF Buffered
  <2>2. IngestOver(p) /\ UNCHANGED <<mon, now>> /\ ingest[p].at # "none"
    BY <2>1 DEF BufferedObserved
  <2>3. IInv' /\ Holds(mon, mon', now)
    BY <1>1, <2>1, <2>2, LiveSteps, HoldsNot DEF LiveStep
  <2>4. QED
    BY <2>1, <2>2, <2>3, CallEnds
<1>4. CASE Delivered(p)
  <2>1. /\ LiveDelivered(p) /\ Tell(p, Accepted) /\ CallOver(p)
        /\ mon' = RowsDelivered(mon, {ingest[p].row}, now)
    BY <1>4 DEF Delivered
  <2>2. IngestOver(p) /\ now' = now /\ ingest[p].at # "none"
    BY <2>1 DEF LiveDelivered
  <2>3. IInv'
    BY <1>1, <2>1, LiveSteps DEF LiveStep
  <2>4. Holds(mon, mon', now)
    BY <1>1, <2>1, DeliveredKeeps, SettledRests DEF Holds, Rests, Keeps, Moves
  <2>5. QED
    BY <2>1, <2>2, <2>3, <2>4, CallEnds
<1>5. CASE Unacknowledged(p)
  <2>1. /\ ingest[p].at = "deliver" /\ handled' = handled \cup {ingest[p].row}
        /\ IngestOver(p) /\ CallOver(p) /\ UNCHANGED <<mon, now, replay>>
        /\ Tell(p, Indeterminate)
    BY <1>5 DEF Unacknowledged, AfterStorage
  <2>2. ingest[p].row \in 1..mon.res.seq
    <3>1. ingest[p].row # 0 /\ ingest[p].row \in 0..mon.res.seq /\ mon.res.seq \in Nat
      BY <1>1, <2>1, BoundaryFacts DEF IInv, IngestSound
    <3>2. QED
      BY <3>1
  <2>3. handled \subseteq handled' /\ handled' \subseteq 1..mon.res.seq
    BY <1>1, <2>1, <2>2
  <2>4. IngestType' /\ IngestSound'
    BY <1>1, <2>1, SlotMoves
  <2>5. IInv'
    BY <1>1, <2>1, <2>3, <2>4 DEF IInv, ReplayType
  <2>6. Holds(mon, mon', now)
    BY <2>1, HoldsNot
  <2>7. QED
    BY <2>1, <2>5, <2>6, CallEnds
<1>6. CASE HandlerRejects(p)
  <2>1. IngestFails(p) /\ Tell(p, Indeterminate) /\ CallOver(p)
    BY <1>6 DEF HandlerRejects, AfterStorage
  <2>2. IngestOver(p) /\ UNCHANGED <<mon, now>> /\ ingest[p].at # "none"
    BY <2>1 DEF IngestFails
  <2>3. IInv' /\ Holds(mon, mon', now)
    BY <1>1, <2>1, <2>2, LiveSteps, HoldsNot
  <2>4. QED
    BY <2>1, <2>2, <2>3, CallEnds
<1>7. QED
  BY <1>2, <1>3, <1>4, <1>5, <1>6 DEF Answered

\* Who looks in time finds the row of its event, if one was stored.
LEMMA ReconciledStep == ASSUME BoundaryInv, NEW p \in Slots, Reconcile(p) PROVE BoundaryInv'
<1> DEFINE found == stored[p] \cap DOMAIN mon.res.rows # {}
           answer == IF found THEN Accepted ELSE NotAsked
<1>1. /\ told[p].outcome \in {"indeterminate", "unknown"}
      /\ stored[p] # {} => now - storedAt[p] < ReconcileWithin
      /\ Tell(p, answer)
      /\ UNCHANGED <<mon, now, ingest, replay, handled>>
      /\ UNCHANGED <<open, detached, storedAt, stored>>
  BY DEF Reconcile, vars
<1>2. /\ now \in Nat /\ storedAt[p] \in Nat /\ ReconcileWithin \in Nat
      /\ Honest(p) /\ Found(p)
  BY BoundaryFacts, BoundaryAssumption DEF BoundaryInv, Producers
<1>3. IInv'
  BY <1>1 DEF BoundaryInv, IInv, IngestType, IngestSound, ReplayType
<1>4. ingest[p].at = "none"
  BY <1>1, <1>2 DEF Honest, InFlight, Answer
<1>5. found \/ stored[p] = {}
  BY <1>1, <1>2 DEF Found
<1>6. /\ answer \in Answers /\ answer.code \notin {"in_flight", "capacity_refused"}
      /\ answer.retryable \/ answer.outcome = "definite_rejection" => stored[p] = {}
      /\ answer.outcome \in {"accepted", "indeterminate"} => stored[p] # {}
  <2>1. CASE found
    BY <2>1, AnswerTypes DEF Accepted, Answer
  <2>2. CASE ~found
    BY <1>5, <2>2, AnswerTypes DEF NotAsked, Answer
  <2>3. QED
    BY <2>1, <2>2
<1> HIDE DEF answer
<1>7. Holds(mon, mon', now)
  BY <1>1, HoldsNot
<1>8. QED
  BY <1>1, <1>3, <1>4, <1>6, <1>7, AnsweredStep DEF Holds

-----------------------------------------------------------------------------
(* The invariant and what follows from it.                                 *)

LEMMA BoundaryStep ==
  ASSUME BoundaryInv, [BoundaryNext]_boundaryVars
  PROVE  BoundaryInv'
<1>1. CASE UNCHANGED boundaryVars
  <2>1. /\ UNCHANGED <<mon, now, ingest, replay, handled>>
        /\ UNCHANGED <<open, detached, told, storedAt, stored>>
    BY <1>1 DEF boundaryVars, vars
  <2>2. IInv'
    BY <2>1 DEF BoundaryInv, IInv, IngestType, IngestSound, ReplayType
  <2>3. Holds(mon, mon', now) /\ open \in BOOLEAN
    BY <2>1, HoldsNot DEF BoundaryInv
  <2>4. QED
    BY <2>1, <2>2, <2>3, SilentStep DEF Holds
<1>2. ASSUME NEW p \in Slots, Call(p) \/ Answered(p) \/ Reconcile(p)
      PROVE  BoundaryInv'
  BY <1>2, CallStep, CallsAnswered, ReconciledStep
<1>3. QED
  BY <1>1, <1>2, CloseStep, OpenStep, DieStep, BackgroundStep, TimeStep DEF BoundaryNext

LEMMA BoundaryInitially == BoundaryInit => BoundaryInv
<1>1. SUFFICES ASSUME BoundaryInit PROVE BoundaryInv
  OBVIOUS
<1>2. /\ IInv /\ now = 0 /\ open = TRUE /\ detached = {}
      /\ told = [p \in Slots |-> NotAsked]
      /\ storedAt = [p \in Slots |-> 0] /\ stored = [p \in Slots |-> {}]
      /\ ingest = [p \in Slots |-> NoIngest]
  BY <1>1, Initially DEF BoundaryInit, Init
<1>3. Producers
  BY <1>2, AnswerTypes DEF Producers
<1>4. \A p \in Slots : Honest(p) /\ Found(p)
  BY <1>2 DEF Honest, Found, NotAsked, NoIngest, Answer
<1>5. QED
  BY <1>2, <1>3, <1>4 DEF BoundaryInv

THEOREM BoundaryInvariant == BoundarySpec => []BoundaryInv
  BY BoundaryInitially, BoundaryStep, PTL DEF BoundarySpec

\* Type correctness.
THEOREM BoundaryTypeCorrect == BoundarySpec => []BoundaryTypeOK
<1>1. BoundaryInv => BoundaryTypeOK
  BY DEF BoundaryInv, BoundaryTypeOK, IInv, TypeOK, SoundMon, IngestType, ReplayType,
         Producers
<1>2. QED
  BY <1>1, BoundaryInvariant, PTL

\* A rejection that is called definite is of an event of which nothing was
\* stored; an acceptance or an open outcome is of one of which something was.
THEOREM AnswersTrue == BoundarySpec => []AnswersAreTrue
<1>1. BoundaryInv => AnswersAreTrue
  BY DEF BoundaryInv, Honest, AnswersAreTrue
<1>2. QED
  BY <1>1, BoundaryInvariant, PTL

\* No event gets in twice, whatever its producer is answered and however often
\* it may call again, if an open outcome is looked up while retention, which
\* goes by the time the event gives, cannot have deleted the row.
THEOREM OnceStored == BoundarySpec => []StoredOnce
<1>1. ASSUME BoundaryInv, NEW p \in Slots PROVE Cardinality(stored[p]) <= 1
  <2>1. CASE stored[p] = {}
    BY <2>1, FS_EmptySet
  <2>2. ASSUME NEW i \in stored[p] PROVE Cardinality(stored[p]) <= 1
    <3>1. stored[p] = {i}
      BY <1>1, <2>2 DEF BoundaryInv, Found
    <3>2. Cardinality({i}) = 1
      BY FS_Singleton
    <3>3. QED
      BY <3>1, <3>2
  <2>3. QED
    BY <2>1, <2>2
<1>2. BoundaryInv => StoredOnce
  BY <1>1 DEF StoredOnce
<1>3. QED
  BY <1>2, BoundaryInvariant, PTL
=============================================================================
