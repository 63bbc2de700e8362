------------------------ MODULE HealthTrackerProofs ------------------------
(***************************************************************************)
(* NoPrematureSuspicion for every choice of thresholds, delays and times.  *)
(***************************************************************************)
EXTENDS HealthTracker, TLAPS

\* The tracker's heartbeat time may run ahead of the latest true evidence, for
\* a refresh to degraded renews it, and lags behind it by no more than the
\* lateness of the last report, which alone can move it back.
TypeInv ==
  /\ health \in HealthTable
  /\ aliveAt \in [Components -> Nat]
  /\ delay \in [Components -> Nat]
  /\ now \in Nat
  /\ refreshed \in BOOLEAN
EvidenceCounted ==
  \A c \in Components :
    /\ aliveAt[c] <= health[c].heartbeatAt + delay[c]
    /\ aliveAt[c] <= now
    /\ health[c].heartbeatAt <= now
IInv == TypeInv /\ EvidenceCounted /\ NoPrematureSuspicion

\* What an update leaves in the table.
LEMMA Updating ==
  ASSUME NEW t \in HealthTable, NEW c \in Components, NEW s \in HealthStates, NEW at \in Nat
  PROVE  /\ ComponentUpdated(t, c, s, at) \in HealthTable
         /\ ComponentUpdated(t, c, s, at)[c].state = s
         /\ s # "offline" => ComponentUpdated(t, c, s, at)[c].heartbeatAt = at
         /\ s = "offline" =>
              ComponentUpdated(t, c, s, at)[c].heartbeatAt = t[c].heartbeatAt
         /\ \A d \in Components \ {c} : ComponentUpdated(t, c, s, at)[d] = t[d]
  BY DEF ComponentUpdated, HealthTable

LEMMA Deriving ==
  ASSUME NEW c \in Components, NEW e \in Int
  PROVE  /\ StateFromElapsed(c, e) \in HealthStates
         /\ StateFromElapsed(c, e) = "offline" => e >= OfflineAfter[c]
         /\ StateFromElapsed(c, e) = "degraded" => e >= DegradedAfter[c]
  BY ThresholdAssumption DEF StateFromElapsed, HealthStates

\* What a refresh leaves of one component: the derived state, and a heartbeat
\* time that is kept or renewed.
LEMMA Refreshing ==
  ASSUME NEW t \in HealthTable, NEW c \in Components, NEW at \in Nat
  PROVE  LET r == StatesRefreshed(t, at)[c]
         IN  /\ r \in [state: HealthStates, heartbeatAt: Nat]
             /\ r.state = StateFromElapsed(c, at - t[c].heartbeatAt)
             /\ r.heartbeatAt \in {t[c].heartbeatAt, at}
<1> DEFINE next == StateFromElapsed(c, at - t[c].heartbeatAt)
<1>1. t[c] \in [state: HealthStates, heartbeatAt: Nat]
  BY DEF HealthTable
<1>2. next \in HealthStates
  BY <1>1, Deriving
<1>3. StatesRefreshed(t, at)[c] =
        IF next # t[c].state THEN ComponentUpdated(t, c, next, at)[c] ELSE t[c]
  BY DEF StatesRefreshed
<1>4. ComponentUpdated(t, c, next, at) \in HealthTable
  BY <1>2, Updating
<1>5. ComponentUpdated(t, c, next, at)[c] \in [state: HealthStates, heartbeatAt: Nat]
  BY <1>4 DEF HealthTable
<1>6. /\ ComponentUpdated(t, c, next, at)[c].state = next
      /\ ComponentUpdated(t, c, next, at)[c].heartbeatAt \in {t[c].heartbeatAt, at}
  BY <1>2, Updating
<1> HIDE DEF next
<1>7. QED
  BY <1>1, <1>3, <1>5, <1>6 DEF next

LEMMA Initially == Init => IInv
<1> SUFFICES ASSUME Init PROVE IInv
  OBVIOUS
<1>1. \A c \in Components : health[c] = [state |-> "online", heartbeatAt |-> 0]
  BY DEF Init, InitialHealth
<1>2. health \in HealthTable
  BY DEF Init, InitialHealth, HealthTable, HealthStates
<1>3. /\ aliveAt = [c \in Components |-> 0]
      /\ delay = [c \in Components |-> 0]
      /\ now = 0 /\ refreshed = FALSE
  BY DEF Init
<1>4. aliveAt \in [Components -> Nat] /\ delay \in [Components -> Nat] /\ now \in Nat
  BY <1>3
<1>5. TypeInv
  BY <1>2, <1>3, <1>4, Zenon DEF TypeInv
<1>6. EvidenceCounted
  BY <1>1, <1>3 DEF EvidenceCounted
<1>7. NoPrematureSuspicion
  BY <1>3, Zenon DEF NoPrematureSuspicion
<1>8. QED
  BY <1>5, <1>6, <1>7 DEF IInv

\* A report of life moves the tracker's time to its own, which lies behind the
\* present by its lateness; one of offline moves neither time.
LEMMA Reporting ==
  ASSUME IInv, NEW c \in Components, NEW at \in ObservationTimes,
         NEW s \in HealthStates, UpdateComponentHealth(c, s, at)
  PROVE  IInv'
<1> USE DEF IInv, TypeInv
<1>1. at \in Nat /\ at <= now /\ now - at \in Nat
  BY DEF ObservationTimes
<1>2. health' = ComponentUpdated(health, c, s, at) /\ now' = now /\ refreshed' = FALSE
  BY DEF UpdateComponentHealth
<1>3. health' \in HealthTable
  BY <1>1, <1>2, Updating
<1>4. aliveAt' \in [Components -> Nat] /\ delay' \in [Components -> Nat]
  BY <1>1 DEF UpdateComponentHealth, Evidence
<1>5. ASSUME NEW d \in Components
      PROVE  /\ aliveAt'[d] <= health'[d].heartbeatAt + delay'[d]
             /\ aliveAt'[d] <= now'
             /\ health'[d].heartbeatAt <= now'
  <2>1. /\ aliveAt[d] <= health[d].heartbeatAt + delay[d]
        /\ aliveAt[d] <= now
        /\ health[d].heartbeatAt <= now
    BY DEF EvidenceCounted
  <2>2. CASE d # c
    <3>1. health'[d] = health[d]
      <4>1. health \in HealthTable /\ d \in Components \ {c}
        BY <2>2
      <4>2. ComponentUpdated(health, c, s, at)[d] = health[d]
        BY <4>1 DEF ComponentUpdated, HealthTable
      <4>3. QED
        BY <1>2, <4>2, Zenon
    <3>2. aliveAt'[d] = aliveAt[d] /\ delay'[d] = delay[d]
      BY <2>2 DEF UpdateComponentHealth, Evidence
    <3>3. QED
      BY <1>2, <2>1, <3>1, <3>2
  <2>3. CASE d = c /\ s = "offline"
    BY <1>1, <1>2, <2>1, <2>3, Updating DEF UpdateComponentHealth
  <2>4. CASE d = c /\ s # "offline"
    <3>1. health'[c].heartbeatAt = at
      BY <1>1, <1>2, <2>4, Updating
    <3>2. /\ aliveAt'[c] = IF aliveAt[c] < at THEN at ELSE aliveAt[c]
          /\ delay'[c] = now - at
      BY <2>4 DEF UpdateComponentHealth, Evidence
    <3>3. aliveAt[c] \in Nat
      OBVIOUS
    <3>4. QED
      BY <1>1, <1>2, <2>1, <2>4, <3>1, <3>2, <3>3
  <2>5. QED
    BY <2>2, <2>3, <2>4
<1>6. QED
  BY <1>2, <1>3, <1>4, <1>5 DEF EvidenceCounted, NoPrematureSuspicion

LEMMA RefreshStep ==
  ASSUME IInv, RefreshStates
  PROVE  IInv'
<1> USE DEF IInv, TypeInv
<1>1. health' = StatesRefreshed(health, now) /\ UNCHANGED <<now, aliveAt, delay>> /\ refreshed' = TRUE
  BY DEF RefreshStates
<1>2. ASSUME NEW c \in Components
      PROVE  /\ health'[c] \in [state: HealthStates, heartbeatAt: Nat]
             /\ aliveAt[c] <= health'[c].heartbeatAt + delay[c]
             /\ aliveAt[c] <= now
             /\ health'[c].heartbeatAt <= now
             /\ health'[c].state = "offline" =>
                  (now - aliveAt[c]) + delay[c] >= OfflineAfter[c]
             /\ health'[c].state = "degraded" =>
                  (now - aliveAt[c]) + delay[c] >= DegradedAfter[c]
  <2> DEFINE e == now - health[c].heartbeatAt
  <2>1. health[c].heartbeatAt \in Nat /\ aliveAt[c] \in Nat /\ delay[c] \in Nat
    BY DEF HealthTable
  <2>2. /\ aliveAt[c] <= health[c].heartbeatAt + delay[c]
        /\ aliveAt[c] <= now
        /\ health[c].heartbeatAt <= now
    BY DEF EvidenceCounted
  <2>3. /\ health'[c] \in [state: HealthStates, heartbeatAt: Nat]
        /\ health'[c].state = StateFromElapsed(c, e)
        /\ health'[c].heartbeatAt \in {health[c].heartbeatAt, now}
    BY <1>1, Refreshing
  <2>4. e \in Int /\ e <= (now - aliveAt[c]) + delay[c]
    BY <2>1, <2>2
  <2>5. /\ StateFromElapsed(c, e) = "offline" => e >= OfflineAfter[c]
        /\ StateFromElapsed(c, e) = "degraded" => e >= DegradedAfter[c]
    BY <2>4, Deriving
  <2>6. OfflineAfter[c] \in Nat /\ DegradedAfter[c] \in Nat
    BY ThresholdAssumption
  <2> HIDE DEF e
  <2>7. QED
    BY <2>1, <2>2, <2>3, <2>4, <2>5, <2>6
<1>3. health' \in HealthTable
  <2>1. health' = [c \in Components |-> health'[c]]
    BY <1>1 DEF StatesRefreshed
  <2>2. QED
    BY <1>2, <2>1 DEF HealthTable
<1>4. QED
  BY <1>1, <1>2, <1>3 DEF EvidenceCounted, NoPrematureSuspicion, Silence

LEMMA Step == IInv /\ [Next]_vars => IInv'
<1> SUFFICES ASSUME IInv, [Next]_vars PROVE IInv'
  OBVIOUS
<1>1. CASE \E c \in Components, at \in ObservationTimes : ObserveHeartbeat(c, at)
  <2>1. PICK c \in Components, at \in ObservationTimes : ObserveHeartbeat(c, at)
    BY <1>1
  <2>2. "online" \in HealthStates
    BY DEF HealthStates
  <2>3. UpdateComponentHealth(c, "online", at)
    BY <2>1 DEF ObserveHeartbeat, UpdateComponentHealth, HeartbeatObserved
  <2>4. QED
    BY <2>2, <2>3, Reporting
<1>2. CASE \E c \in Components, at \in ObservationTimes, s \in HealthStates :
             UpdateComponentHealth(c, s, at)
  BY <1>2, Reporting
<1>3. CASE RefreshStates
  BY <1>3, RefreshStep
<1>4. CASE Tick
  <2>1. UNCHANGED <<health, aliveAt, delay>> /\ now' = now + 1 /\ refreshed' = FALSE
    BY <1>4 DEF Tick
  <2>2. \A c \in Components : health[c].heartbeatAt \in Nat
    BY DEF IInv, TypeInv, HealthTable
  <2>3. EvidenceCounted'
    BY <2>1, <2>2 DEF IInv, TypeInv, EvidenceCounted
  <2>4. now' \in Nat
    BY <2>1 DEF IInv, TypeInv
  <2>5. TypeInv'
    BY <2>1, <2>4, Zenon DEF IInv, TypeInv
  <2>6. NoPrematureSuspicion'
    BY <2>1 DEF NoPrematureSuspicion
  <2>7. QED
    BY <2>3, <2>5, <2>6 DEF IInv
<1>5. CASE UNCHANGED vars
  BY <1>5 DEF vars, IInv, TypeInv, EvidenceCounted, NoPrematureSuspicion, Silence
<1>6. QED
  BY <1>1, <1>2, <1>3, <1>4, <1>5 DEF Next

\* Whatever the thresholds and the delays of the reports, HealthTracker's
\* refreshStates suspects no component earlier, counted from the latest
\* evidence of its life, than its thresholds allow less the lateness of its
\* last report; a component whose last report came on time never.
THEOREM SuspicionJustified == Spec => []NoPrematureSuspicion
<1>1. IInv => NoPrematureSuspicion
  BY DEF IInv
<1>2. QED
  BY Initially, Step, <1>1, PTL DEF Spec
=============================================================================
