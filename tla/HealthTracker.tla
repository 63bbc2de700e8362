--------------------------- MODULE HealthTracker ----------------------------
(***************************************************************************)
(* HealthTracker on its own: reports and heartbeats from the application,  *)
(* and refreshes, at any times.                                            *)
(***************************************************************************)
EXTENDS HealthOps

CONSTANTS
  MaxDelay,   \* how much older than now a report's observedAt may be
  MaxTime     \* bound on the clock

ASSUME DelayAssumption == MaxDelay \in Nat

VARIABLES
  health,     \* the tracker's table
  now,        \* the clock
  aliveAt,    \* history: the latest time at which each component was seen alive
  delay,      \* history: how late its last report of life came
  refreshed   \* history: the last step was a refresh
vars == <<health, now, aliveAt, delay, refreshed>>

Init ==
  /\ health = InitialHealth(0)
  /\ now = 0
  /\ aliveAt = [c \in Components |-> 0]
  /\ delay = [c \in Components |-> 0]
  /\ refreshed = FALSE

ObservationTimes == {t \in 0..now : now - t <= MaxDelay}

\* Evidence of life observed at some time, reported now. Evidence is never
\* unseen: a report older than what is known leaves aliveAt where it is.
Evidence(c, at) ==
  /\ aliveAt' = [aliveAt EXCEPT ![c] = IF @ < at THEN at ELSE @]
  /\ delay' = [delay EXCEPT ![c] = now - at]

\* updateComponentHealth called by the application.
UpdateComponentHealth(c, state, at) ==
  /\ health' = ComponentUpdated(health, c, state, at)
  /\ IF state = "offline" THEN UNCHANGED <<aliveAt, delay>> ELSE Evidence(c, at)
  /\ refreshed' = FALSE
  /\ UNCHANGED now

ObserveHeartbeat(c, at) ==
  /\ health' = HeartbeatObserved(health, c, at)
  /\ Evidence(c, at)
  /\ refreshed' = FALSE
  /\ UNCHANGED now

RefreshStates ==
  /\ health' = StatesRefreshed(health, now)
  /\ refreshed' = TRUE
  /\ UNCHANGED <<now, aliveAt, delay>>

Tick ==
  /\ now < MaxTime
  /\ now' = now + 1
  /\ refreshed' = FALSE
  /\ UNCHANGED <<health, aliveAt, delay>>

Next ==
  \/ \E c \in Components, at \in ObservationTimes :
       \/ ObserveHeartbeat(c, at)
       \/ \E state \in HealthStates : UpdateComponentHealth(c, state, at)
  \/ RefreshStates
  \/ Tick

Spec == Init /\ [][Next]_vars

-----------------------------------------------------------------------------
Silence(c) == now - aliveAt[c]

\* A refresh suspects a component early by at most the lateness of its last
\* report of life, so never early when that report came on time: measured from
\* the latest evidence there ever was, over any mixture of late reports that
\* move the tracker's own time back, explicit outages and earlier refreshes.
NoPrematureSuspicion ==
  refreshed => \A c \in Components :
    /\ health[c].state = "offline" => Silence(c) + delay[c] >= OfflineAfter[c]
    /\ health[c].state = "degraded" => Silence(c) + delay[c] >= DegradedAfter[c]
=============================================================================
