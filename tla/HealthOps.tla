----------------------------- MODULE HealthOps ------------------------------
(***************************************************************************)
(* The health tracker (src/src/health/HealthTracker.ts) as operators on    *)
(* its component table: for each component the state it is believed to be  *)
(* in and the time of the last evidence that it is alive.                  *)
(***************************************************************************)
EXTENDS Integers

CONSTANTS
  DegradedAfter,   \* silence after which each component counts as degraded
  OfflineAfter     \* and as offline

Components == {"transport", "dedupe", "causal-order"}
HealthStates == {"online", "degraded", "offline"}
HealthTable == [Components -> [state: HealthStates, heartbeatAt: Nat]]

ASSUME ThresholdAssumption ==
  /\ DegradedAfter \in [Components -> Nat]
  /\ OfflineAfter \in [Components -> Nat]

\* The constructor believes every component online.
InitialHealth(at) ==
  [c \in Components |-> [state |-> "online", heartbeatAt |-> at]]

\* Mutant: only a report of online renews the time of the last evidence.
UpdatedUnlessDegraded(health, c, state, at) ==
  [health EXCEPT ![c] =
     [state |-> state,
      heartbeatAt |-> IF state = "online" THEN at ELSE @.heartbeatAt]]

ComponentUpdated(health, c, state, at) ==
  [health EXCEPT ![c] =
     [state |-> state,
      heartbeatAt |-> IF state # "offline" THEN at ELSE @.heartbeatAt]]

HeartbeatObserved(health, c, at) == ComponentUpdated(health, c, "online", at)

StateFromElapsed(c, elapsed) ==
  IF elapsed >= OfflineAfter[c] THEN "offline"
  ELSE IF elapsed >= DegradedAfter[c] THEN "degraded" ELSE "online"

\* A component whose derived state differs is updated like by any report, so
\* that a timeout to degraded itself counts as evidence of life.
StatesRefreshed(health, at) ==
  [c \in Components |->
     LET next == StateFromElapsed(c, at - health[c].heartbeatAt)
     IN  IF next # health[c].state
         THEN ComponentUpdated(health, c, next, at)[c] ELSE health[c]]
=============================================================================
