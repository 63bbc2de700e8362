-------------------------- MODULE MonitorScheduler --------------------------
(***************************************************************************)
(* MonitorScheduler (src/src/scheduler/MonitorScheduler.ts) over an        *)
(* adapter, together with the adapter's lifecycle dispatcher: every tick   *)
(* publishes an observation, and closing the adapter closes both.          *)
(*                                                                         *)
(* A run has a synchronous head: what runs before its first await.  The    *)
(* field #activeTick is assigned only when the head has returned, so a     *)
(* callback in it (the health probe, the adapter's onReplayStateChange,    *)
(* onError) that calls tick or stop finds the field as it was before.      *)
(* While a head runs nothing but its callbacks does: timers, settled       *)
(* promises and the clock wait.                                            *)
(*                                                                         *)
(* Time is relative.  A duty's age is the time since it was last done,     *)
(* counted up to its interval; a timer and the persisted retry deadline    *)
(* are the time that remains.  So no bound on the clock is needed.         *)
(***************************************************************************)
EXTENDS LifecycleOps

CONSTANTS
  NULL,             \* JavaScript null
  Ticks,            \* slots for runs of #runTick that are in progress
  Stoppers,         \* calls of stop that may be in progress at once
  Interval,         \* healthIntervalMs, replayIntervalMs, pruneIntervalMs
  ProbeConfigured,  \* whether the options have a healthProbe
  CloseOnStop,      \* closeAdapterOnStop
  RetryBackoff,     \* how far ahead a failed replay batch may be retried
  Faults,           \* what may go wrong: the probe or the reconciliation
                    \* rejects, onError throws
  Applications      \* the applications considered: what each of them uses

\* An application is the set of the stops, subscriptions and flushes that it has
\* in progress at once at most, and of Callbacks if callbacks of its own, in the
\* head of a run, call the monitor in turn.
Callbacks == "callbacks"

Duties == {"health", "replay", "prune"}
TickEvent == "operationDurationObserved"

ASSUME SchedulerAssumption ==
  /\ Interval \in [Duties -> Nat \ {0}]
  /\ ProbeConfigured \in BOOLEAN
  /\ CloseOnStop \in BOOLEAN
  /\ RetryBackoff \in Nat
  /\ Faults \subseteq {"probe", "reconcile", "onError"}
  /\ TickEvent \in EventTypes
  /\ NULL \notin Ticks /\ NULL \notin Int

VARIABLES
  application, \* what the application uses
  status,     \* #status
  timer,      \* #timer: NULL, or the time until it is due
  activeTick, \* #activeTick: NULL, or the slot of the run
  ticks,      \* the runs in progress
  heads,      \* the runs whose synchronous head has not returned
  rearm,      \* the timer callback's finally: it awaits its tick, or is due
  age,        \* the time since #lastHealthAt, #lastReplayAt, #lastPruneAt
  retryIn,    \* time until nextRetryAt, 0 when there is none ahead
  stops,      \* the calls of stop in progress
  lc          \* the adapter's lifecycle dispatcher, closed when it is
schedulerVars ==
  <<application, status, timer, activeTick, ticks, heads, rearm, age, retryIn,
    stops>>
vars == <<schedulerVars, lc>>

\* A run: where it is, the duties it will find due, the time since it began,
\* whether it rejects, the runs in whose heads a callback began it, and how
\* long after each other run that was.
NoTick == [at |-> "none", due |-> {}, since |-> 0, failed |-> FALSE,
           within |-> {}, after |-> [u \in Ticks |-> 0]]
\* A stop: the run it awaits, whether it was called in a head, and whether a
\* start came after it.
NoStop == [at |-> "none", on |-> NULL, within |-> FALSE, restarted |-> FALSE]

Init ==
  /\ application \in Applications
  /\ status = "stopped"
  /\ timer = NULL
  /\ activeTick = NULL
  /\ ticks = [t \in Ticks |-> NoTick]
  /\ heads = {}
  /\ rearm = "none"
  /\ age = Interval      \* the last times start at 0, long ago
  /\ retryIn = 0
  /\ stops = [c \in Stoppers |-> NoStop]
  /\ lc = NewDispatcher

Busiest == CHOOSE d \in Duties : \A e \in Duties : Interval[e] <= Interval[d]
Shortest == CHOOSE d \in Duties : \A e \in Duties : Interval[d] <= Interval[e]
UpTo(bound, n) == IF n < bound THEN n ELSE bound

-----------------------------------------------------------------------------
(* A tick.                                                                 *)

\* A run that does a duty sets its last time to the time the run began: what
\* the others will find due is counted from there.
Overtaken(t, done) ==
  [u \in Ticks |->
     [ticks[u] EXCEPT
        !.due = (@ \ done) \cup {d \in done : ticks[u].after[t] >= Interval[d]}]]
Did(next, done) ==
  age' = [d \in Duties |->
            IF d \in done THEN UpTo(Interval[d], next.since) ELSE age[d]]
RunTo(t, next, done) ==
  /\ ticks' = [Overtaken(t, done) EXCEPT ![t] = [next EXCEPT !.due = @ \ done]]
  /\ Did(next, done)

\* The run settles; it fails only if its catch block calls an onError that throws.
RunSettles(t, next, done, caught) ==
  LET others == [u \in Ticks |-> [Overtaken(t, done)[u] EXCEPT !.after[t] = 0]]
  IN  /\ \E thrown \in IF caught /\ "onError" \in Faults THEN BOOLEAN ELSE {FALSE} :
           ticks' = [others EXCEPT ![t] =
             [NoTick EXCEPT !.at = "over", !.failed = thrown, !.within = next.within]]
      /\ Did(next, done)

\* From the pruning on: prune when it is due, publish the observation.  A
\* closed adapter throws.
PruneThrows(next) == "prune" \in next.due /\ lc.closed
TickEnds(t, next, done) ==
  /\ IF PruneThrows(next) THEN RunSettles(t, next, done, TRUE)
     ELSE RunSettles(t, next, done \cup ({"prune"} \cap next.due), FALSE)
  /\ lc' = Published(lc, TickEvent)

ReconcileBegins(t, next, done) ==
  /\ "replay" \in next.due
  /\ RunTo(t, [next EXCEPT !.at = "reconcile"], done)
  /\ UNCHANGED lc

\* A reconciliation counts as done where a target is not online.
PassedOver(next) == {"replay"} \cap next.due

\* Mutant: offline targets end the tick before the pruning.
SkipAllOffline(t, next, done) ==
  \/ ReconcileBegins(t, next, done)
  \/ IF "replay" \in next.due
     THEN TickEnds(t, [next EXCEPT !.due = @ \ {"prune"}], done \cup PassedOver(next))
     ELSE TickEnds(t, next, done)

\* From the replay on: reconciliation is awaited if it is due and both
\* targets are online.
AfterProbe(t, next, done) ==
  \/ ReconcileBegins(t, next, done)
  \/ TickEnds(t, next, done \cup PassedOver(next))

\* The head reaches a callback, which may call the scheduler.
CallsOut(t, next, at, done) ==
  /\ RunTo(t, [next EXCEPT !.at = at], done)
  /\ heads' = heads \cup {t}
  /\ UNCHANGED <<activeTick, lc>>

HeadReturned(t) == activeTick' = t /\ heads' = heads \ {t}

DueNow == {d \in Duties : age[d] >= Interval[d]}

\* tick, where #activeTick is null, up to the first callback or await of the
\* run.  A closed adapter rejects before it calls back.
TickBegins(t) ==
  LET next == [NoTick EXCEPT !.due = DueNow,
                             !.within = heads,
                             !.after = [u \in Ticks |-> ticks[u].since]]
  IN  /\ ticks[t].at = "none"
      /\ IF ProbeConfigured /\ "health" \in next.due
         THEN CallsOut(t, next, "probe", {})
         ELSE \/ /\ "replay" \in next.due /\ ~lc.closed
                 /\ CallsOut(t, next, "reconcile", {})
              \/ /\ PruneThrows(next)
                 /\ CallsOut(t, next, "failing", PassedOver(next))
              \/ /\ HeadReturned(t)
                 /\ \/ lc.closed /\ ReconcileBegins(t, next, {})
                    \/ ~PruneThrows(next) /\ TickEnds(t, next, PassedOver(next))

\* The slots are all alike.
FreeSlots == {t \in Ticks : ticks[t].at = "none"}
AnySlot == CHOOSE t \in FreeSlots : TRUE

\* Mutant: a tick does not look for one in progress.
TickAgain ==
  /\ status = "running"
  /\ FreeSlots # {} /\ TickBegins(AnySlot)
\* tick: it joins the run that #activeTick names, if it names one.
Tick ==
  /\ status = "running"
  /\ IF activeTick # NULL
     THEN UNCHANGED <<activeTick, ticks, heads, age, lc>>
     ELSE FreeSlots # {} /\ TickBegins(AnySlot)

\* Whether the application can call: from outside the heads, or in one.
ApplicationCalls == heads = {} \/ Callbacks \in application

\* tick called by the application.
ApplicationTick ==
  /\ ApplicationCalls
  /\ activeTick = NULL
  /\ Tick
  /\ UNCHANGED <<application, status, timer, rearm, retryIn, stops>>

TimerFires ==
  /\ heads = {}
  /\ timer = 0
  /\ rearm # "due"
  /\ timer' = NULL
  /\ Tick
  /\ rearm' = "waiting"
  /\ UNCHANGED <<application, status, retryIn, stops>>

\* The innermost head that has not returned.
InHead(t) == t \in heads /\ heads = ticks[t].within \cup {t}

\* Its callback returns: the run awaits the answer.
HeadAwaits(t) ==
  /\ InHead(t)
  /\ ticks[t].at \in {"probe", "reconcile"}
  /\ HeadReturned(t)
  /\ UNCHANGED <<application, status, timer, ticks, rearm, age, retryIn, stops, lc>>

\* The probe throws without a promise, or the pruning has thrown.
HeadFails(t) ==
  /\ InHead(t)
  /\ ticks[t].at = "failing" \/ (ticks[t].at = "probe" /\ "probe" \in Faults)
  /\ RunSettles(t, ticks[t], {}, TRUE)
  /\ HeadReturned(t)
  /\ lc' = Published(lc, TickEvent)
  /\ UNCHANGED <<application, status, timer, rearm, retryIn, stops>>

ProbeAnswers(t) ==
  /\ heads = {}
  /\ ticks[t].at = "probe"
  /\ AfterProbe(t, ticks[t], {"health"})
  /\ UNCHANGED <<application, status, timer, activeTick, heads, rearm, retryIn, stops>>

ReconcileAnswers(t) ==
  /\ heads = {}
  /\ ticks[t].at = "reconcile"
  /\ retryIn' \in {0, RetryBackoff}
  /\ TickEnds(t, ticks[t], {"replay"})
  /\ UNCHANGED <<application, status, timer, activeTick, heads, rearm, stops>>

\* A rejection skips the rest of the tick.
TickFails(t) ==
  /\ heads = {}
  /\ \/ ticks[t].at = "probe" /\ "probe" \in Faults
     \/ ticks[t].at = "reconcile" /\ ("reconcile" \in Faults \/ lc.closed)
  /\ RunSettles(t, ticks[t], {}, TRUE)
  /\ lc' = Published(lc, TickEvent)
  /\ UNCHANGED <<application, status, timer, activeTick, heads, rearm, retryIn, stops>>

\* What awaits a run that is over: a stop goes on if the run did not fail.
Resumed(t) ==
  [c \in Stoppers |->
     IF stops[c].at # "waiting" \/ stops[c].on # t THEN stops[c]
     ELSE IF ticks[t].failed THEN NoStop ELSE [stops[c] EXCEPT !.at = "due"]]

\* Mutant: a tick that failed does not reach the callback's rescheduling.
TickOverThenOnly(t) ==
  /\ heads = {}
  /\ ticks[t].at = "over"
  /\ activeTick' = IF activeTick = t THEN NULL ELSE activeTick
  /\ ticks' = [ticks EXCEPT ![t] = NoTick]
  /\ rearm' = IF ticks[t].failed THEN "none"
              ELSE IF rearm = "waiting" /\ activeTick = t THEN "due" ELSE rearm
  /\ stops' = Resumed(t)
  /\ UNCHANGED <<application, status, timer, heads, age, retryIn, lc>>

\* tick's finally, whether the run failed or not.  A run begun by a callback is
\* not the active one: its end leaves #activeTick alone.
TickOver(t) ==
  /\ heads = {}
  /\ ticks[t].at = "over"
  /\ activeTick' = IF activeTick = t THEN NULL ELSE activeTick
  /\ ticks' = [ticks EXCEPT ![t] = NoTick]
  /\ rearm' = IF rearm = "waiting" /\ activeTick = t THEN "due" ELSE rearm
  /\ stops' = Resumed(t)
  /\ UNCHANGED <<application, status, timer, heads, age, retryIn, lc>>

-----------------------------------------------------------------------------
(* Scheduling.                                                             *)

NextDelay == IF retryIn > 0 THEN retryIn ELSE Interval[Shortest]

\* The finally of the timer callback.
Rearm ==
  /\ heads = {}
  /\ rearm = "due"
  /\ rearm' = "none"
  /\ timer' = IF status = "running" /\ timer = NULL THEN NextDelay ELSE timer
  /\ UNCHANGED <<application, status, activeTick, ticks, heads, age, retryIn, stops, lc>>

Start ==
  /\ ApplicationCalls
  /\ status = "stopped"
  /\ status' = "running"
  /\ timer' = IF timer = NULL THEN 0 ELSE timer
  /\ stops' = [c \in Stoppers |->
                 IF stops[c].at = "none" THEN NoStop
                 ELSE [stops[c] EXCEPT !.restarted = TRUE, !.within = FALSE]]
  /\ UNCHANGED <<application, activeTick, ticks, heads, rearm, age, retryIn, lc>>

ClosedByStop == IF CloseOnStop THEN Closed(lc) ELSE lc

\* stop, where there is something to stop.
Stopping ==
  /\ status = "running" \/ activeTick # NULL
  /\ status' = "stopped"
  /\ timer' = NULL
  /\ UNCHANGED <<application, activeTick, ticks, heads, rearm, age, retryIn>>

\* Mutant: stop does not await the tick in progress.
StopAtOnce(c) ==
  /\ ApplicationCalls /\ c \in application /\ stops[c].at = "none"
  /\ Stopping
  /\ lc' = ClosedByStop
  /\ UNCHANGED stops
\* stop: it resolves at once, and leaves the adapter as it is, where there is
\* nothing to stop, and it awaits the run that #activeTick names.
Stop(c) ==
  /\ ApplicationCalls /\ c \in application /\ stops[c].at = "none"
  /\ IF status = "stopped" /\ activeTick = NULL
     THEN UNCHANGED vars
     ELSE /\ Stopping
          /\ IF activeTick = NULL
             THEN lc' = ClosedByStop /\ UNCHANGED stops
             ELSE /\ stops' = [stops EXCEPT ![c] =
                       [NoStop EXCEPT !.at = "waiting", !.on = activeTick,
                                      !.within = heads # {}]]
                  /\ UNCHANGED lc

\* stop goes on, whatever was started meanwhile.
StopResumes(c) ==
  /\ heads = {}
  /\ stops[c].at = "due"
  /\ stops' = [stops EXCEPT ![c] = NoStop]
  /\ lc' = ClosedByStop
  /\ UNCHANGED <<application, status, timer, activeTick, ticks, heads, rearm, age, retryIn>>

PassTime ==
  /\ heads = {}
  /\ timer' = IF timer = NULL \/ timer = 0 THEN timer ELSE timer - 1
  /\ age' = [d \in Duties |-> UpTo(Interval[d], age[d] + 1)]
  /\ ticks' = [t \in Ticks |->
       IF ticks[t].at \in {"none", "over"} THEN ticks[t]
       ELSE [ticks[t] EXCEPT !.since = UpTo(Interval[Busiest], @ + 1)]]
  /\ retryIn' = IF retryIn = 0 THEN 0 ELSE retryIn - 1
  /\ UNCHANGED <<application, status, activeTick, heads, rearm, stops, lc>>
=============================================================================
