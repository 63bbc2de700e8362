--------------------------- MODULE MonitorService ---------------------------
(***************************************************************************)
(* The scheduler and the lifecycle dispatcher in one process, with the     *)
(* application: it starts and stops the scheduler, ticks it by hand, holds *)
(* subscriptions, publishes through other operations, flushes, and closes  *)
(* the adapter.  Every await is a place where the others run; in the head  *)
(* of a run, before its first await, only its callbacks do.                *)
(***************************************************************************)
EXTENDS MonitorScheduler

-----------------------------------------------------------------------------
(* The dispatcher's own steps and its callers.                             *)

Subscribe(s) ==
  /\ ApplicationCalls
  /\ s \in application /\ ~lc.closed /\ s \notin lc.subs
  /\ lc' = Subscribed(lc, s)
  /\ UNCHANGED schedulerVars

\* Also a second time, and also after close.
Unsubscribe(s) ==
  /\ ApplicationCalls
  /\ lc' = Unsubscribed(lc, s)
  /\ UNCHANGED schedulerVars

Publish(type) ==
  /\ ApplicationCalls
  /\ lc' = Published(lc, type)
  /\ UNCHANGED schedulerVars

DrainNext ==
  /\ heads = {}
  /\ lc.scheduled
  /\ lc' = DrainStarted(lc)
  /\ UNCHANGED schedulerVars

ListenerSettles(s) ==
  /\ heads = {}
  /\ s \in lc.settling
  /\ lc' = ListenerSettled(lc, s)
  /\ UNCHANGED schedulerVars

DispatchEnds ==
  /\ heads = {}
  /\ lc.active /\ lc.settling = {}
  /\ lc' = DispatchEnded(lc)
  /\ UNCHANGED schedulerVars

\* flush, where it is not answered at once.
Flush(f) ==
  /\ ApplicationCalls
  /\ f \in application /\ ~lc.closed /\ ~Idle(lc)
  /\ lc' = [lc EXCEPT !.waiting = @ \cup {f}]
  /\ UNCHANGED schedulerVars

FlushTimesOut(f) ==
  /\ heads = {}
  /\ f \in lc.waiting
  /\ lc' = [lc EXCEPT !.waiting = @ \ {f}]
  /\ UNCHANGED schedulerVars

\* The application closes the adapter itself.
Close ==
  /\ ApplicationCalls
  /\ lc' = Closed(lc)
  /\ UNCHANGED schedulerVars

LifecycleNext ==
  \/ \E s \in Subscribers : Subscribe(s) \/ Unsubscribe(s) \/ ListenerSettles(s)
  \/ \E type \in EventTypes : Publish(type)
  \/ DrainNext
  \/ DispatchEnds
  \/ \E f \in Flushers : Flush(f) \/ FlushTimesOut(f)
  \/ Close

RunStep(t) ==
  ProbeAnswers(t) \/ ReconcileAnswers(t) \/ TickFails(t) \/ TickOver(t)

SchedulerNext ==
  \/ Start
  \/ \E c \in Stoppers : Stop(c) \/ StopResumes(c)
  \/ ApplicationTick
  \/ TimerFires
  \/ \E t \in Ticks : RunStep(t) \/ HeadAwaits(t) \/ HeadFails(t)
  \/ Rearm
  \/ PassTime

Next == SchedulerNext \/ LifecycleNext
Spec == Init /\ [][Next]_vars

\* Timers fire, promises settle, time passes, callbacks return; nothing is
\* assumed of the application or of the outcome of what is awaited.  A head
\* holds the others up for the moment it runs, hence the strong fairness.
Fairness ==
  /\ SF_vars(TimerFires)
  /\ \A t \in Ticks : /\ SF_vars(RunStep(t))
                     /\ WF_vars(HeadAwaits(t) \/ HeadFails(t))
  /\ SF_vars(Rearm)
  /\ SF_vars(PassTime)
FairSpec == Spec /\ Fairness

-----------------------------------------------------------------------------
RunStates == {"none", "probe", "reconcile", "failing", "over"}
TypeOK ==
  /\ status \in {"stopped", "running"}
  /\ timer \in Nat \cup {NULL}
  /\ activeTick \in Ticks \cup {NULL}
  /\ ticks \in [Ticks -> [at: RunStates, due: SUBSET Duties, since: Nat,
                          failed: BOOLEAN, within: SUBSET Ticks,
                          after: [Ticks -> Nat]]]
  /\ heads \in SUBSET Ticks
  /\ rearm \in {"none", "waiting", "due"}
  /\ age \in [Duties -> Nat]
  /\ retryIn \in Nat
  /\ stops \in [Stoppers -> [at: {"none", "waiting", "due"}, on: Ticks \cup {NULL},
                             within: BOOLEAN, restarted: BOOLEAN]]
  /\ IsDispatcher(lc)

\* The runs in progress that no callback in another run's head began.
Outermost == {t \in Ticks : ticks[t].at # "none" /\ ticks[t].within = {}}

\* Ticks overlap only where a callback that runs before #activeTick is assigned
\* asks for another one: whatever else asks, the timer, the application or a
\* scheduler that was started again while it was stopping, gets the run in
\* progress, also while runs that callbacks began are still under way.
TicksSerialized == \A t, u \in Outermost : t = u

\* A scheduler that says it is running has its next tick ahead of it, by a
\* timer or by a callback that will set one: after failed ticks, errors in
\* onError, restarts while stopping and stops and starts in the middle of a
\* head it never dies silently.
RunningIsAlive ==
  status = "running" =>
    \/ timer # NULL
    \/ rearm = "due"
    \/ rearm = "waiting" /\ (activeTick # NULL \/ heads # {})

\* When stop() resolves and the scheduler was not started meanwhile, no timer is
\* armed, the adapter is closed if asked, and, unless a callback in a head
\* called it, only runs that such callbacks began can be in progress.  Wherever
\* a stop() would find nothing to stop the same holds, but for the adapter.
StopIsQuiet ==
  [][/\ status = "stopped" /\ activeTick = NULL /\ heads = {} =>
          timer = NULL /\ Outermost = {}
     /\ \A c \in Stoppers :
          \/ stops[c].at = "due" /\ stops'[c].at = "none" /\ ~stops[c].restarted
          \/ status = "running" /\ status' = "stopped" /\ stops' = stops
          => /\ timer' = NULL
             /\ CloseOnStop => lc'.closed
             /\ heads = {} /\ ~stops[c].within => Outermost = {}]_vars

\* No observation is stranded: while events are queued or a flush waits, a
\* drain is scheduled or under way.
NoLostWakeup ==
  ~lc.closed /\ (lc.queue # <<>> \/ lc.waiting # {}) => lc.scheduled \/ lc.active

\* A flush is answered "drained" only when nothing is queued and no listener
\* of an event published before it is still at work.
DrainedMeansSettled ==
  [][\A f \in lc.waiting \ lc'.waiting :
       ~lc'.closed /\ ~FlushTimesOut(f) => Idle(lc')]_vars

\* The count the snapshot reports is the number of live subscriptions as long
\* as the dispatcher is open.
SubscriberCountExact == ~lc.closed => lc.count = Cardinality(lc.subs)

Failing == \E t \in Ticks : TickFails(t) \/ HeadFails(t)
\* A run that finds the pruning due ends, and its begin is the last time now.
Pruning ==
  \E t \in Ticks :
    /\ ticks[t].at # "over" /\ ticks'[t].at = "over"
    /\ "prune" \in (IF ticks[t].at = "none" THEN DueNow ELSE ticks[t].due)
    /\ age'["prune"] = UpTo(Interval["prune"], ticks[t].since)
    /\ ~TickFails(t) /\ ~HeadFails(t)

\* Pruning keeps its cadence while the scheduler runs on an open adapter:
\* offline targets, slow probes, long retry deadlines, ticks by hand and
\* restarts delay it, but only failing ticks can keep it from recurring.
PruningRecurs ==
  <>[](status = "running" /\ ~lc.closed) /\ <>[][~Failing]_vars
    => []<><<Pruning>>_vars
=============================================================================
