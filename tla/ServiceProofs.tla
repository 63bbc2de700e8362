--------------------------- MODULE ServiceProofs ----------------------------
(***************************************************************************)
(* The scheduler never dies and never overlaps its ticks, the dispatcher   *)
(* strands nothing and counts its subscriptions; for any number of callers,*)
(* subscriptions and flushes, any intervals and any queue capacity.        *)
(***************************************************************************)
EXTENDS MonitorService, FiniteSetTheorems, SequenceTheorems, TLAPS

-----------------------------------------------------------------------------
(* The dispatcher's operations.                                            *)

\* What is queued, or waited for, will be drained.
Awake(d) ==
  ~d.closed /\ (d.queue # <<>> \/ d.waiting # {}) => d.scheduled \/ d.active

Counted(d) ==
  /\ IsFiniteSet(d.subs)
  /\ ~d.closed => d.count = Cardinality(d.subs)

Proper(d) == IsDispatcher(d) /\ Awake(d) /\ Counted(d)

\* A dispatcher from its fields, so that updates of it can be computed.
Dispatcher(queue, active, settling, scheduled, closed, count, subs, waiting) ==
  [queue |-> queue, active |-> active, settling |-> settling, scheduled |-> scheduled,
   closed |-> closed, count |-> count, subs |-> subs, waiting |-> waiting]

LEMMA FromFields ==
  ASSUME NEW d, IsDispatcher(d)
  PROVE  d = Dispatcher(d.queue, d.active, d.settling, d.scheduled, d.closed,
                        d.count, d.subs, d.waiting)
BY DEF IsDispatcher, Dispatcher

\* Proper of a dispatcher that is given by its fields.
Fit(q, a, e, h, c, k, s, w) ==
  /\ q \in Seq(EventTypes) /\ Len(q) <= QueueCapacity
  /\ a \in BOOLEAN /\ e \subseteq Subscribers
  /\ h \in BOOLEAN /\ c \in BOOLEAN /\ k \in Int
  /\ s \subseteq Subscribers /\ w \subseteq Flushers
  /\ ~c /\ (q # <<>> \/ w # {}) => h \/ a
  /\ IsFiniteSet(s)
  /\ ~c => k = Cardinality(s)

LEMMA ProperFields ==
  ASSUME NEW q, NEW a, NEW e, NEW h, NEW c, NEW k, NEW s, NEW w
  PROVE  Proper(Dispatcher(q, a, e, h, c, k, s, w)) <=> Fit(q, a, e, h, c, k, s, w)
<1> DEFINE d == Dispatcher(q, a, e, h, c, k, s, w)
<1>1. /\ d.queue = q /\ d.active = a /\ d.settling = e /\ d.scheduled = h
      /\ d.closed = c /\ d.count = k /\ d.subs = s /\ d.waiting = w
  BY DEF Dispatcher
<1>2. d \in [queue: {q}, active: BOOLEAN, settling: SUBSET Subscribers,
             scheduled: BOOLEAN, closed: BOOLEAN, count: Int,
             subs: SUBSET Subscribers, waiting: SUBSET Flushers]
      <=> /\ a \in BOOLEAN /\ e \subseteq Subscribers
          /\ h \in BOOLEAN /\ c \in BOOLEAN /\ k \in Int
          /\ s \subseteq Subscribers /\ w \subseteq Flushers
  BY DEF Dispatcher
<1> HIDE DEF d
<1>3. IsDispatcher(d) <=>
        /\ q \in Seq(EventTypes) /\ Len(q) <= QueueCapacity
        /\ a \in BOOLEAN /\ e \subseteq Subscribers
        /\ h \in BOOLEAN /\ c \in BOOLEAN /\ k \in Int
        /\ s \subseteq Subscribers /\ w \subseteq Flushers
  BY <1>1, <1>2, Zenon DEF IsDispatcher
<1>4. /\ Awake(d) <=> (~c /\ (q # <<>> \/ w # {}) => h \/ a)
      /\ Counted(d) <=> (IsFiniteSet(s) /\ (~c => k = Cardinality(s)))
  BY <1>1, Zenon DEF Awake, Counted
<1>5. Proper(d) <=> Fit(q, a, e, h, c, k, s, w)
  BY <1>3, <1>4, Zenon DEF Proper, Fit
<1>6. QED
  BY <1>5 DEF d

LEMMA NewProper == Proper(NewDispatcher)
<1>1. NewDispatcher = Dispatcher(<<>>, FALSE, {}, FALSE, FALSE, 0, {}, {})
  BY DEF NewDispatcher, Dispatcher
<1>2. /\ <<>> \in Seq(EventTypes) /\ Len(<<>>) = 0 /\ 0 <= QueueCapacity
      /\ IsFiniteSet({}) /\ Cardinality({}) = 0
  BY LifecycleAssumption, FS_EmptySet
<1>3. Fit(<<>>, FALSE, {}, FALSE, FALSE, 0, {}, {})
  BY <1>2 DEF Fit
<1>4. QED
  BY <1>1, <1>3, ProperFields

\* A change of the subscriptions.
LEMMA SubscribedProper ==
  ASSUME NEW d, Proper(d), NEW x \in Subscribers, x \notin d.subs
  PROVE  Proper(Subscribed(d, x))
<1>1. PICK q, a, e, h, c, k, s, w : d = Dispatcher(q, a, e, h, c, k, s, w)
  BY FromFields DEF Proper
<1>2. /\ Subscribed(d, x) = Dispatcher(q, a, e, h, c, k + 1, s \cup {x}, w)
      /\ d.subs = s
  <2>1. d.subs = s /\ d.count = k
    BY <1>1 DEF Dispatcher
  <2>2. Subscribed(d, x) = [[d EXCEPT !.subs = s \cup {x}] EXCEPT !.count = d.count + 1]
    BY <1>1, <2>1 DEF Subscribed
  <2>3. QED
    BY <1>1, <2>1, <2>2 DEF Dispatcher
<1>3. /\ IsFiniteSet(s) /\ k \in Int /\ (~c => k = Cardinality(s))
      /\ s \in SUBSET Subscribers
  BY <1>1, ProperFields DEF Fit
<1>4. /\ IsFiniteSet(s \cup {x}) /\ Cardinality(s \cup {x}) = Cardinality(s) + 1
  BY <1>2, <1>3, FS_AddElement
<1>5. k + 1 \in Int /\ (~c => k + 1 = Cardinality(s \cup {x}))
      /\ s \cup {x} \in SUBSET Subscribers
  BY <1>3, <1>4
<1>6. QED
  BY <1>1, <1>2, <1>4, <1>5, ProperFields DEF Fit

LEMMA UnsubscribedProper ==
  ASSUME NEW d, Proper(d), NEW x \in Subscribers
  PROVE  Proper(Unsubscribed(d, x))
<1>1. PICK q, a, e, h, c, k, s, w : d = Dispatcher(q, a, e, h, c, k, s, w)
  BY FromFields DEF Proper
<1>2. d.subs = s
  BY <1>1 DEF Dispatcher
<1>3. CASE x \notin s
  BY <1>2, <1>3 DEF Unsubscribed
<1>4. CASE x \in s
  <2>1. Unsubscribed(d, x) = Dispatcher(q, a, e, h, c, k - 1, s \ {x}, w)
    BY <1>1, <1>2, <1>4 DEF Dispatcher, Unsubscribed
  <2>2. /\ IsFiniteSet(s) /\ k \in Int /\ (~c => k = Cardinality(s))
        /\ s \in SUBSET Subscribers
    BY <1>1, ProperFields DEF Fit
  <2>3. /\ IsFiniteSet(s \ {x}) /\ Cardinality(s \ {x}) = Cardinality(s) - 1
        /\ Cardinality(s) \in Nat
    BY <1>4, <2>2, FS_RemoveElement, FS_CardinalityType
  <2>4. k - 1 \in Int /\ (~c => k - 1 = Cardinality(s \ {x}))
        /\ s \ {x} \in SUBSET Subscribers
    BY <2>2, <2>3
  <2>5. QED
    BY <1>1, <2>1, <2>3, <2>4, ProperFields DEF Fit
<1>5. QED
  BY <1>3, <1>4

\* Publishing keeps the queue within its capacity and schedules its drain.
LEMMA PublishedProper ==
  ASSUME NEW d, Proper(d), NEW type \in EventTypes
  PROVE  Proper(Published(d, type))
<1>1. PICK q, a, e, h, c, k, s, w : d = Dispatcher(q, a, e, h, c, k, s, w)
  BY FromFields DEF Proper
<1>2. d.queue = q /\ d.closed = c
  BY <1>1 DEF Dispatcher
<1>3. Fit(q, a, e, h, c, k, s, w)
  BY <1>1, ProperFields
<1>4. CASE c
  BY <1>2, <1>4 DEF Published
<1>5. CASE ~c
  <2> DEFINE room == IF Overflows(d) THEN Tail(q) ELSE q
             queue == Append(room, type)
  <2>1. queue \in Seq(EventTypes) /\ Len(queue) <= QueueCapacity
    <3>1. /\ q \in Seq(EventTypes) /\ Len(q) <= QueueCapacity
          /\ Len(q) \in Nat /\ QueueCapacity \in Nat \ {0}
      BY <1>3, LifecycleAssumption DEF Fit
    <3>2. CASE Overflows(d)
      <4>1. q # <<>>
        BY <1>2, <3>1, <3>2 DEF Overflows
      <4>2. Tail(q) \in Seq(EventTypes) /\ Len(Tail(q)) = Len(q) - 1
        BY <3>1, <4>1
      <4>3. QED
        BY <3>1, <3>2, <4>2
    <3>3. CASE ~Overflows(d)
      BY <1>2, <3>1, <3>3 DEF Overflows
    <3>4. QED
      BY <3>2, <3>3
  <2>2. Published(d, type) = DrainScheduled([d EXCEPT !.queue = queue])
    BY <1>2, <1>5 DEF Published
  <2> HIDE DEF queue
  <2>3. [d EXCEPT !.queue = queue] = Dispatcher(queue, a, e, h, c, k, s, w)
    BY <1>1 DEF Dispatcher
  <2>4. CASE a
    <3>1. Published(d, type) = Dispatcher(queue, a, e, h, c, k, s, w)
      BY <2>2, <2>3, <2>4 DEF DrainScheduled, Dispatcher
    <3>2. Fit(queue, a, e, h, c, k, s, w)
      BY <1>3, <2>1, <2>4 DEF Fit
    <3>3. QED
      BY <3>1, <3>2, ProperFields
  <2>5. CASE ~a
    <3>1. Published(d, type) = Dispatcher(queue, a, e, TRUE, c, k, s, w)
      BY <1>5, <2>2, <2>3, <2>5 DEF DrainScheduled, Dispatcher
    <3>2. Fit(queue, a, e, TRUE, c, k, s, w)
      BY <1>3, <2>1 DEF Fit
    <3>3. QED
      BY <3>1, <3>2, ProperFields
  <2>6. QED
    BY <2>4, <2>5
<1>6. QED
  BY <1>4, <1>5

\* The microtask clears the mark it was scheduled under, and leaves either a
\* dispatch under way or nothing to do.
LEMMA DrainStartedProper ==
  ASSUME NEW d, Proper(d)
  PROVE  Proper(DrainStarted(d))
<1>1. PICK q, a, e, h, c, k, s, w : d = Dispatcher(q, a, e, h, c, k, s, w)
  BY FromFields DEF Proper
<1>2. d.queue = q /\ d.closed = c /\ d.active = a /\ d.subs = s
  BY <1>1 DEF Dispatcher
<1>3. [d EXCEPT !.scheduled = FALSE] = Dispatcher(q, a, e, FALSE, c, k, s, w)
  <2>1. \A b : [d EXCEPT !.scheduled = b] = Dispatcher(q, a, e, b, c, k, s, w)
    BY <1>1 DEF Dispatcher
  <2>2. QED
    BY <2>1, Zenon
<1>4. Fit(q, a, e, h, c, k, s, w)
  BY <1>1, ProperFields
<1>5. CASE a \/ c
  <2>1. DrainStarted(d) = Dispatcher(q, a, e, FALSE, c, k, s, w)
    BY <1>2, <1>3, <1>5 DEF DrainStarted
  <2>2. Fit(q, a, e, FALSE, c, k, s, w)
    BY <1>4, <1>5 DEF Fit
  <2>3. QED
    BY <2>1, <2>2, ProperFields
<1>6. CASE ~a /\ ~c /\ q = <<>>
  <2>1. DrainStarted(d) = [Dispatcher(q, a, e, FALSE, c, k, s, w) EXCEPT !.waiting = {}]
    BY <1>2, <1>3, <1>6 DEF DrainStarted
  <2>2. DrainStarted(d) = Dispatcher(q, a, e, FALSE, c, k, s, {})
    BY <2>1 DEF Dispatcher
  <2>3. Fit(q, a, e, FALSE, c, k, s, {})
    BY <1>4, <1>6 DEF Fit
  <2>4. QED
    BY <2>2, <2>3, ProperFields
<1>7. CASE ~a /\ ~c /\ q # <<>>
  <2> DEFINE called == {x \in s : Interest[x] = Head(q)}
             ready == Dispatcher(q, a, e, FALSE, c, k, s, w)
  <2>1. DrainStarted(d) = [ready EXCEPT !.queue = Tail(ready.queue), !.active = TRUE,
                                        !.settling = called]
    BY <1>2, <1>3, <1>7 DEF DrainStarted
  <2>2. ready.queue = q
    BY DEF Dispatcher
  <2> HIDE DEF called
  <2>3. DrainStarted(d) = Dispatcher(Tail(q), TRUE, called, FALSE, c, k, s, w)
    BY <2>1, <2>2 DEF Dispatcher
  <2>4. q \in Seq(EventTypes) /\ Len(q) <= QueueCapacity /\ QueueCapacity \in Nat
    BY <1>4, LifecycleAssumption DEF Fit
  <2>5. Tail(q) \in Seq(EventTypes) /\ Len(Tail(q)) <= QueueCapacity
    BY <1>7, <2>4
  <2>6. called \subseteq Subscribers
    BY <1>4 DEF called, Fit
  <2>7. Fit(Tail(q), TRUE, called, FALSE, c, k, s, w)
    BY <1>4, <2>5, <2>6 DEF Fit
  <2>8. QED
    BY <2>3, <2>7, ProperFields
<1>8. QED
  BY <1>4, <1>5, <1>6, <1>7 DEF Fit

LEMMA ListenerSettledProper ==
  ASSUME NEW d, Proper(d), NEW x
  PROVE  Proper(ListenerSettled(d, x))
<1>1. PICK q, a, e, h, c, k, s, w : d = Dispatcher(q, a, e, h, c, k, s, w)
  BY FromFields DEF Proper
<1>2. ListenerSettled(d, x) = Dispatcher(q, a, e \ {x}, h, c, k, s, w)
  BY <1>1 DEF Dispatcher, ListenerSettled
<1>3. Fit(q, a, e, h, c, k, s, w)
  BY <1>1, ProperFields
<1>4. Fit(q, a, e \ {x}, h, c, k, s, w)
  BY <1>3 DEF Fit
<1>5. QED
  BY <1>2, <1>4, ProperFields

\* The end of a dispatch schedules the next one when there is something left.
LEMMA DispatchEndedProper ==
  ASSUME NEW d, Proper(d)
  PROVE  Proper(DispatchEnded(d))
<1>1. PICK q, a, e, h, c, k, s, w : d = Dispatcher(q, a, e, h, c, k, s, w)
  BY FromFields DEF Proper
<1> DEFINE idle == [d EXCEPT !.active = FALSE]
<1>2. d.queue = q /\ d.closed = c
  BY <1>1 DEF Dispatcher
<1>3. idle = Dispatcher(q, FALSE, e, h, c, k, s, w)
  <2>1. \A b : [d EXCEPT !.active = b] = Dispatcher(q, b, e, h, c, k, s, w)
    BY <1>1 DEF Dispatcher
  <2>2. QED
    BY <2>1, Zenon
<1>4. Fit(q, a, e, h, c, k, s, w)
  BY <1>1, ProperFields
<1>5. CASE c
  <2>1. DispatchEnded(d) = Dispatcher(q, FALSE, e, h, c, k, s, w)
    BY <1>2, <1>3, <1>5 DEF DispatchEnded
  <2>2. Fit(q, FALSE, e, h, c, k, s, w)
    BY <1>4, <1>5 DEF Fit
  <2>3. QED
    BY <2>1, <2>2, ProperFields
<1>6. CASE ~c /\ q = <<>>
  <2>1. DispatchEnded(d) = [idle EXCEPT !.waiting = {}]
    BY <1>2, <1>6 DEF DispatchEnded
  <2>2. DispatchEnded(d) = Dispatcher(q, FALSE, e, h, c, k, s, {})
    BY <1>3, <2>1 DEF Dispatcher
  <2>3. Fit(q, FALSE, e, h, c, k, s, {})
    BY <1>4, <1>6 DEF Fit
  <2>4. QED
    BY <2>2, <2>3, ProperFields
<1>7. CASE ~c /\ q # <<>>
  <2>1. DispatchEnded(d) = DrainScheduled(idle)
    BY <1>2, <1>7 DEF DispatchEnded
  <2>2. DispatchEnded(d) = Dispatcher(q, FALSE, e, TRUE, c, k, s, w)
    BY <1>3, <1>7, <2>1 DEF DrainScheduled, Dispatcher
  <2>3. Fit(q, FALSE, e, TRUE, c, k, s, w)
    BY <1>4 DEF Fit
  <2>4. QED
    BY <2>2, <2>3, ProperFields
<1>8. QED
  BY <1>5, <1>6, <1>7

\* A flush waits only while the dispatcher is busy.
LEMMA FlushProper ==
  ASSUME NEW d, Proper(d), NEW f \in Flushers
  PROVE  /\ ~Idle(d) => Proper([d EXCEPT !.waiting = @ \cup {f}])
         /\ Proper([d EXCEPT !.waiting = @ \ {f}])
<1>1. PICK q, a, e, h, c, k, s, w : d = Dispatcher(q, a, e, h, c, k, s, w)
  BY FromFields DEF Proper
<1>2. /\ [d EXCEPT !.waiting = @ \cup {f}] = Dispatcher(q, a, e, h, c, k, s, w \cup {f})
      /\ [d EXCEPT !.waiting = @ \ {f}] = Dispatcher(q, a, e, h, c, k, s, w \ {f})
  BY <1>1 DEF Dispatcher
<1>3. Idle(d) <=> ~a /\ q = <<>>
  BY <1>1 DEF Dispatcher, Idle
<1>4. Fit(q, a, e, h, c, k, s, w)
  BY <1>1, ProperFields
<1>5. Fit(q, a, e, h, c, k, s, w \ {f})
  BY <1>4 DEF Fit
<1>6. ~Idle(d) => Fit(q, a, e, h, c, k, s, w \cup {f})
  BY <1>3, <1>4 DEF Fit
<1>7. QED
  BY <1>2, <1>5, <1>6, ProperFields

LEMMA ClosedProper ==
  ASSUME NEW d, Proper(d)
  PROVE  Proper(Closed(d))
<1>1. PICK q, a, e, h, c, k, s, w : d = Dispatcher(q, a, e, h, c, k, s, w)
  BY FromFields DEF Proper
<1>2. d.closed = c
  BY <1>1 DEF Dispatcher
<1>3. CASE c
  BY <1>2, <1>3 DEF Closed
<1>4. CASE ~c
  <2>1. Closed(d) = Dispatcher(<<>>, a, e, h, TRUE, 0, s, {})
    BY <1>1, <1>2, <1>4 DEF Dispatcher, Closed
  <2>2. <<>> \in Seq(EventTypes) /\ Len(<<>>) <= QueueCapacity
    BY LifecycleAssumption
  <2>3. Fit(q, a, e, h, c, k, s, w)
    BY <1>1, ProperFields
  <2>4. Fit(<<>>, a, e, h, TRUE, 0, s, {})
    BY <2>2, <2>3 DEF Fit
  <2>5. QED
    BY <2>1, <2>4, ProperFields
<1>5. QED
  BY <1>3, <1>4

-----------------------------------------------------------------------------
(* A run of a tick.                                                        *)

Run == [at: RunStates, due: SUBSET Duties, since: Nat, failed: BOOLEAN,
        within: SUBSET Ticks, after: [Ticks -> Nat]]
Call == [at: {"none", "waiting", "due"}, on: Ticks \cup {NULL},
         within: BOOLEAN, restarted: BOOLEAN]

TypesOK ==
  /\ status \in {"stopped", "running"}
  /\ timer \in Nat \cup {NULL}
  /\ activeTick \in Ticks \cup {NULL}
  /\ ticks \in [Ticks -> Run]
  /\ heads \in SUBSET Ticks
  /\ rearm \in {"none", "waiting", "due"}
  /\ age \in [Duties -> Nat]
  /\ retryIn \in Nat
  /\ stops \in [Stoppers -> Call]

\* Between the heads #activeTick names the outermost run; a head belongs to a run
\* in progress, and no run began in its own head.
HeadsKept ==
  /\ heads = {} => \A t \in Outermost : activeTick = t
  /\ \A t \in heads : ticks[t].at # "none"
  /\ \A t \in Ticks : t \notin ticks[t].within

\* A stopped scheduler has no timer.
TimerRuns == status = "stopped" => timer = NULL

\* The inductive invariant.
Inv ==
  /\ TypesOK /\ Proper(lc)
  /\ TicksSerialized /\ HeadsKept
  /\ TimerRuns /\ RunningIsAlive

\* What a step of the run t does to the runs: the others stay where they are,
\* and t itself began where next says.
Runs(t, next) ==
  /\ ticks' \in [Ticks -> Run]
  /\ \A u \in Ticks \ {t} : /\ ticks'[u].at = ticks[u].at
                           /\ ticks'[u].within = ticks[u].within
  /\ ticks'[t].at # "none" /\ ticks'[t].within = next.within

LEMMA IntervalFacts ==
  /\ Interval \in [Duties -> Nat]
  /\ Interval[Busiest] \in Nat /\ Interval[Shortest] \in Nat
  /\ TickEvent \in EventTypes
<1>1. /\ Interval \in [Duties -> Nat]
      /\ Interval["health"] \in Nat /\ Interval["replay"] \in Nat
      /\ Interval["prune"] \in Nat /\ TickEvent \in EventTypes
  BY SchedulerAssumption DEF Duties
<1>2. \E d \in Duties : \A e \in Duties : Interval[e] <= Interval[d]
  BY <1>1 DEF Duties
<1>3. \E d \in Duties : \A e \in Duties : Interval[d] <= Interval[e]
  BY <1>1 DEF Duties
<1>4. Busiest \in Duties /\ Shortest \in Duties
  BY <1>2, <1>3 DEF Busiest, Shortest
<1>5. QED
  BY <1>1, <1>4

LEMMA UpToType ==
  ASSUME NEW bound \in Nat, NEW n \in Nat
  PROVE  UpTo(bound, n) \in Nat
BY DEF UpTo

LEMMA DidType ==
  ASSUME age \in [Duties -> Nat], NEW next \in Run, NEW done, Did(next, done)
  PROVE  age' \in [Duties -> Nat]
<1>1. ASSUME NEW d \in Duties
      PROVE  (IF d \in done THEN UpTo(Interval[d], next.since) ELSE age[d]) \in Nat
  <2>1. Interval[d] \in Nat /\ next.since \in Nat /\ age[d] \in Nat
    BY IntervalFacts DEF Run
  <2>2. QED
    BY <2>1, UpToType
<1>2. QED
  BY <1>1 DEF Did

LEMMA OvertakenRuns ==
  ASSUME ticks \in [Ticks -> Run], NEW t \in Ticks, NEW done \in SUBSET Duties
  PROVE  /\ Overtaken(t, done) \in [Ticks -> Run]
         /\ \A u \in Ticks : /\ Overtaken(t, done)[u].at = ticks[u].at
                           /\ Overtaken(t, done)[u].within = ticks[u].within
<1>1. \A run \in Run, due \in SUBSET Duties :
        /\ [run EXCEPT !.due = due] \in Run
        /\ [run EXCEPT !.due = due].at = run.at
        /\ [run EXCEPT !.due = due].within = run.within
  BY DEF Run
<1> DEFINE Due(u) ==
      (ticks[u].due \ done) \cup {d \in done : ticks[u].after[t] >= Interval[d]}
<1>2. \A u \in Ticks : ticks[u] \in Run /\ Due(u) \in SUBSET Duties
  BY DEF Run
<1>3. Overtaken(t, done) = [u \in Ticks |-> [ticks[u] EXCEPT !.due = Due(u)]]
  BY DEF Overtaken
<1> HIDE DEF Due
<1>4. ASSUME NEW u \in Ticks
      PROVE  /\ [ticks[u] EXCEPT !.due = Due(u)] \in Run
             /\ [ticks[u] EXCEPT !.due = Due(u)].at = ticks[u].at
             /\ [ticks[u] EXCEPT !.due = Due(u)].within = ticks[u].within
  BY <1>1, <1>2
<1>5. QED
  BY <1>3, <1>4

LEMMA RunToRuns ==
  ASSUME TypesOK, NEW t \in Ticks, NEW next \in Run, next.at # "none",
         NEW done \in SUBSET Duties, RunTo(t, next, done)
  PROVE  Runs(t, next) /\ age' \in [Duties -> Nat] /\ ticks'[t].at = next.at
<1>1. age' \in [Duties -> Nat]
  BY DidType DEF RunTo, TypesOK
<1> DEFINE then == [next EXCEPT !.due = next.due \ done]
<1>2. then \in Run /\ then.at = next.at /\ then.within = next.within
  BY DEF Run
<1>3. ticks' = [Overtaken(t, done) EXCEPT ![t] = then]
  BY DEF RunTo
<1> HIDE DEF then
<1>4. /\ Overtaken(t, done) \in [Ticks -> Run]
      /\ \A u \in Ticks : /\ Overtaken(t, done)[u].at = ticks[u].at
                        /\ Overtaken(t, done)[u].within = ticks[u].within
  BY OvertakenRuns DEF TypesOK
<1>5. QED
  BY <1>1, <1>2, <1>3, <1>4 DEF Runs

LEMMA RunSettlesRuns ==
  ASSUME TypesOK, NEW t \in Ticks, NEW next \in Run,
         NEW done \in SUBSET Duties, NEW caught, RunSettles(t, next, done, caught)
  PROVE  Runs(t, next) /\ age' \in [Duties -> Nat] /\ ticks'[t].at = "over"
<1>1. age' \in [Duties -> Nat]
  BY DidType DEF RunSettles, TypesOK
<1> DEFINE others == [u \in Ticks |-> [Overtaken(t, done)[u] EXCEPT !.after[t] = 0]]
<1>2. PICK thrown \in BOOLEAN :
        ticks' = [others EXCEPT ![t] =
          [NoTick EXCEPT !.at = "over", !.failed = thrown, !.within = next.within]]
  BY DEF RunSettles
<1> DEFINE over == [NoTick EXCEPT !.at = "over", !.failed = thrown,
                                  !.within = next.within]
<1>3. over \in Run /\ over.at = "over" /\ over.within = next.within
  BY DEF NoTick, Run, RunStates
<1>4. \A run \in Run : /\ [run EXCEPT !.after[t] = 0] \in Run
                      /\ [run EXCEPT !.after[t] = 0].at = run.at
                      /\ [run EXCEPT !.after[t] = 0].within = run.within
  BY DEF Run
<1>5. /\ Overtaken(t, done) \in [Ticks -> Run]
      /\ \A u \in Ticks : /\ Overtaken(t, done)[u].at = ticks[u].at
                        /\ Overtaken(t, done)[u].within = ticks[u].within
  BY OvertakenRuns DEF TypesOK
<1>6. /\ others \in [Ticks -> Run]
      /\ \A u \in Ticks : /\ others[u].at = ticks[u].at
                        /\ others[u].within = ticks[u].within
  BY <1>4, <1>5
<1> HIDE DEF others, over
<1>7. ticks' = [others EXCEPT ![t] = over]
  BY <1>2 DEF over
<1>8. QED
  BY <1>1, <1>3, <1>6, <1>7 DEF Runs

LEMMA TickEndsRuns ==
  ASSUME TypesOK, Proper(lc), NEW t \in Ticks, NEW next \in Run,
         NEW done \in SUBSET Duties, TickEnds(t, next, done)
  PROVE  Runs(t, next) /\ age' \in [Duties -> Nat] /\ Proper(lc')
<1>1. PICK did \in SUBSET Duties, caught \in BOOLEAN :
        RunSettles(t, next, did, caught)
  <2>1. done \cup ({"prune"} \cap next.due) \in SUBSET Duties
    BY DEF Run
  <2>2. QED
    BY <2>1 DEF TickEnds
<1>2. Proper(lc')
  BY IntervalFacts, PublishedProper DEF TickEnds
<1>3. QED
  BY <1>1, <1>2, RunSettlesRuns

LEMMA ReconcileRuns ==
  ASSUME TypesOK, Proper(lc), NEW t \in Ticks, NEW next \in Run,
         NEW done \in SUBSET Duties, ReconcileBegins(t, next, done)
  PROVE  Runs(t, next) /\ age' \in [Duties -> Nat] /\ Proper(lc')
<1> DEFINE then == [next EXCEPT !.at = "reconcile"]
<1>1. then \in Run /\ then.at = "reconcile" /\ then.within = next.within
  BY DEF Run, RunStates
<1>2. RunTo(t, then, done) /\ lc' = lc
  BY DEF ReconcileBegins
<1> HIDE DEF then
<1>3. QED
  BY <1>1, <1>2, RunToRuns DEF Runs

LEMMA AfterProbeRuns ==
  ASSUME TypesOK, Proper(lc), NEW t \in Ticks, NEW next \in Run,
         NEW done \in SUBSET Duties, AfterProbe(t, next, done)
  PROVE  Runs(t, next) /\ age' \in [Duties -> Nat] /\ Proper(lc')
<1>1. done \cup PassedOver(next) \in SUBSET Duties
  BY DEF PassedOver, Duties
<1>2. QED
  BY <1>1, ReconcileRuns, TickEndsRuns DEF AfterProbe

\* A run begins with its head closed or open, and in all the heads there are.
LEMMA TickBeginsRuns ==
  ASSUME Inv, NEW t \in Ticks, TickBegins(t)
  PROVE  /\ ticks' \in [Ticks -> Run] /\ age' \in [Duties -> Nat] /\ Proper(lc')
         /\ \A u \in Ticks \ {t} : /\ ticks'[u].at = ticks[u].at
                                  /\ ticks'[u].within = ticks[u].within
         /\ ticks'[t].at # "none" /\ ticks'[t].within = heads
         /\ \/ activeTick' = t /\ heads' = heads
            \/ activeTick' = activeTick /\ heads' = heads \cup {t}
<1> DEFINE next == [NoTick EXCEPT !.due = DueNow, !.within = heads,
                                  !.after = [u \in Ticks |-> ticks[u].since]]
<1>1. TypesOK /\ Proper(lc) /\ t \notin heads
  BY DEF Inv, HeadsKept, TickBegins
<1>2. next \in Run /\ next.within = heads
  <2>1. DueNow \in SUBSET Duties /\ heads \in SUBSET Ticks
    BY <1>1 DEF DueNow, TypesOK
  <2>2. [u \in Ticks |-> ticks[u].since] \in [Ticks -> Nat]
    BY <1>1 DEF TypesOK, Run
  <2>3. QED
    BY <2>1, <2>2 DEF NoTick, Run, RunStates
<1>3. \/ \E at \in {"probe", "reconcile", "failing"}, done \in SUBSET Duties :
           CallsOut(t, next, at, done)
      \/ HeadReturned(t) /\ ReconcileBegins(t, next, {})
      \/ HeadReturned(t) /\ TickEnds(t, next, PassedOver(next))
  BY DEF TickBegins, PassedOver, Duties
<1> HIDE DEF next
<1>4. ASSUME NEW at \in {"probe", "reconcile", "failing"}, NEW done \in SUBSET Duties,
             CallsOut(t, next, at, done)
      PROVE  /\ Runs(t, next) /\ age' \in [Duties -> Nat] /\ Proper(lc')
             /\ activeTick' = activeTick /\ heads' = heads \cup {t}
  <2> DEFINE then == [next EXCEPT !.at = at]
  <2>1. then \in Run /\ then.at # "none" /\ then.within = next.within
    BY <1>2 DEF Run, RunStates
  <2>2. RunTo(t, then, done) /\ UNCHANGED <<activeTick, lc>> /\ heads' = heads \cup {t}
    BY <1>4 DEF CallsOut
  <2> HIDE DEF then
  <2>3. Runs(t, then) /\ age' \in [Duties -> Nat]
    BY <1>1, <2>1, <2>2, RunToRuns
  <2>4. QED
    BY <1>1, <2>1, <2>2, <2>3 DEF Runs
<1>5. CASE HeadReturned(t) /\ (ReconcileBegins(t, next, {})
                              \/ TickEnds(t, next, PassedOver(next)))
  <2>1. PassedOver(next) \in SUBSET Duties /\ {} \in SUBSET Duties
    BY DEF PassedOver, Duties
  <2>2. Runs(t, next) /\ age' \in [Duties -> Nat] /\ Proper(lc')
    BY <1>1, <1>2, <1>5, <2>1, ReconcileRuns, TickEndsRuns
  <2>3. activeTick' = t /\ heads' = heads
    BY <1>1, <1>5 DEF HeadReturned
  <2>4. QED
    BY <1>2, <2>2, <2>3 DEF Runs
<1>6. QED
  BY <1>2, <1>3, <1>4, <1>5 DEF Runs

\* A step that begins and ends no run and opens and closes no head.
LEMMA SameRuns ==
  ASSUME TypesOK, TicksSerialized, HeadsKept, UNCHANGED <<activeTick, heads>>,
         \A u \in Ticks : /\ ticks'[u].at = "none" <=> ticks[u].at = "none"
                         /\ ticks'[u].within = ticks[u].within
  PROVE  TicksSerialized' /\ HeadsKept' /\ Outermost' = Outermost
<1>1. Outermost' = Outermost
  BY DEF Outermost
<1>2. TicksSerialized'
  BY <1>1 DEF TicksSerialized
<1>3. HeadsKept'
  BY <1>1 DEF HeadsKept, TypesOK
<1>4. QED
  BY <1>1, <1>2, <1>3

-----------------------------------------------------------------------------
(* Steps.                                                                  *)

LEMMA InitInv == Init => Inv
<1> SUFFICES ASSUME Init PROVE Inv
  OBVIOUS
<1>1. NoTick \in Run /\ NoTick.at = "none" /\ NoTick.within = {}
  BY DEF NoTick, Run, RunStates
<1>2. NoStop \in Call
  BY DEF NoStop, Call
<1>3. TypesOK
  BY <1>1, <1>2, IntervalFacts DEF Init, TypesOK
<1>4. TicksSerialized /\ HeadsKept
  BY <1>1 DEF Init, TicksSerialized, HeadsKept, Outermost
<1>5. QED
  BY <1>3, <1>4, NewProper DEF Init, Inv, RunningIsAlive, TimerRuns

\* The dispatcher's own steps and its callers leave the scheduler alone.
LEMMA LifecycleStep ==
  ASSUME Inv, LifecycleNext
  PROVE  Inv'
<1>1. Proper(lc')
  <2>1. Proper(lc)
    BY DEF Inv
  <2>2. ASSUME NEW x \in Subscribers,
               Subscribe(x) \/ Unsubscribe(x) \/ ListenerSettles(x)
        PROVE  Proper(lc')
    BY <2>1, <2>2, SubscribedProper, UnsubscribedProper, ListenerSettledProper
       DEF Subscribe, Unsubscribe, ListenerSettles
  <2>3. ASSUME NEW type \in EventTypes, Publish(type)  PROVE Proper(lc')
    BY <2>1, <2>3, PublishedProper DEF Publish
  <2>4. CASE DrainNext
    BY <2>1, <2>4, DrainStartedProper DEF DrainNext
  <2>5. CASE DispatchEnds
    BY <2>1, <2>5, DispatchEndedProper DEF DispatchEnds
  <2>6. ASSUME NEW f \in Flushers, Flush(f) \/ FlushTimesOut(f)
        PROVE  Proper(lc')
    BY <2>1, <2>6, FlushProper DEF Flush, FlushTimesOut
  <2>7. CASE Close
    BY <2>1, <2>7, ClosedProper DEF Close
  <2>8. QED
    BY <2>2, <2>3, <2>4, <2>5, <2>6, <2>7 DEF LifecycleNext
<1>2. UNCHANGED schedulerVars
  BY DEF LifecycleNext, Subscribe, Unsubscribe, ListenerSettles, Publish, DrainNext,
         DispatchEnds, Flush, FlushTimesOut, Close
<1>3. TypesOK' /\ RunningIsAlive' /\ TimerRuns'
  BY <1>2 DEF Inv, TypesOK, schedulerVars, RunningIsAlive, TimerRuns
<1>4. TicksSerialized' /\ HeadsKept'
  BY <1>2, SameRuns DEF Inv, schedulerVars
<1>5. QED
  BY <1>1, <1>3, <1>4 DEF Inv

\* Starting a tick, or joining the one in progress.
LEMMA TickStep ==
  ASSUME Inv, Tick
  PROVE  /\ ticks' \in [Ticks -> Run] /\ age' \in [Duties -> Nat] /\ Proper(lc')
         /\ activeTick' \in Ticks \cup {NULL} /\ heads' \in SUBSET Ticks
         /\ activeTick' # NULL \/ heads' # {}
         /\ TicksSerialized' /\ HeadsKept'
<1>1. TypesOK /\ Proper(lc) /\ TicksSerialized /\ HeadsKept
  BY DEF Inv
<1>2. CASE activeTick # NULL
  <2>1. UNCHANGED <<activeTick, ticks, heads, age, lc>>
    BY <1>2 DEF Tick
  <2>2. TicksSerialized' /\ HeadsKept'
    BY <1>1, <2>1, SameRuns
  <2>3. QED
    BY <1>1, <1>2, <2>1, <2>2 DEF TypesOK
<1>3. CASE activeTick = NULL
  <2> DEFINE t == AnySlot
  <2>1. t \in Ticks /\ ticks[t].at = "none" /\ TickBegins(t)
    BY <1>3 DEF Tick, FreeSlots, AnySlot
  <2> HIDE DEF t
  <2>2. /\ ticks' \in [Ticks -> Run] /\ age' \in [Duties -> Nat] /\ Proper(lc')
        /\ \A u \in Ticks \ {t} : /\ ticks'[u].at = ticks[u].at
                                 /\ ticks'[u].within = ticks[u].within
        /\ ticks'[t].at # "none" /\ ticks'[t].within = heads
        /\ \/ activeTick' = t /\ heads' = heads
           \/ activeTick' = activeTick /\ heads' = heads \cup {t}
    BY <2>1, TickBeginsRuns
  <2>3. t \notin Outermost /\ t \notin heads
    BY <1>1, <2>1 DEF Outermost, HeadsKept
  <2>4. heads = {} => Outermost = {}
    BY <1>1, <1>3, SchedulerAssumption DEF HeadsKept, Outermost
  <2>5. Outermost' = IF heads = {} THEN {t} ELSE Outermost
    <3>1. \A u \in Ticks \ {t} : u \in Outermost' <=> u \in Outermost
      BY <2>2 DEF Outermost
    <3>2. t \in Outermost' <=> heads = {}
      BY <2>1, <2>2 DEF Outermost
    <3>3. Outermost' \subseteq Ticks /\ Outermost \subseteq Ticks
      BY DEF Outermost
    <3>4. QED
      BY <2>3, <2>4, <3>1, <3>2, <3>3
  <2>6. TicksSerialized'
    BY <1>1, <2>5 DEF TicksSerialized
  <2>7. HeadsKept'
    <3>1. heads' = {} => \A u \in Outermost' : activeTick' = u
      BY <2>2, <2>5
    <3>2. \A u \in heads' : ticks'[u].at # "none"
      BY <1>1, <2>1, <2>2 DEF HeadsKept, TypesOK
    <3>3. \A u \in Ticks : u \notin ticks'[u].within
      BY <1>1, <2>2, <2>3 DEF HeadsKept
    <3>4. QED
      BY <3>1, <3>2, <3>3 DEF HeadsKept
  <2>8. QED
    BY <1>1, <2>1, <2>2, <2>6, <2>7, SchedulerAssumption DEF TypesOK
<1>4. QED
  BY <1>2, <1>3

\* A step of a run between its head and its end.
LEMMA RunProgress ==
  ASSUME Inv, NEW t \in Ticks,
         ProbeAnswers(t) \/ ReconcileAnswers(t) \/ TickFails(t)
  PROVE  Inv' /\ Outermost' = Outermost
<1>1. TypesOK /\ Proper(lc)
  BY DEF Inv
<1>2. ticks[t] \in Run /\ ticks[t].at # "none"
  BY <1>1 DEF TypesOK, ProbeAnswers, ReconcileAnswers, TickFails
<1>3. /\ {} \in SUBSET Duties
      /\ {"health"} \in SUBSET Duties /\ {"replay"} \in SUBSET Duties
  BY DEF Duties
<1>4. Runs(t, ticks[t]) /\ age' \in [Duties -> Nat] /\ Proper(lc') /\ retryIn' \in Nat
  <2>1. CASE ProbeAnswers(t)
    BY <1>1, <1>2, <1>3, <2>1, AfterProbeRuns DEF ProbeAnswers, TypesOK
  <2>2. CASE ReconcileAnswers(t)
    <3>1. retryIn' \in Nat
      BY <2>2, SchedulerAssumption DEF ReconcileAnswers
    <3>2. QED
      BY <1>1, <1>2, <1>3, <2>2, <3>1, TickEndsRuns DEF ReconcileAnswers
  <2>3. CASE TickFails(t)
    <3>1. Runs(t, ticks[t]) /\ age' \in [Duties -> Nat]
      BY <1>1, <1>2, <1>3, <2>3, RunSettlesRuns DEF TickFails, Runs
    <3>2. Proper(lc')
      BY <1>1, <2>3, IntervalFacts, PublishedProper DEF TickFails
    <3>3. QED
      BY <1>1, <2>3, <3>1, <3>2 DEF TickFails, TypesOK
  <2>4. QED
    BY <2>1, <2>2, <2>3
<1>5. UNCHANGED <<status, timer, activeTick, heads, rearm, stops>>
  BY DEF ProbeAnswers, ReconcileAnswers, TickFails
<1>6. TypesOK'
  BY <1>1, <1>4, <1>5 DEF TypesOK, Runs
<1>7. TicksSerialized' /\ HeadsKept' /\ Outermost' = Outermost
  BY <1>2, <1>4, <1>5, SameRuns DEF Inv, Runs
<1>8. RunningIsAlive' /\ TimerRuns'
  BY <1>5 DEF Inv, RunningIsAlive, TimerRuns
<1>9. QED
  BY <1>4, <1>6, <1>7, <1>8 DEF Inv

\* The innermost head returns: its run is the active one.
LEMMA HeadStep ==
  ASSUME Inv, NEW t \in Ticks, HeadAwaits(t) \/ HeadFails(t)
  PROVE  Inv' /\ Outermost' = Outermost
<1>1. TypesOK /\ Proper(lc) /\ TicksSerialized /\ HeadsKept
  BY DEF Inv
<1>2. ticks[t] \in Run /\ ticks[t].at # "none" /\ InHead(t) /\ HeadReturned(t)
  BY <1>1 DEF TypesOK, HeadAwaits, HeadFails
<1>3. Runs(t, ticks[t]) /\ age' \in [Duties -> Nat] /\ Proper(lc')
  <2>1. CASE HeadAwaits(t)
    BY <1>1, <1>2, <2>1 DEF HeadAwaits, Runs, TypesOK
  <2>2. CASE HeadFails(t)
    <3>1. {} \in SUBSET Duties
      OBVIOUS
    <3>2. Runs(t, ticks[t]) /\ age' \in [Duties -> Nat]
      BY <1>1, <1>2, <2>2, <3>1, RunSettlesRuns DEF HeadFails, Runs
    <3>3. Proper(lc')
      BY <1>1, <2>2, IntervalFacts, PublishedProper DEF HeadFails
    <3>4. QED
      BY <3>2, <3>3
  <2>3. QED
    BY <2>1, <2>2
<1>4. UNCHANGED <<status, timer, rearm, retryIn, stops>>
  BY DEF HeadAwaits, HeadFails
<1>5. activeTick' = t /\ heads' = heads \ {t}
  BY <1>2 DEF HeadReturned
<1>6. TypesOK'
  BY <1>1, <1>3, <1>4, <1>5 DEF TypesOK, Runs
<1>7. Outermost' = Outermost
  BY <1>2, <1>3 DEF Runs, Outermost
<1>8. HeadsKept'
  <2>1. heads' = {} => t \in Outermost
    BY <1>1, <1>2, <1>5 DEF InHead, HeadsKept, Outermost
  <2>2. heads' = {} => \A u \in Outermost' : activeTick' = u
    BY <1>1, <1>5, <1>7, <2>1 DEF TicksSerialized
  <2>3. \A u \in heads' : ticks'[u].at # "none"
    BY <1>1, <1>3, <1>5 DEF HeadsKept, Runs, TypesOK
  <2>4. \A u \in Ticks : u \notin ticks'[u].within
    BY <1>1, <1>3 DEF HeadsKept, Runs
  <2>5. QED
    BY <2>2, <2>3, <2>4 DEF HeadsKept
<1>9. RunningIsAlive' /\ TimerRuns' /\ TicksSerialized'
  BY <1>4, <1>5, <1>7, SchedulerAssumption
     DEF Inv, RunningIsAlive, TimerRuns, TicksSerialized
<1>10. QED
  BY <1>3, <1>6, <1>7, <1>8, <1>9 DEF Inv

\* Which stops a run that is over lets go on.
LEMMA ResumedType ==
  ASSUME TypesOK, NEW t \in Ticks
  PROVE  /\ Resumed(t) \in [Stoppers -> Call]
         /\ \A c \in Stoppers :
              \/ Resumed(t)[c] = stops[c]
                 /\ (stops[c].at # "waiting" \/ stops[c].on # t)
              \/ Resumed(t)[c].at = "none"
              \/ /\ stops[c].at = "waiting" /\ stops[c].on = t
                 /\ Resumed(t)[c].at = "due"
                 /\ Resumed(t)[c].within = stops[c].within
                 /\ Resumed(t)[c].restarted = stops[c].restarted
<1>1. \A x \in Call : /\ [x EXCEPT !.at = "due"] \in Call
                     /\ [x EXCEPT !.at = "due"].at = "due"
                     /\ [x EXCEPT !.at = "due"].within = x.within
                     /\ [x EXCEPT !.at = "due"].restarted = x.restarted
  BY DEF Call
<1>2. NoStop \in Call /\ NoStop.at = "none"
  BY DEF NoStop, Call
<1>3. stops \in [Stoppers -> Call]
  BY DEF TypesOK
<1>4. QED
  BY <1>1, <1>2, <1>3 DEF Resumed

\* The end of a run: what awaits it goes on, the timer callback included.
LEMMA RunEnd ==
  ASSUME Inv, NEW t \in Ticks, TickOver(t)
  PROVE  Inv' /\ Outermost' = Outermost \ {t}
<1>1. TypesOK /\ Proper(lc) /\ TicksSerialized /\ HeadsKept /\ RunningIsAlive
  BY DEF Inv
<1>2. NoTick \in Run /\ NoTick.at = "none" /\ NoTick.within = {}
  BY DEF NoTick, Run, RunStates
<1>3. heads = {} /\ UNCHANGED <<status, timer, heads, age, retryIn, lc>>
  BY DEF TickOver
<1>4. /\ ticks' \in [Ticks -> Run]
      /\ \A u \in Ticks \ {t} : ticks'[u] = ticks[u]
      /\ ticks'[t].at = "none" /\ ticks'[t].within = {}
  BY <1>1, <1>2 DEF TickOver, TypesOK
<1>5. stops' \in [Stoppers -> Call]
  BY <1>1, ResumedType DEF TickOver
<1>6. TypesOK'
  BY <1>1, <1>3, <1>4, <1>5 DEF TickOver, TypesOK
<1>7. Outermost' = Outermost \ {t}
  BY <1>4 DEF Outermost
<1>8. TicksSerialized'
  BY <1>1, <1>7 DEF TicksSerialized
<1>9. HeadsKept'
  <2>1. \A u \in Outermost' : activeTick' = u
    BY <1>1, <1>3, <1>7 DEF HeadsKept, TickOver
  <2>2. \A u \in Ticks : u \notin ticks'[u].within
    BY <1>1, <1>4 DEF HeadsKept
  <2>3. QED
    BY <1>3, <2>1, <2>2 DEF HeadsKept
<1>10. RunningIsAlive'
  BY <1>1, <1>3 DEF TickOver, RunningIsAlive
<1>11. TimerRuns' /\ Proper(lc')
  BY <1>1, <1>3 DEF Inv, TimerRuns
<1>12. QED
  BY <1>6, <1>7, <1>8, <1>9, <1>10, <1>11 DEF Inv

\* The public calls, the timer and the clock.
LEMMA CallStep ==
  ASSUME Inv,
         \/ Start \/ ApplicationTick \/ TimerFires \/ Rearm \/ PassTime
         \/ \E c \in Stoppers : Stop(c) \/ StopResumes(c)
  PROVE  Inv'
<1>1. /\ TypesOK /\ Proper(lc) /\ TicksSerialized /\ HeadsKept
      /\ TimerRuns /\ RunningIsAlive
  BY DEF Inv
<1>2. /\ \A x \in Call : [x EXCEPT !.restarted = TRUE, !.within = FALSE] \in Call
      /\ \A r \in Ticks \cup {NULL}, b \in BOOLEAN :
           [NoStop EXCEPT !.at = "waiting", !.on = r, !.within = b] \in Call
      /\ NoStop \in Call
  BY DEF NoStop, Call
<1>3. stops \in [Stoppers -> Call]
  BY <1>1 DEF TypesOK
<1>4. NULL \notin Nat /\ NULL \notin Ticks
  BY SchedulerAssumption
<1>5. CASE ApplicationTick
  <2>1. Tick /\ status = "running"
        /\ UNCHANGED <<status, timer, rearm, retryIn, stops>>
    BY <1>5 DEF ApplicationTick, Tick
  <2>2. /\ ticks' \in [Ticks -> Run] /\ age' \in [Duties -> Nat] /\ Proper(lc')
        /\ activeTick' \in Ticks \cup {NULL} /\ heads' \in SUBSET Ticks
        /\ activeTick' # NULL \/ heads' # {}
        /\ TicksSerialized' /\ HeadsKept'
    BY <2>1, TickStep
  <2>3. RunningIsAlive' /\ TimerRuns' /\ TypesOK'
    BY <1>1, <2>1, <2>2 DEF RunningIsAlive, TimerRuns, TypesOK
  <2>4. QED
    BY <2>2, <2>3 DEF Inv
<1>6. CASE TimerFires
  <2>1. Tick /\ status = "running" /\ timer' = NULL /\ rearm' = "waiting"
        /\ UNCHANGED <<status, retryIn, stops>>
    BY <1>6 DEF TimerFires, Tick
  <2>2. /\ ticks' \in [Ticks -> Run] /\ age' \in [Duties -> Nat] /\ Proper(lc')
        /\ activeTick' \in Ticks \cup {NULL} /\ heads' \in SUBSET Ticks
        /\ activeTick' # NULL \/ heads' # {}
        /\ TicksSerialized' /\ HeadsKept'
    BY <2>1, TickStep
  <2>3. RunningIsAlive' /\ TimerRuns' /\ TypesOK'
    BY <1>1, <2>1, <2>2 DEF RunningIsAlive, TimerRuns, TypesOK
  <2>4. QED
    BY <2>2, <2>3 DEF Inv
<1>7. ASSUME UNCHANGED <<activeTick, ticks, heads>>
      PROVE  TicksSerialized' /\ HeadsKept'
  BY <1>1, <1>7, SameRuns
<1>8. CASE Start
  <2>1. stops' \in [Stoppers -> Call]
    BY <1>2, <1>3, <1>8 DEF Start
  <2>2. TypesOK'
    BY <1>1, <1>8, <2>1 DEF Start, TypesOK
  <2>3. status' = "running" /\ timer' = IF timer = NULL THEN 0 ELSE timer
    BY <1>8 DEF Start
  <2>4. RunningIsAlive' /\ TimerRuns'
    BY <1>4, <2>3 DEF RunningIsAlive, TimerRuns
  <2>5. QED
    BY <1>1, <1>7, <1>8, <2>2, <2>4 DEF Start, Inv
<1>9. CASE Rearm
  <2>1. NextDelay \in Nat
    BY <1>1, IntervalFacts DEF NextDelay, TypesOK
  <2>2. TypesOK'
    BY <1>1, <1>9, <2>1 DEF Rearm, TypesOK
  <2>3. RunningIsAlive' /\ TimerRuns'
    BY <1>1, <1>4, <1>9, <2>1 DEF Rearm, RunningIsAlive, TimerRuns
  <2>4. QED
    BY <1>1, <1>7, <1>9, <2>2, <2>3 DEF Rearm, Inv
<1>10. CASE PassTime
  <2>1. age' \in [Duties -> Nat]
    <3>1. ASSUME NEW d \in Duties  PROVE UpTo(Interval[d], age[d] + 1) \in Nat
      <4>1. Interval[d] \in Nat /\ age[d] \in Nat
        BY <1>1, IntervalFacts DEF TypesOK
      <4>2. age[d] + 1 \in Nat
        BY <4>1
      <4>3. QED
        BY <4>1, <4>2, UpToType
    <3>2. QED
      BY <1>10, <3>1 DEF PassTime
  <2> DEFINE Older(run) == IF run.at \in {"none", "over"} THEN run
                           ELSE [run EXCEPT !.since = UpTo(Interval[Busiest], @ + 1)]
  <2>2. \A run \in Run : /\ Older(run) \in Run /\ Older(run).at = run.at
                        /\ Older(run).within = run.within
    <3> SUFFICES ASSUME NEW run \in Run
                 PROVE  /\ Older(run) \in Run /\ Older(run).at = run.at
                        /\ Older(run).within = run.within
      OBVIOUS
    <3>1. UpTo(Interval[Busiest], run.since + 1) \in Nat
      <4>1. run.since + 1 \in Nat
        BY DEF Run
      <4>2. QED
        BY <4>1, IntervalFacts, UpToType
    <3>2. QED
      BY <3>1 DEF Run
  <2>3. ticks' = [u \in Ticks |-> Older(ticks[u])]
    BY <1>10 DEF PassTime
  <2> HIDE DEF Older
  <2>4. /\ ticks' \in [Ticks -> Run]
        /\ \A u \in Ticks : /\ ticks'[u].at = ticks[u].at
                           /\ ticks'[u].within = ticks[u].within
    BY <1>1, <2>2, <2>3 DEF TypesOK
  <2>5. timer' \in Nat \cup {NULL} /\ (timer = NULL <=> timer' = NULL)
    <3>1. timer \in Nat \cup {NULL}
      BY <1>1 DEF TypesOK
    <3>2. timer' = IF timer = NULL \/ timer = 0 THEN timer ELSE timer - 1
      BY <1>10 DEF PassTime
    <3>3. QED
      BY <1>4, <3>1, <3>2
  <2>6. retryIn' \in Nat
    <3>1. retryIn \in Nat
      BY <1>1 DEF TypesOK
    <3>2. retryIn' = IF retryIn = 0 THEN 0 ELSE retryIn - 1
      BY <1>10 DEF PassTime
    <3>3. QED
      BY <3>1, <3>2
  <2>7. UNCHANGED <<status, activeTick, heads, rearm, stops, lc>>
    BY <1>10 DEF PassTime
  <2>8. TypesOK'
    BY <1>1, <2>1, <2>4, <2>5, <2>6, <2>7 DEF TypesOK
  <2>9. TicksSerialized' /\ HeadsKept'
    BY <1>1, <2>4, <2>7, SameRuns
  <2>10. RunningIsAlive' /\ TimerRuns'
    BY <1>1, <2>5, <2>7 DEF RunningIsAlive, TimerRuns
  <2>11. QED
    BY <1>1, <2>7, <2>8, <2>9, <2>10 DEF Inv
<1>11. Proper(ClosedByStop)
  BY <1>1, ClosedProper DEF ClosedByStop
<1>12. ASSUME NEW c \in Stoppers, Stop(c)  PROVE Inv'
  <2>1. CASE status = "stopped" /\ activeTick = NULL
    <3>1. UNCHANGED vars
      BY <1>12, <2>1 DEF Stop
    <3>2. TypesOK' /\ Proper(lc') /\ RunningIsAlive' /\ TimerRuns'
      BY <1>1, <3>1 DEF vars, schedulerVars, TypesOK, RunningIsAlive, TimerRuns
    <3>3. QED
      BY <1>7, <3>1, <3>2 DEF vars, schedulerVars, Inv
  <2>2. CASE ~(status = "stopped" /\ activeTick = NULL)
    <3>1. Stopping
      BY <1>12, <2>2 DEF Stop
    <3>2. stops' \in [Stoppers -> Call] /\ Proper(lc')
      <4>1. CASE activeTick = NULL
        BY <1>3, <1>11, <1>12, <2>2, <4>1 DEF Stop
      <4>2. CASE activeTick # NULL
        <5>1. /\ stops' = [stops EXCEPT ![c] =
                   [NoStop EXCEPT !.at = "waiting", !.on = activeTick,
                                  !.within = heads # {}]]
              /\ lc' = lc
          BY <1>12, <2>2, <4>2 DEF Stop
        <5>2. activeTick \in Ticks \cup {NULL} /\ (heads # {}) \in BOOLEAN
          BY <1>1 DEF TypesOK
        <5>3. QED
          BY <1>1, <1>2, <1>3, <5>1, <5>2
      <4>3. QED
        BY <4>1, <4>2
    <3>3. TypesOK'
      BY <1>1, <3>1, <3>2 DEF Stopping, TypesOK
    <3>4. RunningIsAlive' /\ TimerRuns'
      BY <3>1 DEF Stopping, RunningIsAlive, TimerRuns
    <3>5. QED
      BY <1>7, <3>1, <3>2, <3>3, <3>4 DEF Stopping, Inv
  <2>3. QED
    BY <2>1, <2>2
<1>13. ASSUME NEW c \in Stoppers, StopResumes(c)  PROVE Inv'
  <2>1. stops' \in [Stoppers -> Call]
    BY <1>2, <1>3, <1>13 DEF StopResumes
  <2>2. TypesOK' /\ Proper(lc')
    BY <1>1, <1>11, <1>13, <2>1 DEF StopResumes, TypesOK
  <2>3. RunningIsAlive' /\ TimerRuns'
    BY <1>1, <1>13 DEF StopResumes, RunningIsAlive, TimerRuns
  <2>4. QED
    BY <1>7, <1>13, <2>2, <2>3 DEF StopResumes, Inv
<1>14. QED
  BY <1>5, <1>6, <1>8, <1>9, <1>10, <1>12, <1>13

LEMMA StepInv == Inv /\ [Next]_vars => Inv'
<1> SUFFICES ASSUME Inv, [Next]_vars PROVE Inv'
  OBVIOUS
<1>1. CASE LifecycleNext
  BY <1>1, LifecycleStep
<1>2. ASSUME NEW t \in Ticks, RunStep(t) \/ HeadAwaits(t) \/ HeadFails(t)
      PROVE  Inv'
  BY <1>2, RunProgress, RunEnd, HeadStep DEF RunStep
<1>3. CASE SchedulerNext
  BY <1>2, <1>3, CallStep DEF SchedulerNext
<1>4. CASE UNCHANGED vars
  <2>1. TicksSerialized' /\ HeadsKept'
    BY <1>4, SameRuns DEF vars, schedulerVars, Inv
  <2>2. TypesOK' /\ Proper(lc') /\ RunningIsAlive' /\ TimerRuns'
    BY <1>4 DEF vars, schedulerVars, Inv, TypesOK, RunningIsAlive, TimerRuns
  <2>3. QED
    BY <2>1, <2>2 DEF Inv
<1>5. QED
  BY <1>1, <1>3, <1>4 DEF Next

THEOREM Invariant == Spec => []Inv
BY InitInv, StepInv, PTL DEF Spec

-----------------------------------------------------------------------------
\* Every variable has its type, and the queue never outgrows its capacity.
THEOREM TypeCorrect == Spec => []TypeOK
<1>1. Inv => TypeOK
  BY DEF Inv, TypesOK, TypeOK, Proper, Run, Call
<1>2. QED
  BY <1>1, Invariant, PTL

\* Ticks overlap only where a callback in the head of a run asks for another one,
\* for any number of callers and of runs in one another's heads.
THEOREM SerializedTicks == Spec => []TicksSerialized
<1>1. Inv => TicksSerialized
  BY DEF Inv
<1>2. QED
  BY <1>1, Invariant, PTL

\* A scheduler that says it is running always has a next tick ahead.
THEOREM AliveWhileRunning == Spec => []RunningIsAlive
<1>1. Inv => RunningIsAlive
  BY DEF Inv
<1>2. QED
  BY <1>1, Invariant, PTL

\* No observation is stranded, for any queue capacity and any number of
\* subscriptions and flushes.
THEOREM NothingStranded == Spec => []NoLostWakeup
<1>1. Inv => NoLostWakeup
  BY DEF Inv, Proper, Awake, NoLostWakeup
<1>2. QED
  BY <1>1, Invariant, PTL

\* The subscriber count is exact until the dispatcher is closed.
THEOREM CountExact == Spec => []SubscriberCountExact
<1>1. Inv => SubscriberCountExact
  BY DEF Inv, Proper, Counted, SubscriberCountExact
<1>2. QED
  BY <1>1, Invariant, PTL

-----------------------------------------------------------------------------
(* Stopping.                                                               *)

\* While a stop that no start has overtaken is in progress, the scheduler is
\* stopped; if it was called outside the heads, the run it awaits is the only
\* one in progress that no callback began, and there is none once it may go on.
Stilled ==
  \A c \in Stoppers :
    stops[c].at # "none" /\ ~stops[c].restarted =>
      /\ status = "stopped"
      /\ ~stops[c].within =>
           /\ stops[c].at = "waiting" => Outermost \subseteq {stops[c].on}
           /\ stops[c].at = "due" => Outermost = {}

LEMMA StilledStep == Inv /\ Stilled /\ [Next]_vars => Stilled'
<1> SUFFICES ASSUME Inv, Stilled, [Next]_vars PROVE Stilled'
  OBVIOUS
<1>1. TypesOK /\ HeadsKept
  BY DEF Inv
<1>2. stops \in [Stoppers -> Call]
  BY <1>1 DEF TypesOK
<1>3. /\ \A x \in Call : [x EXCEPT !.restarted = TRUE, !.within = FALSE].restarted
      /\ NoStop.at = "none"
  BY DEF NoStop, Call
<1>4. CASE UNCHANGED <<stops, status>> /\ Outermost' \subseteq Outermost
  BY <1>4 DEF Stilled
<1>5. ASSUME UNCHANGED ticks  PROVE Outermost' = Outermost
  BY <1>5 DEF Outermost
<1>6. CASE LifecycleNext \/ UNCHANGED vars
  <2>1. UNCHANGED <<stops, status, ticks>>
    BY <1>6 DEF LifecycleNext, Subscribe, Unsubscribe, ListenerSettles, Publish,
           DrainNext, DispatchEnds, Flush, FlushTimesOut, Close, schedulerVars, vars
  <2>2. QED
    BY <1>4, <1>5, <2>1
<1>7. ASSUME NEW t \in Ticks, ProbeAnswers(t) \/ ReconcileAnswers(t) \/ TickFails(t)
      PROVE  Stilled'
  <2>1. UNCHANGED <<stops, status>>
    BY <1>7 DEF ProbeAnswers, ReconcileAnswers, TickFails
  <2>2. QED
    BY <1>4, <1>7, <2>1, RunProgress
<1>8. ASSUME NEW t \in Ticks, HeadAwaits(t) \/ HeadFails(t)  PROVE Stilled'
  <2>1. UNCHANGED <<stops, status>>
    BY <1>8 DEF HeadAwaits, HeadFails
  <2>2. QED
    BY <1>4, <1>8, <2>1, HeadStep
<1>9. ASSUME NEW t \in Ticks, TickOver(t)  PROVE Stilled'
  <2>1. Outermost' = Outermost \ {t} /\ status' = status /\ stops' = Resumed(t)
    BY <1>9, RunEnd DEF TickOver
  <2>2. SUFFICES ASSUME NEW c \in Stoppers,
                        stops'[c].at # "none", ~stops'[c].restarted
                 PROVE  /\ status' = "stopped"
                        /\ ~stops'[c].within =>
                             /\ stops'[c].at = "waiting" => Outermost' \subseteq {stops'[c].on}
                             /\ stops'[c].at = "due" => Outermost' = {}
    BY DEF Stilled
  <2>3. CASE stops'[c] = stops[c]
    BY <2>1, <2>2, <2>3 DEF Stilled
  <2>4. CASE /\ stops[c].at = "waiting" /\ stops[c].on = t /\ stops'[c].at = "due"
             /\ stops'[c].within = stops[c].within
             /\ stops'[c].restarted = stops[c].restarted
    BY <2>1, <2>2, <2>4 DEF Stilled
  <2>5. QED
    BY <1>1, <2>1, <2>2, <2>3, <2>4, ResumedType
<1>10. CASE ApplicationTick \/ TimerFires
  <2>1. status = "running" /\ stops' = stops
    BY <1>10 DEF ApplicationTick, TimerFires, Tick
  <2>2. QED
    BY <2>1 DEF Stilled
<1>11. CASE Start
  <2>1. \A c \in Stoppers : stops'[c].at = "none" \/ stops'[c].restarted
    BY <1>2, <1>3, <1>11 DEF Start
  <2>2. QED
    BY <2>1 DEF Stilled
<1>12. CASE Rearm
  BY <1>4, <1>5, <1>12 DEF Rearm
<1>13. CASE PassTime
  <2>1. Outermost' = Outermost
    <3>1. \A u \in Ticks : ticks[u] \in Run
      BY <1>1 DEF TypesOK
    <3>2. \A u \in Ticks : /\ ticks'[u].at = ticks[u].at
                          /\ ticks'[u].within = ticks[u].within
      BY <1>13, <3>1 DEF PassTime, Run
    <3>3. QED
      BY <3>2 DEF Outermost
  <2>2. QED
    BY <1>4, <1>13, <2>1 DEF PassTime
<1>14. ASSUME NEW c \in Stoppers, Stop(c)  PROVE Stilled'
  <2>1. CASE UNCHANGED vars
    BY <1>6, <2>1
  <2>2. CASE Stopping
    <3>1. status' = "stopped" /\ Outermost' = Outermost
      BY <1>5, <2>2 DEF Stopping
    <3>2. CASE stops' = stops
      BY <3>1, <3>2 DEF Stilled
    <3>3. CASE stops' = [stops EXCEPT ![c] =
                  [NoStop EXCEPT !.at = "waiting", !.on = activeTick,
                                 !.within = heads # {}]]
      <4>1. \A e \in Stoppers : e # c => stops'[e] = stops[e]
        BY <1>2, <3>3
      <4>2. /\ stops'[c].at = "waiting" /\ stops'[c].on = activeTick
            /\ stops'[c].within = (heads # {})
        BY <1>2, <3>3 DEF NoStop
      <4>3. ~stops'[c].within => Outermost' \subseteq {stops'[c].on}
        BY <1>1, <3>1, <4>2 DEF HeadsKept
      <4>4. QED
        BY <3>1, <4>1, <4>2, <4>3 DEF Stilled
    <3>4. QED
      BY <1>14, <2>2, <3>2, <3>3, SchedulerAssumption DEF Stop, Stopping
  <2>3. QED
    BY <1>14, <2>1, <2>2 DEF Stop
<1>15. ASSUME NEW c \in Stoppers, StopResumes(c)  PROVE Stilled'
  <2>1. status' = status /\ Outermost' = Outermost
    BY <1>5, <1>15 DEF StopResumes
  <2>2. \A e \in Stoppers : stops'[e].at = "none" \/ stops'[e] = stops[e]
    BY <1>2, <1>3, <1>15 DEF StopResumes
  <2>3. QED
    BY <2>1, <2>2 DEF Stilled
<1>16. QED
  BY <1>6, <1>7, <1>8, <1>9, <1>10, <1>11, <1>12, <1>13, <1>14, <1>15
     DEF Next, SchedulerNext, RunStep

\* Closing closes.
LEMMA ClosedIsClosed ==
  ASSUME NEW d, Proper(d)
  PROVE  Closed(d).closed
<1>1. IsDispatcher(d)
  BY DEF Proper
<1>2. QED
  BY <1>1 DEF Closed, IsDispatcher

\* When stop resolves and was not overtaken by a start, everything is quiet but
\* for the runs that callbacks began: for any number of stops, starts, ticks by
\* hand and callbacks in flight.
THEOREM QuietStop == Spec => StopIsQuiet
<1> DEFINE Resolves(c) ==
             \/ stops[c].at = "due" /\ stops'[c].at = "none" /\ ~stops[c].restarted
             \/ status = "running" /\ status' = "stopped" /\ stops' = stops
           Quiet ==
             /\ status = "stopped" /\ activeTick = NULL /\ heads = {} =>
                  timer = NULL /\ Outermost = {}
             /\ \A c \in Stoppers :
                  Resolves(c) => /\ timer' = NULL
                                 /\ CloseOnStop => lc'.closed
                                 /\ heads = {} /\ ~stops[c].within => Outermost = {}
<1>1. Init => Stilled
  BY DEF Init, Stilled, NoStop
<1>2. ASSUME Inv, Stilled, [Next]_vars PROVE Quiet
  <2>1. TypesOK /\ HeadsKept /\ TimerRuns /\ Proper(lc)
    BY <1>2 DEF Inv
  <2>2. heads = {} /\ activeTick = NULL => Outermost = {}
    BY <2>1, SchedulerAssumption DEF HeadsKept, Outermost
  <2>3. CloseOnStop => ClosedByStop.closed
    BY <2>1, ClosedIsClosed DEF ClosedByStop
  <2>4. /\ stops \in [Stoppers -> Call] /\ NoStop.at = "none"
        /\ \A x \in Call : [x EXCEPT !.restarted = TRUE, !.within = FALSE].at = x.at
        /\ \A r, b : [NoStop EXCEPT !.at = "waiting", !.on = r, !.within = b].at
                      = "waiting"
    BY <2>1 DEF TypesOK, Call, NoStop
  <2>5. SUFFICES ASSUME NEW c \in Stoppers, Resolves(c)
                 PROVE  /\ timer' = NULL
                        /\ CloseOnStop => lc'.closed
                        /\ heads = {} /\ ~stops[c].within => Outermost = {}
    BY <2>1, <2>2 DEF TimerRuns
  <2>6. CASE status = "running" /\ status' = "stopped" /\ stops' = stops
    <3>1. PICK e \in Stoppers : Stop(e)
      BY <1>2, <2>6 DEF Next, SchedulerNext, LifecycleNext, RunStep, Start, StopResumes,
         ApplicationTick, TimerFires, ProbeAnswers, ReconcileAnswers, TickFails,
         HeadAwaits, HeadFails, TickOver, Rearm, PassTime, Subscribe, Unsubscribe,
         ListenerSettles, Publish, DrainNext, DispatchEnds, Flush, FlushTimesOut,
         Close, schedulerVars, vars
    <3>2. Stopping
      BY <2>6, <3>1 DEF Stop
    <3>3. activeTick = NULL
      <4>1. SUFFICES ASSUME activeTick # NULL PROVE FALSE
        OBVIOUS
      <4>2. stops' = [stops EXCEPT ![e] =
                [NoStop EXCEPT !.at = "waiting", !.on = activeTick,
                               !.within = heads # {}]]
        BY <2>6, <3>1, <4>1 DEF Stop
      <4>3. stops'[e].at = "waiting" /\ stops[e].at = "none"
        BY <2>4, <3>1, <4>2 DEF Stop
      <4>4. QED
        BY <2>6, <4>3
    <3>4. timer' = NULL /\ lc' = ClosedByStop
      BY <2>6, <3>1, <3>2, <3>3 DEF Stop, Stopping
    <3>5. QED
      BY <2>2, <2>3, <3>3, <3>4
  <2>7. CASE stops[c].at = "due" /\ stops'[c].at = "none" /\ ~stops[c].restarted
    <3>1. StopResumes(c)
      <4>1. stops' # stops
        BY <2>7
      <4>2. \/ Start
            \/ \E e \in Stoppers : Stop(e) \/ StopResumes(e)
            \/ \E t \in Ticks : TickOver(t)
        BY <1>2, <4>1 DEF Next, SchedulerNext, LifecycleNext, RunStep,
           ApplicationTick, TimerFires, ProbeAnswers, ReconcileAnswers, TickFails,
           HeadAwaits, HeadFails, Rearm, PassTime, Subscribe, Unsubscribe,
           ListenerSettles, Publish, DrainNext, DispatchEnds, Flush, FlushTimesOut,
           Close, schedulerVars, vars
      <4>3. ~Start
        BY <2>4, <2>7 DEF Start
      <4>4. \A t \in Ticks : ~TickOver(t)
        BY <2>4, <2>7 DEF TickOver, Resumed
      <4>5. \A e \in Stoppers : ~Stop(e)
        BY <2>4, <2>7, <4>1 DEF Stop, vars, schedulerVars
      <4>6. QED
        BY <2>4, <2>7, <4>2, <4>3, <4>4, <4>5 DEF StopResumes
    <3>2. status = "stopped" /\ (~stops[c].within => Outermost = {})
      BY <1>2, <2>7 DEF Stilled
    <3>3. timer' = NULL /\ lc' = ClosedByStop
      BY <2>1, <3>1, <3>2 DEF StopResumes, TimerRuns
    <3>4. QED
      BY <2>3, <3>2, <3>3
  <2>8. QED
    BY <2>5, <2>6, <2>7
<1>3. QED
  BY <1>1, <1>2, StilledStep, Invariant, PTL DEF Spec, StopIsQuiet

-----------------------------------------------------------------------------
(* Flushing.                                                               *)

\* Who is answered by an operation of the dispatcher, and when.
LEMMA Answered ==
  ASSUME NEW d, Proper(d)
  PROVE  /\ \A type : Published(d, type).waiting = d.waiting
         /\ \A x : /\ Subscribed(d, x).waiting = d.waiting
                  /\ Unsubscribed(d, x).waiting = d.waiting
                  /\ ListenerSettled(d, x).waiting = d.waiting
         /\ DrainStarted(d).waiting = d.waiting \/ Idle(DrainStarted(d))
         /\ DispatchEnded(d).waiting = d.waiting \/ Idle(DispatchEnded(d))
<1>1. PICK q, a, e, h, c, k, s, w : d = Dispatcher(q, a, e, h, c, k, s, w)
  BY FromFields DEF Proper
<1>2. d.waiting = w /\ d.queue = q /\ d.active = a /\ d.closed = c
  BY <1>1 DEF Dispatcher
<1>3. Fit(q, a, e, h, c, k, s, w)
  BY <1>1, ProperFields
<1>4. ASSUME NEW type  PROVE Published(d, type).waiting = d.waiting
  <2> DEFINE queue == Append(IF Overflows(d) THEN Tail(q) ELSE q, type)
  <2>1. Published(d, type) = IF c THEN d ELSE DrainScheduled([d EXCEPT !.queue = queue])
    BY <1>2 DEF Published
  <2> HIDE DEF queue
  <2>2. [d EXCEPT !.queue = queue] = Dispatcher(queue, a, e, h, c, k, s, w)
    BY <1>1 DEF Dispatcher
  <2>3. QED
    BY <1>2, <2>1, <2>2 DEF DrainScheduled, Dispatcher
<1>5. ASSUME NEW x
      PROVE  /\ Subscribed(d, x).waiting = d.waiting
             /\ Unsubscribed(d, x).waiting = d.waiting
             /\ ListenerSettled(d, x).waiting = d.waiting
  BY <1>1 DEF Subscribed, Unsubscribed, ListenerSettled, Dispatcher
<1>6. [d EXCEPT !.scheduled = FALSE] = Dispatcher(q, a, e, FALSE, c, k, s, w)
  <2>1. \A b : [d EXCEPT !.scheduled = b] = Dispatcher(q, a, e, b, c, k, s, w)
    BY <1>1 DEF Dispatcher
  <2>2. QED
    BY <2>1, Zenon
<1>7. [d EXCEPT !.active = FALSE] = Dispatcher(q, FALSE, e, h, c, k, s, w)
  <2>1. \A b : [d EXCEPT !.active = b] = Dispatcher(q, b, e, h, c, k, s, w)
    BY <1>1 DEF Dispatcher
  <2>2. QED
    BY <2>1, Zenon
<1>8. DrainStarted(d).waiting = d.waiting \/ Idle(DrainStarted(d))
  <2>1. CASE a \/ c
    BY <1>2, <1>6, <2>1 DEF DrainStarted, Dispatcher
  <2>2. CASE ~a /\ ~c /\ q = <<>>
    <3>1. DrainStarted(d) = [Dispatcher(q, a, e, FALSE, c, k, s, w) EXCEPT !.waiting = {}]
      BY <1>2, <1>6, <2>2 DEF DrainStarted
    <3>2. DrainStarted(d) = Dispatcher(q, a, e, FALSE, c, k, s, {})
      BY <3>1 DEF Dispatcher
    <3>3. QED
      BY <2>2, <3>2 DEF Idle, Dispatcher
  <2>3. CASE ~a /\ ~c /\ q # <<>>
    <3> DEFINE called == {x \in d.subs : Interest[x] = Head(q)}
               ready == Dispatcher(q, a, e, FALSE, c, k, s, w)
    <3>1. DrainStarted(d) = [ready EXCEPT !.queue = Tail(ready.queue), !.active = TRUE,
                                          !.settling = called]
      BY <1>2, <1>6, <2>3 DEF DrainStarted
    <3> HIDE DEF called
    <3>2. DrainStarted(d).waiting = w
      BY <3>1 DEF Dispatcher
    <3>3. QED
      BY <1>2, <3>2
  <2>4. QED
    BY <1>3, <2>1, <2>2, <2>3 DEF Fit
<1>9. DispatchEnded(d).waiting = d.waiting \/ Idle(DispatchEnded(d))
  <2> DEFINE idle == [d EXCEPT !.active = FALSE]
  <2>1. CASE c
    BY <1>2, <1>7, <2>1 DEF DispatchEnded, Dispatcher
  <2>2. CASE ~c /\ q = <<>>
    <3>1. DispatchEnded(d) = [idle EXCEPT !.waiting = {}]
      BY <1>2, <2>2 DEF DispatchEnded
    <3>2. DispatchEnded(d) = Dispatcher(q, FALSE, e, h, c, k, s, {})
      BY <1>7, <3>1 DEF Dispatcher
    <3>3. QED
      BY <2>2, <3>2 DEF Idle, Dispatcher
  <2>3. CASE ~c /\ q # <<>>
    <3>1. DispatchEnded(d) = DrainScheduled(idle)
      BY <1>2, <2>3 DEF DispatchEnded
    <3>2. QED
      BY <1>2, <1>7, <3>1 DEF DrainScheduled, Dispatcher
  <2>4. QED
    BY <2>1, <2>2, <2>3
<1>10. QED
  BY <1>4, <1>5, <1>8, <1>9

\* A flush that is answered while the dispatcher is open, and did not time out,
\* is answered when nothing is queued and no listener is at work.
THEOREM DrainedIsSettled == Spec => DrainedMeansSettled
<1> DEFINE Settled ==
      \A f \in lc.waiting \ lc'.waiting :
        ~lc'.closed /\ ~FlushTimesOut(f) => Idle(lc')
<1>1. ASSUME Inv, [Next]_vars PROVE Settled
  <2>1. SUFFICES ASSUME NEW f \in lc.waiting, f \notin lc'.waiting,
                        ~lc'.closed, ~FlushTimesOut(f)
                 PROVE  Idle(lc')
    OBVIOUS
  <2>2. Proper(lc) /\ lc' # lc
    BY <1>1, <2>1 DEF Inv
  <2>3. IsDispatcher(lc)
    BY <2>2 DEF Proper
  <2>4. ~ \E g \in Flushers : Flush(g) \/ FlushTimesOut(g)
    <3>1. ASSUME NEW g \in Flushers, Flush(g)  PROVE FALSE
      <4>1. lc'.waiting = lc.waiting \cup {g}
        BY <2>3, <3>1 DEF Flush, IsDispatcher
      <4>2. QED
        BY <2>1, <4>1
    <3>2. ASSUME NEW g \in Flushers, FlushTimesOut(g)  PROVE FALSE
      <4>1. lc'.waiting = lc.waiting \ {g}
        BY <2>3, <3>2 DEF FlushTimesOut, IsDispatcher
      <4>2. g = f
        BY <2>1, <4>1
      <4>3. QED
        BY <2>1, <3>2, <4>2
    <3>3. QED
      BY <3>1, <3>2
  <2>5. lc' # Closed(lc)
    BY <2>1, <2>2, ClosedIsClosed
  <2>6. lc' # ClosedByStop
    BY <2>2, <2>5 DEF ClosedByStop
  <2>7. \/ \E type : lc' = Published(lc, type)
        \/ \E x : \/ lc' = Subscribed(lc, x) \/ lc' = Unsubscribed(lc, x)
                 \/ lc' = ListenerSettled(lc, x)
        \/ lc' = DrainStarted(lc)
        \/ lc' = DispatchEnded(lc)
    <3>1. CASE LifecycleNext
      BY <2>4, <2>5, <3>1 DEF LifecycleNext, Subscribe, Unsubscribe, ListenerSettles,
         Publish, DrainNext, DispatchEnds, Close
    <3>2. CASE SchedulerNext
      BY <2>2, <2>6, <3>2 DEF SchedulerNext, RunStep, Start, Stop, StopResumes,
         ApplicationTick, TimerFires, Tick, TickBegins, CallsOut, ProbeAnswers,
         AfterProbe, ReconcileBegins, ReconcileAnswers, TickEnds, TickFails,
         HeadAwaits, HeadFails, TickOver, Rearm, PassTime, vars
    <3>3. QED
      BY <1>1, <2>2, <3>1, <3>2 DEF Next, vars
  <2>8. QED
    BY <2>1, <2>2, <2>7, Answered
<1>2. QED
  BY <1>1, Invariant, PTL DEF Spec, DrainedMeansSettled
=============================================================================
