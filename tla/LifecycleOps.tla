---------------------------- MODULE LifecycleOps ----------------------------
(***************************************************************************)
(* The lifecycle dispatcher (src/src/lifecycle/LifecycleDispatcher.ts) as  *)
(* operators on a record lc with its private fields                        *)
(*   queue      #queue, here the types of the events                       *)
(*   active     #active: an event is in dispatch                           *)
(*   settling   its listeners that have not settled yet                    *)
(*   scheduled  #scheduled: a microtask that will drain is pending         *)
(*   closed     #closed                                                    *)
(*   count      #subscriberCount                                           *)
(*   subs       the subscriptions whose unsubscribe was not called yet     *)
(*   waiting    #flushWaiters                                              *)
(* The drop and failure counters are read by nothing and left out.         *)
(***************************************************************************)
EXTENDS Integers, Sequences, FiniteSets

CONSTANTS
  EventTypes,      \* the lifecycle event names that occur
  Subscribers,     \* subscriptions an application may hold
  Interest,        \* the event name each of them is for
  Flushers,        \* calls of flush that may wait at once
  QueueCapacity    \* lifecycle.queueCapacity

ASSUME LifecycleAssumption ==
  /\ Interest \in [Subscribers -> EventTypes]
  /\ QueueCapacity \in Nat \ {0}

IsDispatcher(lc) ==
  /\ lc \in [queue: {lc.queue}, active: BOOLEAN, settling: SUBSET Subscribers,
             scheduled: BOOLEAN, closed: BOOLEAN, count: Int,
             subs: SUBSET Subscribers, waiting: SUBSET Flushers]
  /\ lc.queue \in Seq(EventTypes)
  /\ Len(lc.queue) <= QueueCapacity

NewDispatcher ==
  [queue |-> <<>>, active |-> FALSE, settling |-> {}, scheduled |-> FALSE, closed |-> FALSE,
   count |-> 0, subs |-> {}, waiting |-> {}]

\* subscribe, which throws once closed.
Subscribed(lc, s) ==
  [lc EXCEPT !.subs = @ \cup {s}, !.count = @ + 1]

\* Mutant: calling unsubscribe a second time counts again.
UnsubscribedAgain(lc, s) ==
  [lc EXCEPT !.subs = @ \ {s}, !.count = @ - 1]
\* The closure subscribe returns.  It deletes from the set it captured, which
\* close() does not empty.
Unsubscribed(lc, s) ==
  IF s \in lc.subs
  THEN [lc EXCEPT !.subs = @ \ {s}, !.count = @ - 1] ELSE lc

DrainScheduled(lc) ==
  IF lc.active \/ lc.closed THEN lc ELSE [lc EXCEPT !.scheduled = TRUE]

\* Mutant: at capacity one event too many is kept.
OverflowsLate(lc) == Len(lc.queue) > QueueCapacity
\* publish: at capacity the oldest event is dropped.
Overflows(lc) == Len(lc.queue) >= QueueCapacity
Published(lc, type) ==
  LET room == IF Overflows(lc) THEN Tail(lc.queue) ELSE lc.queue
  IN  IF lc.closed THEN lc
      ELSE DrainScheduled([lc EXCEPT !.queue = Append(room, type)])

\* Mutant: a flush is answered as soon as the last event is taken off the queue.
DrainStartedEarlyAnswer(lc) ==
  LET ready == [lc EXCEPT !.scheduled = FALSE]
  IN  IF lc.active \/ lc.closed \/ lc.queue = <<>> THEN ready
      ELSE [ready EXCEPT !.queue = Tail(@), !.active = TRUE,
                         !.settling = {s \in lc.subs : Interest[s] = Head(lc.queue)},
                         !.waiting = IF Len(lc.queue) = 1 THEN {} ELSE @]
\* The microtask: it hands the oldest event to the listeners of the moment.
DrainStarted(lc) ==
  LET ready == [lc EXCEPT !.scheduled = FALSE]
  IN  CASE lc.active \/ lc.closed -> ready
        [] ~lc.active /\ ~lc.closed /\ lc.queue = <<>> ->
             [ready EXCEPT !.waiting = {}]
        [] OTHER ->
             [ready EXCEPT !.queue = Tail(@), !.active = TRUE,
                           !.settling = {s \in lc.subs : Interest[s] = Head(lc.queue)}]

ListenerSettled(lc, s) == [lc EXCEPT !.settling = @ \ {s}]

\* Mutant: what was published during the dispatch waits for the next publish.
DispatchEndedQuietly(lc) ==
  LET idle == [lc EXCEPT !.active = FALSE]
  IN  IF ~lc.closed /\ lc.queue = <<>> THEN [idle EXCEPT !.waiting = {}] ELSE idle
\* All listeners have settled.
DispatchEnded(lc) ==
  LET idle == [lc EXCEPT !.active = FALSE]
  IN  CASE lc.closed -> idle
        [] ~lc.closed /\ lc.queue = <<>> -> [idle EXCEPT !.waiting = {}]
        [] OTHER -> DrainScheduled(idle)

\* Whether flush answers "drained" at once.
Idle(lc) == ~lc.active /\ lc.queue = <<>>

\* close: the queue is dropped, the subscriptions are forgotten, and every
\* flush that waits is answered "closed".
Closed(lc) ==
  IF lc.closed THEN lc
  ELSE [lc EXCEPT !.closed = TRUE, !.queue = <<>>, !.count = 0, !.waiting = {}]
=============================================================================
