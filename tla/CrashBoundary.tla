---------------------------- MODULE CrashBoundary ---------------------------
(***************************************************************************)
(* The characterization of crash boundaries, scripts/crash-boundary-       *)
(* contract.mjs with its fixture crash-boundary-child.mjs.  A parent       *)
(* spawns a child and talks to it over an ordered channel.  The child      *)
(* opens a reservoir, prepares one row, and runs one operation; before or  *)
(* after it stops at a gate, where the parent kills it or lets it go on.   *)
(* A watchdog may kill it anywhere.  Then the parent reads the file, and   *)
(* opens it as a restart does.                                             *)
(*                                                                         *)
(* What the script expects of each boundary is written down in it case by  *)
(* case (Expected, ExpectedRecovery), apart from the reservoir's code; the *)
(* operations of ReservoirOps are held against it.                         *)
(***************************************************************************)
EXTENDS ReservoirOps, Sequences

CONSTANTS
  Now,        \* the clock of both processes, which stands still
  IngestAt,   \* ingest time of the row
  RetryAt,    \* retry deadline a failed batch is given
  EventBytes

\* The row is young enough to be kept, one ingested at 0 is not, and neither
\* is a terminal row from then; a row given up now is.
ASSUME CrashAssumption ==
  /\ Now \in Nat /\ IngestAt \in Nat /\ RetryAt \in Nat /\ EventBytes \in Nat
  /\ IngestAt > Now - RollingBufferWindow
  /\ IngestAt > Now - FullOutageMaxWindow
  /\ RetryAt > Now
  /\ Now >= RollingBufferWindow
  /\ Now >= DeliveredRetention
  /\ DeadLetterRetention > 0

Checkpoints == {"checkpoint-passive", "checkpoint-restart", "checkpoint-truncate"}
Operations == {"append", "claim", "acknowledge", "retry-reset", "reclaim",
               "prune-mark", "prune-delete", "close"} \cup Checkpoints
Gates == {"before-operation", "after-operation"}

VARIABLES
  operation, gate,  \* the scenario: what is done, and where the child stops
  atGate,           \* what the parent does then: "terminate" or "continue"
  child,            \* where the child is
  res, attempts,    \* the file, and the column replay_attempts of its rows
  toParent, toChild,  \* the channel
  killed,           \* a kill is under way
  parent,           \* what the parent has come to
  observed,         \* observedResult: the result the child reported, or none
  seen,             \* the rows that inspectDatabase read
  recovery          \* what inspectRestartRecovery found
scenario == <<operation, gate, atGate>>
file == <<res, attempts>>
vars == <<scenario, child, file, toParent, toChild, killed, parent, observed,
          seen, recovery>>

Init ==
  /\ operation \in Operations /\ gate \in Gates
  /\ atGate \in {"terminate", "continue"}
  /\ child = "spawned"
  /\ res = EmptyReservoir /\ attempts = [i \in {} |-> 0]
  /\ toParent = <<>> /\ toChild = <<>>
  /\ killed = FALSE
  /\ parent = "waiting"
  /\ observed = FALSE
  /\ seen = NULL /\ recovery = NULL

-----------------------------------------------------------------------------
(* The child.                                                              *)

Send(message) == toParent' = Append(toParent, message)

\* waitForResume: other messages are ignored.
Resumed(at) ==
  /\ toChild # <<>>
  /\ Head(toChild) = at
  /\ toChild' = Tail(toChild)

\* It announces itself, and waits to be told to start.
Announce ==
  /\ child = "spawned"
  /\ Send("ready")
  /\ child' = "ready"
  /\ UNCHANGED <<file, toChild>>

Append1(state, at) ==
  /\ res' = AppendIngressEvent(res, EventBytes, "order_buffer_only", state, at)
  /\ attempts' = [i \in DOMAIN res'.rows |->
                    IF i \in DOMAIN attempts THEN attempts[i] ELSE 0]

Claim(r, limit) ==
  /\ res' = ClaimReplayBatch(r, limit, Now)
  /\ attempts' = [i \in DOMAIN attempts |->
       IF i \in ClaimBatch(r, limit, Now) THEN attempts[i] + 1 ELSE attempts[i]]

Rows(next) ==
  /\ res' = next
  /\ attempts' = [i \in DOMAIN next.rows |-> attempts[i]]

\* prepareOperation, whose two calls are two transactions.
Prepare ==
  \/ /\ child = "ready" /\ Resumed("ready")
     /\ CASE operation = "append" -> UNCHANGED file
          [] operation = "prune-mark" -> Append1("pending", 0)
          [] operation = "prune-delete" -> Append1("delivered", 0)
          [] OTHER -> Append1("pending", IngestAt)
     /\ child' = IF operation \in {"acknowledge", "retry-reset", "reclaim"}
                 THEN "appended" ELSE "prepared"
     /\ UNCHANGED toParent
  \/ /\ child = "appended"
     /\ Claim(res, 1)
     /\ child' = "prepared"
     /\ UNCHANGED <<toParent, toChild>>

\* pause: the child tells where it is and goes no further until it is resumed.
Pause(before, here, paused) ==
  /\ child = before /\ gate = here
  /\ Send(here)
  /\ child' = paused
  /\ UNCHANGED <<file, toChild>>

AtGate ==
  \/ Pause("prepared", "before-operation", "paused-before")
  \/ Pause("executed", "after-operation", "paused-after")

PassGate ==
  /\ \/ /\ child = "paused-before" /\ Resumed(gate) /\ child' = "executing"
     \/ /\ child = "paused-after" /\ Resumed(gate) /\ child' = "reporting"
     \/ /\ child = "prepared" /\ gate # "before-operation"
        /\ child' = "executing" /\ UNCHANGED toChild
     \/ /\ child = "executed" /\ gate # "after-operation"
        /\ child' = "reporting" /\ UNCHANGED toChild
  /\ UNCHANGED <<file, toParent>>

\* executeOperation.  pruneExpired is two transactions, the others one; a
\* checkpoint moves pages from the log into the file and changes no row, and
\* close makes one.
Execute ==
  /\ \/ /\ child = "executing"
        /\ CASE operation = "append" -> Append1("pending", IngestAt)
             [] operation = "claim" -> Claim(res, 1)
             [] operation = "acknowledge" -> Rows(MarkDelivered(res, {1}, Now))
             [] operation = "retry-reset" ->
                  Rows(ResetToPending(res, {1}, RetryAt, Now))
             [] operation = "reclaim" -> Rows(ReclaimStaleReplayRows(res, 0, Now))
             [] operation \in {"prune-mark", "prune-delete"} ->
                  Rows(MarkExpiredPendingRows(res, FALSE, Now))
             [] OTHER -> UNCHANGED file
        /\ child' = IF operation \in {"prune-mark", "prune-delete"}
                    THEN "marked" ELSE "executed"
     \/ /\ child = "marked"
        /\ Rows(DeleteExpiredTerminalRows(res, Now))
        /\ child' = "executed"
  /\ UNCHANGED <<toParent, toChild>>

\* The result is reported, the reservoir closed, the channel disconnected.
Report ==
  /\ child = "reporting"
  /\ Send("observed-result")
  /\ child' = "exited"
  /\ UNCHANGED <<file, toChild>>

ChildStep ==
  /\ Announce \/ Prepare \/ AtGate \/ PassGate \/ Execute \/ Report
  /\ UNCHANGED <<scenario, killed, parent, observed, seen, recovery>>

\* The signal arrives.  What was sent before is still delivered.
Die ==
  /\ killed /\ child \notin {"exited", "dead"}
  /\ child' = "dead"
  /\ UNCHANGED <<scenario, file, toParent, toChild, killed, parent, observed,
                 seen, recovery>>

-----------------------------------------------------------------------------
(* The parent: runScenario and what is inspected afterwards.               *)

\* child.on("message")
Receive ==
  /\ toParent # <<>>
  /\ toParent' = Tail(toParent)
  /\ CASE Head(toParent) = "ready" ->
            toChild' = Append(toChild, "ready") /\ UNCHANGED <<killed, observed>>
       [] Head(toParent) = gate ->
            IF atGate = "terminate"
            THEN killed' = TRUE /\ UNCHANGED <<toChild, observed>>
            ELSE toChild' = Append(toChild, gate) /\ UNCHANGED <<killed, observed>>
       [] OTHER -> observed' = TRUE /\ UNCHANGED <<toChild, killed>>
  /\ UNCHANGED <<scenario, child, file, parent, seen, recovery>>

\* setTimeout: the scenario takes too long.
Watchdog ==
  /\ parent = "waiting" /\ child # "exited"
  /\ killed' = TRUE
  /\ parent' = "timed-out"
  /\ UNCHANGED <<scenario, child, file, toParent, toChild, observed, seen, recovery>>

\* child.on("exit"), after the messages sent before it.
Exit ==
  /\ parent = "waiting" /\ toParent = <<>>
  /\ child \in {"exited", "dead"}
  /\ parent' = "settled"
  /\ UNCHANGED <<scenario, child, file, toParent, toChild, killed, observed,
                 seen, recovery>>

Persisted(r, tried) ==
  [i \in DOMAIN r.rows |->
     [ingestAt |-> r.rows[i].ingestAt, state |-> r.rows[i].state,
      attempts |-> tried[i], retryAt |-> r.rows[i].retryAt,
      claimedAt |-> r.rows[i].claimedAt, terminalAt |-> r.rows[i].terminalAt]]

\* inspectDatabase
Inspect ==
  /\ parent = "settled" /\ seen = NULL
  /\ seen' = Persisted(res, attempts)
  /\ UNCHANGED <<scenario, child, file, toParent, toChild, killed, parent,
                 observed, recovery>>

\* inspectRestartRecovery: a new reservoir on the file recovers and claims all
\* it may.
Recover ==
  LET restarted == RecoverRestartState(res)
      waiting == {i \in InState(restarted.rows, {"pending"}) :
                    /\ restarted.rows[i].retryAt # NULL
                    /\ restarted.rows[i].retryAt > Now}
  IN  /\ parent = "settled" /\ seen # NULL /\ recovery = NULL
      /\ recovery' =
           [pending |-> restarted.cached, waiting |-> Cardinality(waiting),
            earliest |-> IF waiting = {} THEN NULL
                         ELSE CHOOSE t \in {restarted.rows[i].retryAt : i \in waiting} :
                                \A i \in waiting : t <= restarted.rows[i].retryAt,
            reclaimed |-> Cardinality(InState(res.rows, {"replaying"})),
            eligible |-> ClaimBatch(restarted, 100, Now)]
      /\ Claim(restarted, 100)
      /\ UNCHANGED <<scenario, child, toParent, toChild, killed, parent,
                     observed, seen>>

ParentStep == Receive \/ Exit \/ Inspect \/ Recover

Done == /\ \/ parent = "timed-out" /\ child \in {"exited", "dead"}
           \/ recovery # NULL
        /\ UNCHANGED vars

Next == ChildStep \/ Die \/ ParentStep \/ Watchdog \/ Done

\* Both processes run, and a signal arrives.
Spec == /\ Init /\ [][Next]_vars
        /\ WF_vars(ChildStep) /\ WF_vars(Die) /\ WF_vars(ParentStep)

-----------------------------------------------------------------------------
(* What the script expects.                                                *)

Nobody == [i \in {} |-> NULL]
Fresh == [ingestAt |-> IngestAt, state |-> "pending", attempts |-> 0,
          retryAt |-> NULL, claimedAt |-> NULL, terminalAt |-> NULL]
One(row) == [i \in {1} |-> row]
Claimed == [Fresh EXCEPT !.state = "replaying", !.attempts = 1, !.claimedAt = Now]

\* expectedRows
Expected(op, phase) ==
  LET after == phase = "after-operation"
  IN  CASE op = "append" -> IF after THEN One(Fresh) ELSE Nobody
        [] op = "prune-mark" ->
             One(IF after THEN [Fresh EXCEPT !.ingestAt = 0, !.state = "dead_letter",
                                             !.terminalAt = Now]
                 ELSE [Fresh EXCEPT !.ingestAt = 0])
        [] op = "prune-delete" ->
             IF after THEN Nobody
             ELSE One([Fresh EXCEPT !.ingestAt = 0, !.state = "delivered",
                                    !.terminalAt = 0])
        [] op = "claim" -> One(IF after THEN Claimed ELSE Fresh)
        [] op \in {"acknowledge", "retry-reset", "reclaim"} /\ ~after -> One(Claimed)
        [] op = "acknowledge" /\ after ->
             One([Fresh EXCEPT !.state = "delivered", !.attempts = 1,
                               !.terminalAt = Now])
        [] op = "retry-reset" /\ after ->
             One([Fresh EXCEPT !.attempts = 1, !.retryAt = RetryAt])
        [] op = "reclaim" /\ after -> One([Fresh EXCEPT !.attempts = 1])
        [] OTHER -> One(Fresh)

\* expectedRecovery
ExpectedRecovery(rows) ==
  LET waiting == {i \in DOMAIN rows : /\ rows[i].state = "pending"
                                      /\ rows[i].retryAt # NULL
                                      /\ rows[i].retryAt > Now}
      recoverable == {i \in DOMAIN rows : rows[i].state \in PendingStates}
  IN  [pending |-> Cardinality(recoverable), waiting |-> Cardinality(waiting),
       earliest |-> IF waiting = {} THEN NULL ELSE RetryAt,
       reclaimed |-> Cardinality({i \in DOMAIN rows : rows[i].state = "replaying"}),
       eligible |-> {i \in recoverable : \/ rows[i].retryAt = NULL
                                         \/ rows[i].retryAt <= Now}]

-----------------------------------------------------------------------------
Preparing == {"spawned", "ready", "appended"}
ChildStates == Preparing \cup {"prepared", "paused-before", "executing", "marked",
  "executed", "paused-after", "reporting", "exited", "dead"}

\* Every variable has its type, and the file holds a sound reservoir.
TypeOK ==
  /\ operation \in Operations /\ gate \in Gates
  /\ atGate \in {"terminate", "continue"}
  /\ child \in ChildStates
  /\ IsReservoir(res) /\ attempts \in [DOMAIN res.rows -> Nat]
  /\ toParent \in Seq({"ready", "observed-result"} \cup Gates)
  /\ toChild \in Seq({"ready"} \cup Gates)
  /\ killed \in BOOLEAN /\ observed \in BOOLEAN
  /\ parent \in {"waiting", "settled", "timed-out"}

\* Wherever the child is, past its preparation, the file holds what the script
\* expects before the operation or what it expects after it: also between the
\* two transactions of a prune, and wherever the watchdog kills.
AllOrNothing ==
  /\ child \notin Preparing \cup {"dead"}
  /\ recovery = NULL
  => Persisted(res, attempts) \in {Expected(operation, g) : g \in Gates}

\* "persisted rows": a child that was killed at a gate leaves exactly what the
\* script expects of that gate.
BoundaryExact ==
  seen # NULL /\ atGate = "terminate" => seen = Expected(operation, gate)

\* "restart recovery": what a restart finds and may replay follows from the
\* rows the dead process left.
RecoveryExact == recovery # NULL => recovery = ExpectedRecovery(seen)

\* "caller result": who is killed at a gate has told no result, and who was
\* let go has told it before it is taken for settled.
ResultWithheld == parent = "settled" => observed = (atGate = "continue")

\* Neither side waits for the other for ever: every scenario comes to its
\* inspection, unless the watchdog ends it.
ScenarioEnds == recovery # NULL \/ parent = "timed-out"

\* What the script prints in the end: "crash-boundary characterization passed".
\* A process killed at a boundary, or anywhere, leaves the rows the script
\* expects, a restart finds what follows from them, and no scenario hangs.
CharacterizationPasses ==
  /\ [](TypeOK /\ AllOrNothing /\ BoundaryExact /\ RecoveryExact /\ ResultWithheld)
  /\ <>ScenarioEnds
=============================================================================
