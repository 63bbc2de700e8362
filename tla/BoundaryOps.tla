----------------------------- MODULE BoundaryOps ----------------------------
(***************************************************************************)
(* What a caller of ingest is told (src/src/boundary.ts): a failure with   *)
(* its code, what it says of the outcome, and whether to try again.  Other *)
(* answers have the same shape.  The recommended action goes with the code *)
(* and the limiting dimension, and is left out.                            *)
(***************************************************************************)
EXTENDS Integers

Answer(code, outcome, retryable) ==
  [code |-> code, outcome |-> outcome, retryable |-> retryable]
Rejection(code, retryable) == Answer(code, "definite_rejection", retryable)

\* The boundary errors the monitor throws itself.
MonitorClosed == Rejection("closed", FALSE)
AdmissionRefused == Rejection("admission_refused", TRUE)

\* What is refused for want of room may be tried again, also where the event is
\* larger than all the room there is.
CapacityRefused(dimension) ==
  Rejection("capacity_refused", dimension # "serialized_event_bytes")

Indeterminate == Answer("outcome_indeterminate", "indeterminate", FALSE)

BoundaryErrors ==
  {MonitorClosed, AdmissionRefused, CapacityRefused("serialized_event_bytes"),
   CapacityRefused("pending"), Indeterminate}

\* Errors of SQLite and of the application, known by their texts; no_transaction
\* is the ROLLBACK of a transaction that SQLite has ended itself.
Raw(text) == Answer(text, "unknown", FALSE)
RecognizedTexts == {"busy", "full", "read_only", "io"}
Texts == RecognizedTexts \cup {"no_transaction", "handler_rejected"}
Errors == BoundaryErrors \cup {Raw(text) : text \in Texts}

\* classifyMonitorBoundaryFailure, and toMonitorBoundaryError, which throws the
\* error itself where its text is not recognized.
BoundaryError(error) ==
  IF error \in {Raw(text) : text \in RecognizedTexts}
  THEN Rejection(error.code, error.code # "io")
  ELSE error

\* The answer that came from the monitor, and none: not asked yet, in flight,
\* or lost with the process.
Accepted == Answer("accepted", "accepted", FALSE)
NotAsked == Answer("not_asked", "none", TRUE)
InFlight == Answer("in_flight", "none", FALSE)
Lost == Answer("lost", "unknown", FALSE)

Answers ==
  {BoundaryError(error) : error \in Errors}
    \cup {Accepted, NotAsked, InFlight, Lost}
=============================================================================
