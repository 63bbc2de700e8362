--------------------------- MODULE MCHealthTracker --------------------------
(* Constant values of the health tracker runs.                             *)
EXTENDS HealthTracker

MCDegradedAfter == [c \in Components |-> IF c = "transport" THEN 1 ELSE 2]
MCOfflineAfter == [c \in Components |-> IF c = "transport" THEN 2 ELSE 4]
=============================================================================
