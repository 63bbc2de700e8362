--------------------------- MODULE MCCrashBoundary --------------------------
(* The crash boundaries at the script's own values, in thousands.          *)
EXTENDS CrashBoundary
=============================================================================
