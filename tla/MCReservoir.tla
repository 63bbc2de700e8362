---------------------------- MODULE MCReservoir -----------------------------
(* Constant values of the reservoir runs.                                  *)
EXTENDS Reservoir

MCModes == {"order_buffer_only"}
MCBothModes == {"normal", "full_outage_buffer"}
MCNone == {}
MCSizes == {1, 2}
MCOneSize == {1}
MCSizesToThree == 1..3
MCEarly == {0}
MCLimits == {1, 2}
MCReserve ==
  [minimum |-> 1, resume |-> 3, unavailable |-> "allow_logical_admission"]
MCStrictReserve ==
  [minimum |-> 1, resume |-> 3, unavailable |-> "refuse_admission"]
MCEvidence == {NULL, 1, 2, 3}
MCNoEvidence == {NULL}
MCRolledBack == {"rolled_back"}
MCAllFailures == {"rolled_back", "auto_rolled_back"}
=============================================================================
