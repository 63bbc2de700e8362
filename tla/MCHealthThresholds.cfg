SPECIFICATION Spec
CONSTANTS
  DegradedAfter <- MCDegradedAfter
  OfflineAfter <- MCOfflineAfter
  MaxDelay = 1
  MaxTime = 5
INVARIANTS
  NoPrematureSuspicion
