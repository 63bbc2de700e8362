SPECIFICATION BoundarySpec
CONSTANTS
  NULL = NULL
  MaxSerializedEventBytes = 1
  MaxPendingRows = 1
  MaxPendingSerializedBytes = NULL
  FilesystemReserve = NULL
  RollingBufferWindow = 1
  FullOutageMaxWindow = 1
  DeliveredRetention = 1
  DeadLetterRetention = 0
  PruneBatchSize = 1
  RequiredHeartbeats = 1
  RetryBackoff = 1
  DegradedAfter <- MCLong
  OfflineAfter <- MCLong
  PauseLiveFlow = TRUE
  ConservativeStartup = FALSE
  BypassPauseBacklog = 1
  p1 = p1
  p2 = p2
  p3 = p3
  Slots = {p1, p2, p3}
  EventBytes = 1
  EventTimes = {NULL, 0}
  BatchSize = 1
  HealthReports <- MCDedupeReports
  HeartbeatsFrom <- MCNone
  HealthProbes = FALSE
  Crashes = TRUE
  Faults <- MCFaults
  MaxRows = 2
  MaxTime = 1
  Large = {p3}
  LargeBytes = 2
  WriteErrors <- MCWriteErrors
  MaxDrift = 1
  ReconcileWithin = 1
SYMMETRY MCSymmetry
INVARIANTS
  BoundaryTypeOK
  AnswersAreTrue
  StoredOnce
