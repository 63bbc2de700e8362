SPECIFICATION FairSpec
CONSTANTS
  NULL = NULL
  MaxSerializedEventBytes = NULL
  MaxPendingRows = NULL
  MaxPendingSerializedBytes = NULL
  FilesystemReserve = NULL
  RollingBufferWindow = 100
  FullOutageMaxWindow = 100
  DeliveredRetention = 100
  DeadLetterRetention = 100
  PruneBatchSize = 1
  RequiredHeartbeats = 2
  RetryBackoff = 1
  DegradedAfter <- MCLong
  OfflineAfter <- MCLong
  PauseLiveFlow = TRUE
  ConservativeStartup = FALSE
  BypassPauseBacklog = 100
  Slots = {s1}
  EventBytes = 1
  EventTimes = {NULL}
  BatchSize = 1
  HealthReports <- MCOrderOutages
  HeartbeatsFrom <- MCFromTargets
  HealthProbes = FALSE
  Crashes = TRUE
  Faults <- MCReplayFaults
  MaxRows = 2
  MaxTime = 2
PROPERTY
  AcceptedEventuallySettled
