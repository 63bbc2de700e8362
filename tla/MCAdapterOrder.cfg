SPECIFICATION Spec
CONSTANTS
  NULL = NULL
  MaxSerializedEventBytes = NULL
  MaxPendingRows = 2
  MaxPendingSerializedBytes = NULL
  FilesystemReserve = NULL
  RollingBufferWindow = 2
  FullOutageMaxWindow = 3
  DeliveredRetention = 1
  DeadLetterRetention = 1
  PruneBatchSize = 2
  RequiredHeartbeats = 1
  RetryBackoff = 1
  DegradedAfter <- MCShort
  OfflineAfter <- MCShortOffline
  PauseLiveFlow = FALSE
  ConservativeStartup = FALSE
  BypassPauseBacklog = 1
  Slots = {s1}
  EventBytes = 1
  EventTimes = {NULL, 0}
  BatchSize = 1
  HealthReports <- MCOrderOutages
  HeartbeatsFrom <- MCFromTargets
  HealthProbes = TRUE
  Crashes = FALSE
  Faults <- MCHandlerFaults
  MaxRows = 2
  MaxTime = 2
PROPERTY
  ReplayNeverOvertakes
