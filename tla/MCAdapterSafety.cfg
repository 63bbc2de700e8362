SPECIFICATION Spec
CONSTANTS
  NULL = NULL
  MaxSerializedEventBytes = NULL
  MaxPendingRows = NULL
  MaxPendingSerializedBytes = NULL
  FilesystemReserve = NULL
  RollingBufferWindow = 2
  FullOutageMaxWindow = 2
  DeliveredRetention = 1
  DeadLetterRetention = 1
  PruneBatchSize = 1
  RequiredHeartbeats = 1
  RetryBackoff = 1
  DegradedAfter <- MCLong
  OfflineAfter <- MCLong
  PauseLiveFlow = TRUE
  ConservativeStartup = FALSE
  BypassPauseBacklog = 1
  Slots = {s1}
  EventBytes = 1
  EventTimes = {NULL}
  BatchSize = 2
  HealthReports <- MCOrderOutages
  HeartbeatsFrom <- MCFromOrder
  HealthProbes = TRUE
  Crashes = TRUE
  Faults <- MCAllFaults
  MaxRows = 2
  MaxTime = 2
INVARIANTS
  TypeOK
  DeliveredOnlyAfterHandler
PROPERTIES
  GateOpensOnlyWhenDrained
  ReopenedOnlyByItsBatch
  ImplementsLedger
