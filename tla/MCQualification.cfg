SPECIFICATION Spec
CONSTANTS
  NULL = NULL
  MaxSerializedEventBytes = NULL
  MaxPendingRows = 2
  MaxPendingSerializedBytes = NULL
  FilesystemReserve = NULL
  RollingBufferWindow = 100
  FullOutageMaxWindow = 100
  DeliveredRetention = 100
  DeadLetterRetention = 100
  PruneBatchSize = 2
  RequiredHeartbeats = 2
  RetryBackoff = 1
  DegradedAfter <- MCLong
  OfflineAfter <- MCLong
  PauseLiveFlow = TRUE
  ConservativeStartup = FALSE
  BypassPauseBacklog = 100
  PhaseEnds <- MCPhaseEnds
  ReplayBatchSize = 2
  EventBytes = 1
  EmissionPeriod = 1
  MaxDuplicates = 1
  MaxTime = 9
PROPERTY QualificationPasses
CHECK_DEADLOCK FALSE
