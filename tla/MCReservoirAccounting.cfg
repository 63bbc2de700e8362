SPECIFICATION Spec
CONSTANTS
  NULL = NULL
  MaxSerializedEventBytes = NULL
  MaxPendingRows = NULL
  MaxPendingSerializedBytes = NULL
  FilesystemReserve = NULL
  RollingBufferWindow = 1
  FullOutageMaxWindow = 1
  DeliveredRetention = 1
  DeadLetterRetention = 1
  PruneBatchSize = 1
  RetryBackoff = 1
  EventSizes <- MCSizes
  IngressModes <- MCModes
  EarlyIngestTimes <- MCNone
  ReplayLimits <- MCLimits
  Evidence <- MCNoEvidence
  Failures <- MCAllFailures
  MaxRows = 2
  MaxTime = 1
  MaxDrift = 1
INVARIANTS
  TypeOK
  AccountingExact
  CachedCountExact
PROPERTIES
  ImplementsLedger
  RowIdsNeverReused
