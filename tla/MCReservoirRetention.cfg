SPECIFICATION RuntimeSpec
CONSTANTS
  NULL = NULL
  MaxSerializedEventBytes = 2
  MaxPendingRows = 2
  MaxPendingSerializedBytes = 3
  FilesystemReserve <- MCReserve
  RollingBufferWindow = 1
  FullOutageMaxWindow = 2
  DeliveredRetention = 1
  DeadLetterRetention = 2
  PruneBatchSize = 1
  RetryBackoff = 1
  EventSizes <- MCSizesToThree
  IngressModes <- MCModes
  EarlyIngestTimes <- MCEarly
  ReplayLimits <- MCLimits
  Evidence <- MCEvidence
  Failures <- MCNone
  MaxRows = 2
  MaxTime = 3
  MaxDrift = 0
INVARIANTS
  RowLifecycleConsistent
  PostureAgreesWithAdmission
PROPERTIES
  RetentionRespected
  ClaimsInIngestOrder
