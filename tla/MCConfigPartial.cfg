SPECIFICATION Spec
CONSTANTS
  NULL = NULL
  Defaults = Defaults
  Undefined = Undefined
  Invalid = Invalid
  NoFile = NoFile
  MaxSerializedEventBytes = NULL
  MaxPendingRows = NULL
  MaxPendingSerializedBytes = NULL
  FilesystemReserve = NULL
  RollingBufferWindow = 2
  FullOutageMaxWindow = 2
  DeliveredRetention = 1
  DeadLetterRetention = 1
  PruneBatchSize = 1
  RequiredHeartbeats = 1
  RetryBackoff = 1
  DegradedAfter <- MCLong
  OfflineAfter <- MCLong
  PauseLiveFlow = TRUE
  ConservativeStartup = FALSE
  BypassPauseBacklog = 100
  Workers = {w1}
  NamedFiles <- MCOneDefault
  DefaultFiles <- MCOneDefault
  Inlines <- MCNoInline
  FirstFiles <- MCNoTables
  EventBytes = 1
  EventTimes = {NULL}
  BatchSize = 1
  HealthReports <- MCOrderOutages
  MaxRows = 1
  MaxTime = 1
INVARIANT DefaultsKept
