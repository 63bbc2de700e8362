SPECIFICATION Spec
CONSTANTS
  NULL = NULL
  Defaults = Defaults
  Undefined = Undefined
  Invalid = Invalid
  NoFile = NoFile
  MaxSerializedEventBytes = NULL
  MaxPendingRows = NULL
  MaxPendingSerializedBytes = NULL
  FilesystemReserve = NULL
  RollingBufferWindow = 2
  FullOutageMaxWindow = 2
  DeliveredRetention = 1
  DeadLetterRetention = 1
  PruneBatchSize = 1
  RequiredHeartbeats = 1
  RetryBackoff = 1
  DegradedAfter <- MCLong
  OfflineAfter <- MCLong
  PauseLiveFlow = TRUE
  ConservativeStartup = FALSE
  BypassPauseBacklog = 100
  Workers = {w1, w2}
  NamedFiles <- MCNamed
  DefaultFiles <- MCDefault
  Inlines <- MCInline
  FirstFiles <- MCFiles
  EventBytes = 1
  EventTimes = {NULL, 0}
  BatchSize = 1
  HealthReports <- MCOrderOutages
  MaxRows = 2
  MaxTime = 2
SYMMETRY MCSymmetry
INVARIANTS
  TypeOK
  ConfigPrecedence
  NeverBricked
  OpenedSound
  ReplayUnderOneOwner
  LeaseRespected
  HeldFlowIsShown
PROPERTIES
  RestartKeepsEvents
  RefusedUntouched
