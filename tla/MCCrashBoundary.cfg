SPECIFICATION Spec
CONSTANTS
  NULL = NULL
  MaxSerializedEventBytes = NULL
  MaxPendingRows = NULL
  MaxPendingSerializedBytes = NULL
  FilesystemReserve = NULL
  RollingBufferWindow = 100
  FullOutageMaxWindow = 200
  DeliveredRetention = 1
  DeadLetterRetention = 2
  PruneBatchSize = 100
  Now = 300
  IngestAt = 250
  RetryAt = 305
  EventBytes = 1
PROPERTY CharacterizationPasses
