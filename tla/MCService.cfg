SPECIFICATION FairSpec
CONSTANTS
  NULL = NULL
  EventTypes <- MCEventTypes
  Subscribers = {l1}
  Interest <- MCInterest
  Flushers = {f1}
  QueueCapacity = 1
  Ticks = {t1, t2}
  Stoppers = {c1, c2}
  Interval <- MCInterval
  ProbeConfigured = TRUE
  CloseOnStop = TRUE
  RetryBackoff = 2
  Faults <- MCFaults
  Applications <- MCApplications
INVARIANTS
  TypeOK
  TicksSerialized
  RunningIsAlive
  NoLostWakeup
  SubscriberCountExact
PROPERTIES
  StopIsQuiet
  DrainedMeansSettled
  PruningRecurs
