SPECIFICATION Spec
CONSTANTS
  g1 = g1
  g2 = g2
  z1 = z1
  z2 = z2
  NoJob = NoJob
  Ids <- OneEach
  Zips <- OneZip
  NEngines = 2
  QueueSize = 1
  MaxFaults = 1
  MaxCrashes = 1
INVARIANTS
  TypeOK
  AtMostOnce
  SecretLifetime
  SecretDelivered
  DoneIsPublished
  CanceledNeverStarts
PROPERTIES
  NoStranded
  DirOwned
  OrphansOnlyUnchecked
  TerminalSticky
  ResultsFrozen
  PublishHonest
  LifecycleSpec
