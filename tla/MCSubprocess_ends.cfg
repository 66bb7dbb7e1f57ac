SPECIFICATION SubSpec
CONSTANTS
  g1 = g1
  z1 = z1
  NoJob = NoJob
  Ids <- OneEach
  Zips <- OneZip
  NEngines = 1
  QueueSize = 1
  MaxFaults = 0
  MaxCrashes = 1
  GitRuns = 2
PROPERTIES
  CallsReturn
  CancelFreesWorker
  SettlesByDeadline
  ReclaimsByDeadline
