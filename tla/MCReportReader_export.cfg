SPECIFICATION ReaderSpec
CONSTANTS
  g1 = g1
  z1 = z1
  NoJob = NoJob
  Ids <- OneGit
  Zips <- NoZip
  NEngines = 2
  QueueSize = 1
  MaxFaults = 2
  MaxCrashes = 1
INVARIANT
  ExportWhole
