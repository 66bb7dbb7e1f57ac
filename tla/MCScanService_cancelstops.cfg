SPECIFICATION PatientSpec
CONSTANTS
  g1 = g1
  g2 = g2
  z1 = z1
  z2 = z2
  NoJob = NoJob
  Ids <- OneEach
  Zips <- OneZip
  NEngines = 1
  QueueSize = 1
  MaxFaults = 0
  MaxCrashes = 0
PROPERTY
  CancelStopsWork
