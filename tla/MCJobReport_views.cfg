SPECIFICATION Spec
CHECK_DEADLOCK FALSE
CONSTANTS
  None = None
  Paths <- FourPaths
  Scopes <- NuxtScope
  Local <- LocalParts
  CustomRules <- OneCustom
  SemgrepReports <- SomeSemgrep
  TrivyReports <- SomeTrivy
  Sources <- SomeSources
INVARIANTS
  DedupeExact
  CountsAgree
  SameStory
  TiersTell
  SarifComplete
  UsageHonest
  EnginesRepresented
