SPECIFICATION FairSpec
CONSTANTS
  Realms <- SomeRealms
  NumPorts = 1
  MaxPorts = 2
  NumIndex = 2
  MaxLevel = 2
  MaxCount = 1
  MaxEvents = 3
  Unset = unset
  Unknown = unknown
  CommitFaults = TRUE
INVARIANTS TypeOK CacheFollows ReportHonest
PROPERTY ThresholdArrives
CHECK_DEADLOCK FALSE
