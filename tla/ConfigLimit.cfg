SPECIFICATION Spec
CONSTANTS
  Limits = {l1, l2}
  Keep = keep
  Realms = {r1}
  TrackSets <- FullOrNot
  QLen = 8
  Kinds <- RestKinds
  MaxEvents = 3
  CommitFaults = FALSE
  Stored <- StoredAtStart
INVARIANT LimitSticks
CHECK_DEADLOCK FALSE
