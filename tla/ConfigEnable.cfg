SPECIFICATION Spec
CONSTANTS
  Limits = {l1}
  Keep = keep
  Realms = {r1}
  TrackSets <- FullOrNot
  QLen = 8
  Kinds <- SetKinds
  MaxEvents = 2
  CommitFaults = FALSE
  Stored <- StoredAtStart
INVARIANT EnableConverges
CHECK_DEADLOCK FALSE
