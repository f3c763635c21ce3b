SPECIFICATION FairSpec
CONSTANTS
  Limits = {l1, l2}
  Keep = keep
  Realms = {r1, r2}
  TrackSets <- FullOrNot
  QLen = 2
  Kinds <- AllKinds
  MaxEvents = 3
  CommitFaults = TRUE
  Stored <- StoredAtStart
INVARIANTS TypeOK LimitConverges EnableSeen TrackSeen
PROPERTY Settles
CHECK_DEADLOCK FALSE
