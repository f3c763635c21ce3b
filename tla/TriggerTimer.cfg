SPECIFICATION FairSpec
CONSTANTS
  NumUnits = 1
  AsicUnits <- OneUnit
  Index = {dev, ucq}
  Device = dev
  Unmapped = {}
  MaxValues <- Limits
  TrigQLen = 2
  BstQLen = 2
  MaxQueueFails = 1
  CountBound = 3
  TimerFaults = FALSE
  RecvFaults = FALSE
INVARIANTS
  CountedHasTimer
PROPERTIES
  SuppressionEnds
  IdleTimerStops
