SPECIFICATION Spec
CONSTANTS
  NumUnits = 1
  AsicUnits <- ExtraUnit
  Index = {dev, ucq}
  Device = dev
  Unmapped = {cpuq}
  MaxValues <- Limits
  TrigQLen = 2
  BstQLen = 2
  MaxQueueFails = 1
  CountBound = 3
  TimerFaults = TRUE
  RecvFaults = TRUE
INVARIANTS
  TypeOK
  RateLimit
