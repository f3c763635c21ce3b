SPECIFICATION FairSpec
CONSTANTS
  Sessions = {s1}
  Intervals = {1, 2}
  Default = 2
  Ports = {8080, 9090}
  QLen = 2
  NumSlices = 2
  MaxErrors = 1
  MaxFaults = 2
  MaxDue = 1
  MaxModules = 2
  Others = {"BST"}
  None = none
INVARIANTS TypeOK TimerFollows
PROPERTIES RequestsAnswered HeartbeatsGoOut HeartbeatsShowPort
CHECK_DEADLOCK FALSE
