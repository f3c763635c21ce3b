SPECIFICATION FairSpec
CONSTANTS
  td2 = td2
  th = th
  None = none
  OtherAsic = other
  AsicTypes = {td2, th}
  ovsdb = ovsdb
  generic = generic
  late = late
  tooMany = tooMany
  Units = {0, 1}
  Plugins = {ovsdb, generic, late, tooMany}
  Features <- SomeFeatures
  Silicon <- SomeSilicon
  Clients = {bst, web}
  Ops <- SomeOps
  LockFaults = TRUE
  MaxPlugins = 2
  MaxAsics = 1
INVARIANTS TypeOK LockDiscipline
PROPERTIES ImplementsApi CallsReturn
CHECK_DEADLOCK FALSE
