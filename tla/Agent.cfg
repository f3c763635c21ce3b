SPECIFICATION FairSpec
CONSTANTS
  Shells = {v1, v2}
  Addresses = {"127.0.0.1", "10.0.0.1"}
  Ports = {9070, 8080}
  BadAddress = "-"
  BadPort = 0
  Default <- DefaultSettings
  OtherMaps <- SomeMaps
  MaxWrites = 2
INVARIANTS TypeOK SettingsKept CollectorWhole
PROPERTIES CollectorFollows AgentPortFollows
CHECK_DEADLOCK FALSE
