SPECIFICATION Spec
CONSTANTS
  NumRealms = 2
  Values <- Bits
  Intervals <- Seconds
  Confs <- ThreeConfs
  DefaultConf <- FactoryConf
  TrackSets <- OneOrTwo
  QLen = 1
  MaxFaults = 0
PROPERTY NoReportOnFailure
