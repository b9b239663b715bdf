SPECIFICATION Spec
CONSTANTS
  MaxScans = 3
  MaxFaultyScans = 2
  MaxPowerLosses = 1
  Blank = Blank
  Partial = Partial
  Garbled = Garbled
  FaultSets = {{}, {"firstErase", "install"}, {"firstErase", "install", "late"}}
INVARIANTS
  DecodeMemory
  QuircReleased
  UartReady
  ShownImage
  RawWhole
  ProbesThisScan
PROPERTIES
  AnalysisEnds
CHECK_DEADLOCK FALSE
