SPECIFICATION Spec
CONSTANTS
  MaxScans = 3
  MaxFaultyScans = 2
  MaxPowerLosses = 1
  Blank = Blank
  Partial = Partial
  Garbled = Garbled
  FaultSets = {{"late"}}
INVARIANTS
  QuircAlive
CHECK_DEADLOCK FALSE
