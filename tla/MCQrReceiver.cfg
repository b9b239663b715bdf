SPECIFICATION Spec
CONSTANTS
  Parts = 2
  Capacity = 3
  InterByte = 2
  ScanTimeout = 4
  TapTicks = 3
  MaxScans = 2
  MaxSteadyScans = 3
  MaxStatus = 2
  MaxNoise = 1
INVARIANTS
  TypeOK
  VerifiedIntact
  AcceptedFresh
PROPERTIES
  ScanEnds
CHECK_DEADLOCK FALSE
