SPECIFICATION MSSpec
CONSTANTS
  SlotCount = 5
  MaxNumber = 5
  MaxSequence = 8
  MaxPayload = 1
  Erased16 = 9
  p1 = p1
  p2 = p1
  Empty = Empty
  Blank = Blank
  Partial = Partial
  Garbled = Garbled
  Payloads <- MCPayloads
  PayloadLength <- MCPayloadLength
  LogMax = 2
  InitialCounts <- NewOrFull
  MaxLateFailures = 1
  MaxPowerLosses = 1
INVARIANTS
  ReadsUndisturbed
  HostFresh
  LatestApart
  AckedShown
  UncutDiskValid
PROPERTIES
  Reconnects
CHECK_DEADLOCK FALSE
