SPECIFICATION MSSpec
CONSTANTS
  SlotCount = 4
  MaxNumber = 5
  MaxSequence = 8
  MaxPayload = 1
  Erased16 = 9
  p1 = p1
  p2 = p2
  Empty = Empty
  Blank = Blank
  Partial = Partial
  Garbled = Garbled
  Payloads <- MCPayloads
  PayloadLength <- MCPayloadLength
  LogMax = 2
  InitialCounts <- Wrapped
  MaxLateFailures = 0
  MaxPowerLosses = 1
INVARIANTS
  OldDiskValid
CHECK_DEADLOCK FALSE
