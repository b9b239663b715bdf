SPECIFICATION Spec
CONSTANTS
  SlotCount = 3
  MaxNumber = 3
  MaxSequence = 6
  MaxPayload = 1
  Erased16 = 9
  empty = empty
  p1 = p1
  Blank = Blank
  Partial = Partial
  Garbled = Garbled
  Payloads <- MCPayloads
  PayloadLength <- MCPayloadLength
  Empty <- empty
INVARIANTS
  TypeOK
  RingOrder
  VisibleIntact
  AckedDurable
  DistinctNumbers
PROPERTIES
  AppendErasesOldest
  RefinesHistoryLog
