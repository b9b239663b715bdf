SPECIFICATION Spec
CONSTANTS
  PingTries = 1
  FastTries = 1
  Queries <- MCFewQueries
  Width = 4
  Height = 5
  MinSize = 2
  MinMargin = 0
  MaxCropBytes = 16
  Symbols <- MCOneSymbol
  MaxBacklog = 13
  MaxLost = 1
  MaxRestarts = 0
  MaxAnalyses = 2
INVARIANTS
  OwnValue
  CropWhole
CHECK_DEADLOCK FALSE
