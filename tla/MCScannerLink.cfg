SPECIFICATION Spec
CONSTANTS
  PingTries = 2
  FastTries = 2
  Queries <- MCQueries
  Width = 4
  Height = 5
  MinSize = 2
  MinMargin = 1
  MaxCropBytes = 16
  Symbols <- MCSymbols
  MaxBacklog = 2
  MaxLost = 1
  MaxRestarts = 1
  MaxAnalyses = 1
INVARIANTS
  ReadyAgrees
  FormatKnown
  CropCovers
PROPERTIES
  PromptReady
CHECK_DEADLOCK FALSE
