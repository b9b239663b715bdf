SPECIFICATION Spec
CONSTANTS
  Debounce = 2
  DoubleTap = 4
  Guard = 5
  Feedback = 2
  Analysis = 4
  Heartbeat = 1
  MaxPresses = 6
INVARIANTS
  ActionsPaidFor
  UpdatePressIgnored
  LightsTellState
PROPERTIES
  TapActs
