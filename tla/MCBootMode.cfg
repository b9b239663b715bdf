SPECIFICATION Spec
CONSTANTS
  ClearHold = 2
  ToggleHold = 4
  MaxBoots = 4
  MaxMarks = 3
INVARIANTS
  GestureObeyed
  DebugInOrder
PROPERTIES
  EraseInNormal
  BootEnds
CHECK_DEADLOCK FALSE
