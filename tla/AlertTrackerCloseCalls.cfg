SPECIFICATION Spec
CONSTANTS
  None = None
  Alerts <- CloseSources
  MissTolerance = 1
  MaxSlots = 3
  MaxSnapshots = 2
  MaxLinks = 1
CHECK_DEADLOCK FALSE
INVARIANT
  CloseCallsFlagged
