SPECIFICATION Spec
CONSTANTS
  Limit = 1
  Window = 3
  Capacity = 2
  OutCapacity = 1
  MessageNames = {"this", "unnamed"}
  MaxMessages = 2
  MaxEdits = 0
  MaxOthers = 0
INVARIANTS
  HandoffLosesNothing
CHECK_DEADLOCK FALSE
