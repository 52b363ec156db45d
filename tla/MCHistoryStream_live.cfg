SPECIFICATION ServedSpec
CONSTANTS
  Limit = 1
  Window = 2
  Capacity = 1
  OutCapacity = 1
  MessageNames = {"this", "unnamed"}
  MaxMessages = 2
  MaxEdits = 1
  MaxOthers = 1
INVARIANTS
  EndIsAnnounced
PROPERTIES
  HubEventuallyCurrent
CHECK_DEADLOCK FALSE
