SPECIFICATION Spec
CONSTANTS
  Limit = 2
  Window = 3
  Capacity = 1
  OutCapacity = 1
  MessageNames = {"unnamed"}
  MaxMessages = 4
  MaxEdits = 1
  MaxOthers = 0
INVARIANTS
  TypeOK
  PageIsGrouped
  OperationsFitView
  CaughtUpShowsLatest
  TrackingIsBounded
PROPERTIES
  ImplementsTurnFeed
CHECK_DEADLOCK FALSE
