SPECIFICATION StreamingSpec
CONSTANTS
  None = None
  r1 = r1
  Requests = {r1}
  Capacity = 2
  MaxEvents = 3
  MaxReplies = 1
  MaxNoise = 1
INVARIANTS
  TypeOK
  NoLostWakeup
  FailureReasonIsTrue
PROPERTIES
  ImplementsEventStream
  ReplyReachesCaller
CHECK_DEADLOCK FALSE
