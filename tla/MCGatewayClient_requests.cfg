SPECIFICATION FairSpec
CONSTANTS
  None = None
  r1 = r1
  r2 = r2
  Requests = {r1, r2}
  Capacity = 1
  MaxEvents = 0
  MaxReplies = 1
  MaxNoise = 0
INVARIANTS
  PendingIsExact
  AnswersAreOwn
PROPERTIES
  ShutdownReleasesEveryone
CHECK_DEADLOCK FALSE
