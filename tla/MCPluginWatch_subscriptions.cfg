SPECIFICATION FairSpec
CONSTANTS
  None = None
  s1 = s1
  exec1 = exec1
  plugin1 = plugin1
  stray = stray
  Sessions = {s1}
  Approvals <- WithStray
  KindOf <- StrayKind
  SessionOf <- StraySession
  Phases = {"ended", ""}
  Capacity = 1
  OutCapacity = 1
  MaxEvents = 3
  MaxSubscriptions = 2
INVARIANTS
  TypeOK
  EndIsAnnounced
  HubConverges
  BlockedSessionsAreLocked
PROPERTIES
  CancelEndsWatch
  LostConnectionEndsWatch
  ApprovalReachesHub
  ImplementsApprovalInbox
CHECK_DEADLOCK FALSE
