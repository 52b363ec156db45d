SPECIFICATION Spec
CONSTANTS
  None = None
  s1 = s1
  exec1 = exec1
  plugin1 = plugin1
  stray = stray
  Sessions = {s1}
  Approvals = {exec1, plugin1}
  KindOf <- MCKindOf
  SessionOf <- SameSession
  Phases = {"started"}
  Capacity = 2
  OutCapacity = 1
  MaxEvents = 2
  MaxSubscriptions = 1
INVARIANTS
  PendingIsReplayed
CHECK_DEADLOCK FALSE
