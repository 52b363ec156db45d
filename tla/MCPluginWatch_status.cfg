SPECIFICATION Spec
CONSTANTS
  None = None
  s1 = s1
  exec1 = exec1
  plugin1 = plugin1
  stray = stray
  Sessions = {s1}
  Approvals = {exec1, plugin1}
  KindOf <- MCKindOf
  SessionOf <- SameSession
  Phases = {"start", "end"}
  Capacity = 2
  OutCapacity = 1
  MaxEvents = 2
  MaxSubscriptions = 1
INVARIANTS
  SnapshotTellsRunStatus
CHECK_DEADLOCK FALSE
