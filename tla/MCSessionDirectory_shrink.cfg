SPECIFICATION Spec
CONSTANTS
  k1 = k1
  k2 = k2
  k3 = k3
  k4 = k4
  Keys = {k1, k2, k3, k4}
  NoDeadline = NoDeadline
  DialTimeout = 2
  Contexts = {NoDeadline}
  PageLimit = 2
  OffsetFaults = FALSE
  MaxChanges = 1
SYMMETRY KeySymmetry
INVARIANTS
  SnapshotIsComplete
CHECK_DEADLOCK FALSE
