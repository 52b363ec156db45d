SPECIFICATION FairSpec
CONSTANTS
  k1 = k1
  k2 = k2
  k3 = k3
  k4 = k4
  Keys = {k1, k2, k3, k4}
  NoDeadline = NoDeadline
  DialTimeout = 2
  Contexts = {2, NoDeadline}
  PageLimit = 2
  OffsetFaults = TRUE
  MaxChanges = 3
INVARIANTS
  TypeOK
  GrowthLosesNothing
PROPERTIES
  ListingEnds
  DialEnds
  IdleConnectionLives
CHECK_DEADLOCK FALSE
