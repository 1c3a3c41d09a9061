SPECIFICATION FairSpec
CONSTANTS
  x1 = x1
  x2 = x2
  size = 1
  Jobs = 2
  External <- MCTwo
  SemInit <- UpToSize
INVARIANTS
  OnceListed
  SleeperReachable
  WorkNoticed
  HandOverSeen
PROPERTIES
  HandOverServed
CHECK_DEADLOCK FALSE
