SPECIFICATION Spec
CONSTANTS
  x1 = x1
  x2 = x2
  size = 1
  Jobs = 2
  External <- MCExternal
  SemInit <- Zeroed
INVARIANTS
  NoLostWake
CHECK_DEADLOCK FALSE
