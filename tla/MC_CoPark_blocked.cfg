SPECIFICATION Spec
CONSTANTS
  x1 = x1
  x2 = x2
  size = 2
  Jobs = 2
  External <- MCExternal
  SemInit <- Zeroed
INVARIANTS
  BlockedThreadHarmless
CHECK_DEADLOCK FALSE
