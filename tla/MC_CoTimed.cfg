SPECIFICATION Spec
SYMMETRY Symmetry
CONSTANTS
  c1 = c1
  c2 = c2
  t = t
  None = None
  Ctx <- MCCtx
  Timed <- MCTimed
  List <- MCList
  SemQue = "sem"
  CondQue = "cond"
  MaxSem = 2
  MaxItems = 2
INVARIANTS
  ListSound
  PermitsFound
  CondFound
  CondHolds
CHECK_DEADLOCK FALSE
