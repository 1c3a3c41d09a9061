SPECIFICATION Spec
CONSTANTS
  c1 = c1
  t1 = t1
  h1 = h1
  h2 = h2
  None = None
  Ctx <- MCCtx
  Timed <- MCTimed
  Caller <- MCCaller
  MaxAwaits = 2
  MaxCalls = 2
SYMMETRY Symmetry
INVARIANTS
  AwaitEnds
  CallHeard
CHECK_DEADLOCK FALSE
