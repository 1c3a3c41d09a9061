SPECIFICATION FairSpec
CONSTANTS
  Main = Main
  f1 = f1
  f2 = f2
  None = None
  Ctx <- MCCtx
  Timed <- MCTimed
  MaxValues = 4
INVARIANTS
  TypeOK
  HandsOver
PROPERTIES
  CallReturns
CHECK_DEADLOCK FALSE
