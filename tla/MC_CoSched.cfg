SPECIFICATION FairSpec
CONSTANTS
  c1 = c1
  c2 = c2
  w1 = w1
  w2 = w2
  x1 = x1
  None = None
  Ctx <- MCCtx
  Worker <- MCWorker
  External <- MCExternal
INVARIANTS
  OneOwner
  AssertsHold
  TimersBelong
  NothingLost
PROPERTIES
  ImplementsTask
  ResumedIsQueued
