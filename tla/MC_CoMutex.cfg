SPECIFICATION FairSpec
CONSTANTS
  c1 = c1
  c2 = c2
  c3 = c3
  None = None
  Ctx <- MCCtx
INVARIANTS
  OwnerKnown
  OneWakeUp
  FreeLockSeen
PROPERTIES
  LockProgress
  ImplementsLock
