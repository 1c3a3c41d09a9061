SPECIFICATION FairSpec
CONSTANTS
  c1 = c1
  c2 = c2
  c3 = c3
  None = None
  RWMax = 4
  Ctx <- MCCtx
  Sem <- MCSem
INVARIANTS
  PermitsMatch
  PermitsSeen
  OneWakeUp
PROPERTIES
  ImplementsRWLock
  WriterProgress
  ReaderProgress
