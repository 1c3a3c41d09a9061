SPECIFICATION Spec
CONSTANTS
  c1 = c1
  t1 = t1
  None = None
  Poller = Poller
  Closer = Closer
  Ctx <- MCCtx
  Timed <- MCTimed
  Interests <- MCInterests
  Arrivals <- MCArrivals
  MaxPolls <- MCMaxPolls
INVARIANTS
  Armed
  NoLostEdge
  NobodyDropped
  ResumesItsPoll
CHECK_DEADLOCK FALSE
