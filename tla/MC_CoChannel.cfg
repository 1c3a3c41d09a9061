SPECIFICATION ChannelSpec
SYMMETRY Symmetry
CONSTANTS
  p1 = p1
  p2 = p2
  r1 = r1
  r2 = r2
  v1 = v1
  v2 = v2
  v3 = v3
  None = None
  N = 1
  List <- MCList
  WaitQue = "wait_"
  PostQue = "post_"
  Ctx <- MCCtx
  Receivers <- MCReceivers
  Posters <- MCPosters
  Timed <- MCTimed
  Closer <- MCCloser
  Val <- MCVal
INVARIANTS
  ChannelTypeOK
  ValuesConserved
  ResultTrue
  OneSideWaits
  CloseReleasesAll
CHECK_DEADLOCK FALSE
