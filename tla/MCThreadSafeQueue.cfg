SPECIFICATION FairSpec
CONSTANTS
  p1 = p1
  p2 = p2
  c1 = c1
  c2 = c2
  o1 = o1
  Threads = {p1, c1, c2, o1}
  Values = {1, 2}
  MayCall <- MCMayCall
  MaxCalls = 2
  CopyMayFail = TRUE
  NoThread = NoThread
  NoValue = NoValue
INVARIANTS
  FIFO
  FrontIsMine
  CopyIsSnapshot
  NoLostWakeup
PROPERTY Served
CHECK_DEADLOCK FALSE
