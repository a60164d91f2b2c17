SPECIFICATION Spec
CONSTANTS
  t1 = t1
  t2 = t2
  v1 = v1
  v2 = v2
  Threads = {t1, t2}
  Values = {v1, v2}
  MaxSize = 3
  CopyMayFail = TRUE
  NoThread = NoThread
  NoValue = NoValue
SYMMETRY Symmetry
INVARIANT TopIsMine
PROPERTIES
  Linearizable
