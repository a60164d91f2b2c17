SPECIFICATION Spec
CONSTANTS
  t1 = t1
  t2 = t2
  t3 = t3
  mtx0 = mtx0
  mtx1 = mtx1
  mtx2 = mtx2
  mtx3 = mtx3
  mtx4 = mtx4
  Threads = {t1, t2, t3}
  Mutexes = {mtx0, mtx1, mtx2, mtx3, mtx4}
  mutex_level <- MCLevels
  ULONG_MAX = 40
  AllocMayFail = TRUE
  NoThread = NoThread
  NoMutex = NoMutex
SYMMETRY Symmetry
INVARIANTS
  NoDeadlock
  LevelIsInnermost
  OnlyInnermostUnlocks
PROPERTIES
  SavedUnderMutex
  ImplementsHierarchy
CHECK_DEADLOCK FALSE
