SPECIFICATION UseSpec
CONSTANTS
  mtx1 = mtx1
  mtx2 = mtx2
  mtx3 = mtx3
  mtx4 = mtx4
  mtx5 = mtx5
  Mutexes = {mtx1, mtx2, mtx3, mtx4, mtx5}
  mutex_level <- MCLevels
  ULONG_MAX = 50
  NoThread = NoThread
  NoMutex = NoMutex
  Threads = {t1, t2, t3}
  AllocMayFail = TRUE
INVARIANTS
  DestructorsNeverThrow
  OnlyFooFails
PROPERTIES
  Terminates
