SPECIFICATION Spec
CONSTANTS
  j1 = j1  j2 = j2  g1 = g1  g2 = g2
  t1 = t1  t2 = t2  t3 = t3
  NoThread = NoThread  NoObject = NoObject  Parameter = Parameter
  Objects <- MCObjects
  Guards <- MCGuards
  Threads <- MCThreads
INVARIANTS
  OwnedOnce
  OnlyEmptyGuardTerminates
PROPERTY WaitsBeforeLetGo
\* std::terminate ends the program.
CHECK_DEADLOCK FALSE
