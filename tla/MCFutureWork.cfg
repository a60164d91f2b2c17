SPECIFICATION FairSpec
CONSTANTS
  Pushes <- FourPushes
  Values <- ThreeValues
  MaxLen <- FourNodes
  WordSize = 64
  MaxOperand = 30
  Draws = 2
  Absent = Absent
INVARIANTS
  SameResults
  OnlyTheRaceFails
  ReturnsSorted
PROPERTIES
  CountsBelowRoot
  ProgramEnds
