SPECIFICATION FairSpec
CONSTANTS
  thread_count <- FourWorkers
  n_threads <- ThreeThreads
  Blocks <- TwoBlocks
  Modulus <- Modulus8
  Absent = Absent
INVARIANTS
  EnoughData
  SerialIsAlone
  WritesAreComplete
  InOrder
PROPERTY Returns
