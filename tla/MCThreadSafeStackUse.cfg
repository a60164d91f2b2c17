SPECIFICATION UseSpec
CONSTANTS
  n_threads = 3
  n_iterations = 4
  Threads = {1, 2, 3}
  Values = {1, 2, 3, 4}
INVARIANTS
  EachOnce
  StackOutlivesWorkers
PROPERTIES
  Ends
