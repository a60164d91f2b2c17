SPECIFICATION UseSpec
CONSTANTS
  n_threads = 2
  n_iterations = 10
  Threads = {1, 2}
  Values = {1, 2, 3, 4, 5, 6, 7, 8, 9, 10}
PROPERTIES
  Computes
