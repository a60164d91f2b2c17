------------------------ MODULE MCThreadSafeStack ------------------------
(***************************************************************************)
(* An instance of ThreadSafeStack: symmetric threads and values.           *)
(***************************************************************************)
EXTENDS ThreadSafeStack, TLC

CONSTANTS t1, t2, v1, v2

Symmetry == Permutations(Threads) \cup Permutations(Values)

=========================================================================
