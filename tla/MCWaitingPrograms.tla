-------------------------- MODULE MCWaitingPrograms --------------------------
(* The thread_count of latch.cpp; three threads and two blocks at the barrier; *)
(* an unsigned of three bits.                                                  *)
EXTENDS WaitingPrograms

FourWorkers == 4
ThreeThreads == 3
TwoBlocks == 2
Modulus8 == 8

=============================================================================
