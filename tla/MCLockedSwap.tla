---------------------------- MODULE MCLockedSwap ----------------------------
(* Instance of LockedSwap for TLC: three threads and three objects, so that the swaps of a   *)
(* cycle of objects meet.  No step looks at a datum, so one way to begin stands for all.      *)
EXTENDS LockedSwap

CONSTANTS t1, t2, t3, o1, o2, o3, d1, d2, d3

MCThreads == {t1, t2, t3}
MCObjects == {o1, o2, o3}
MCData == {d1, d2, d3}
Calls == 1

MCInit ==
  /\ Init
  /\ data = [o \in Objects |-> IF o = o1 THEN d1 ELSE IF o = o2 THEN d2 ELSE d3]

\* FairSwaps from those initial states.
MCSpec == MCInit /\ [][Next]_vars /\ SwapFairness

=============================================================================
