----------------------------- MODULE AtomicSwap -----------------------------
(***************************************************************************)
(* What swap() of unique_lock.cpp and of two_or_more_mutexes_no_deadlock   *)
(* promises: objects exchange their data two by two, at once.              *)
(***************************************************************************)
EXTENDS Functions

CONSTANTS Objects, Data

VARIABLE settled   \* the datum of each object

Init == settled \in [Objects -> Data] /\ IsInjective(settled)

swap(a, b) == settled' = [settled EXCEPT ![a] = settled[b], ![b] = settled[a]]

Next == \E a, b \in Objects : swap(a, b)

Spec == Init /\ [][Next]_settled

=============================================================================
