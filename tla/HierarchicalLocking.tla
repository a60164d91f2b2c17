---------------------- MODULE HierarchicalLocking ----------------------
(***************************************************************************)
(* What a level mutex promises, without the bookkeeping that delivers it:  *)
(* a thread acquires a free mutex whose level is above every level it      *)
(* holds, and gives its mutexes back innermost first.  LevelMutex.tla      *)
(* implements this specification with a thread-local level and, in each    *)
(* mutex, the level to go back to.                                         *)
(***************************************************************************)
EXTENDS Naturals

CONSTANTS
  Threads,      \* the threads of the program
  Mutexes,      \* the LevelMutex objects
  mutex_level   \* the level each mutex was constructed with

VARIABLE
  held          \* the mutexes each thread has locked and not yet unlocked

-------------------------------------------------------------------------

\* Every level thread t holds is below level l; level 0 is below no mutex.
Below(t, l) == 0 < l /\ \A n \in held[t] : mutex_level[n] < l

\* m is held by t, and no mutex t holds has a higher level.
Innermost(t, m) ==
  m \in held[t] /\ \A n \in held[t] : mutex_level[n] <= mutex_level[m]

Acquire(t, m) ==
  /\ \A u \in Threads : m \notin held[u]
  /\ Below(t, mutex_level[m])
  /\ held' = [held EXCEPT ![t] = @ \cup {m}]

Release(t, m) ==
  /\ Innermost(t, m)
  /\ held' = [held EXCEPT ![t] = @ \ {m}]

Init == held = [t \in Threads |-> {}]

Next == \E t \in Threads, m \in Mutexes : Acquire(t, m) \/ Release(t, m)

Spec == Init /\ [][Next]_held

=========================================================================
