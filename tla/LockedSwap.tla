----------------------------- MODULE LockedSwap -----------------------------
(***************************************************************************)
(* swap() of class Foo (unique_lock.cpp) and of the classes Cxx11 and      *)
(* Cxx17 (two_or_more_mutexes_no_deadlock.cpp): each object has a mutex,   *)
(* and two objects are swapped with the mutexes of both locked.  The three *)
(* differ in who unlocks: unique_lock and lock_guard with adopt_lock, the  *)
(* second mutex first, or scoped_lock, whose order is the library's.       *)
(*                                                                         *)
(* std::lock locks one of the two and tries the other; when that is taken  *)
(* it unlocks the first and begins again with either of them.              *)
(***************************************************************************)
EXTENDS Naturals, Functions

CONSTANTS
  Threads,
  Objects,
  Data,       \* what the objects hold
  MaxCalls,   \* bound: how many times each thread calls swap()
  NoThread, NoObject, NoData

ASSUME SwapAssumption ==
  /\ NoThread \notin Threads /\ NoObject \notin Objects /\ NoData \notin Data
  /\ MaxCalls \in Nat

VARIABLES
  mutex,     \* the owner of the mutex of each object
  data,      \* the datum of each object
  pc,        \* where each thread stands
  lhs, rhs,  \* the arguments of its swap()
  one,       \* the object whose mutex std::lock takes first, and later the one unlocked last
  tmp,       \* the temporary of the swap of the data
  calls

vars == <<mutex, data, pc, lhs, rhs, one, tmp, calls>>

(***************************************************************************)
(* pc: "idle", "lock" inside std::lock with nothing locked,                *)
(*     "try" with the mutex of one locked, "save" about to save the datum  *)
(*     of lhs in tmp, "copy" about to overwrite it, "restore" about to put *)
(*     tmp into rhs, "unlock" and "unlock_other" in the destructors, with  *)
(*     both mutexes locked and with that of one                            *)
(***************************************************************************)
PCs == {"idle", "lock", "try", "save", "copy", "restore", "unlock", "unlock_other"}

\* Both mutexes are locked.
Both == {"save", "copy", "restore", "unlock"}

Init ==
  /\ mutex = [o \in Objects |-> NoThread]
  /\ data \in [Objects -> Data] /\ IsInjective(data)
  /\ pc = [t \in Threads |-> "idle"]
  /\ lhs = [t \in Threads |-> NoObject] /\ rhs = lhs /\ one = lhs
  /\ tmp = [t \in Threads |-> NoData]
  /\ calls = [t \in Threads |-> 0]

-------------------------------------------------------------------------

Go(t, from, to) ==
  /\ pc[t] = from
  /\ pc' = [pc EXCEPT ![t] = to]

other(t) == IF one[t] = lhs[t] THEN rhs[t] ELSE lhs[t]

\* if (&lhs == &rhs) return, before anything is locked.
swap_same(t, a, b) ==
  /\ pc[t] = "idle" /\ calls[t] < MaxCalls
  /\ a = b
  /\ calls' = [calls EXCEPT ![t] = @ + 1]
  /\ UNCHANGED <<mutex, data, pc, lhs, rhs, one, tmp>>

swap(t, a, b) ==
  /\ Go(t, "idle", "lock") /\ calls[t] < MaxCalls
  /\ a # b
  /\ calls' = [calls EXCEPT ![t] = @ + 1]
  /\ lhs' = [lhs EXCEPT ![t] = a]
  /\ rhs' = [rhs EXCEPT ![t] = b]
  /\ one' = [one EXCEPT ![t] = a]
  /\ UNCHANGED <<mutex, data, tmp>>

\* std::lock waits for the mutex of either of its arguments.
lock(t) ==
  /\ Go(t, "lock", "try")
  /\ \E o \in {lhs[t], rhs[t]} :
       /\ mutex[o] = NoThread
       /\ mutex' = [mutex EXCEPT ![o] = t]
       /\ one' = [one EXCEPT ![t] = o]
  /\ UNCHANGED <<data, lhs, rhs, tmp, calls>>

try_lock(t) ==
  /\ Go(t, "try", "save")
  /\ mutex[other(t)] = NoThread
  /\ mutex' = [mutex EXCEPT ![other(t)] = t]
  /\ UNCHANGED <<data, lhs, rhs, one, tmp, calls>>

\* Mutation: the thread waits for the other mutex and keeps the one it has.
back_off_never(t) ==
  /\ pc[t] = "try"
  /\ mutex[other(t)] # NoThread
  /\ UNCHANGED vars

\* The other mutex is taken: std::lock lets go of the one it has.
back_off(t) ==
  /\ Go(t, "try", "lock")
  /\ mutex[other(t)] # NoThread
  /\ mutex' = [mutex EXCEPT ![one[t]] = NoThread]
  /\ UNCHANGED <<data, lhs, rhs, one, tmp, calls>>

-------------------------------------------------------------------------

\* swap(lhs.data, rhs.data), in three moves.
save(t) ==
  /\ Go(t, "save", "copy")
  /\ tmp' = [tmp EXCEPT ![t] = data[lhs[t]]]
  /\ UNCHANGED <<mutex, data, lhs, rhs, one, calls>>

copy(t) ==
  /\ Go(t, "copy", "restore")
  /\ data' = [data EXCEPT ![lhs[t]] = data[rhs[t]]]
  /\ UNCHANGED <<mutex, lhs, rhs, one, tmp, calls>>

\* Mutation: the mutex of rhs is unlocked before the swap is complete.
restore_unlocked(t) ==
  /\ pc[t] = "restore"
  /\ \/ mutex[rhs[t]] = t /\ mutex' = [mutex EXCEPT ![rhs[t]] = NoThread]
        /\ UNCHANGED <<data, pc, one>>
     \/ mutex[rhs[t]] # t /\ data' = [data EXCEPT ![rhs[t]] = tmp[t]]
        /\ pc' = [pc EXCEPT ![t] = "unlock_other"] /\ one' = [one EXCEPT ![t] = lhs[t]]
        /\ UNCHANGED mutex
  /\ UNCHANGED <<lhs, rhs, tmp, calls>>

restore(t) ==
  /\ Go(t, "restore", "unlock")
  /\ data' = [data EXCEPT ![rhs[t]] = tmp[t]]
  /\ UNCHANGED <<mutex, lhs, rhs, one, tmp, calls>>

unlock(t) ==
  /\ Go(t, "unlock", "unlock_other")
  /\ \E o, p \in {lhs[t], rhs[t]} :
       /\ o # p
       /\ mutex' = [mutex EXCEPT ![o] = NoThread]
       /\ one' = [one EXCEPT ![t] = p]
  /\ UNCHANGED <<data, lhs, rhs, tmp, calls>>

unlock_other(t) ==
  /\ Go(t, "unlock_other", "idle")
  /\ mutex' = [mutex EXCEPT ![one[t]] = NoThread]
  /\ lhs' = [lhs EXCEPT ![t] = NoObject]
  /\ rhs' = [rhs EXCEPT ![t] = NoObject]
  /\ one' = [one EXCEPT ![t] = NoObject]
  /\ tmp' = [tmp EXCEPT ![t] = NoData]
  /\ UNCHANGED <<data, calls>>

\* What a thread does inside swap().
Inside(t) ==
  \/ lock(t) \/ try_lock(t) \/ back_off(t)
  \/ save(t) \/ copy(t) \/ restore(t) \/ unlock(t) \/ unlock_other(t)

Step(t) == Inside(t) \/ \E a, b \in Objects : swap_same(t, a, b) \/ swap(t, a, b)

Finished == (\A t \in Threads : pc[t] = "idle" /\ calls[t] = MaxCalls) /\ UNCHANGED vars

Next == (\E t \in Threads : Step(t)) \/ Finished

Spec == Init /\ [][Next]_vars

\* A thread inside swap() goes on in the end.  The std::try_lock of std::lock succeeds in the end
\* when the other mutex is free again and again: two threads do not back off from each other for
\* ever.
SwapFairness == \A t \in Threads : WF_vars(Inside(t)) /\ SF_vars(try_lock(t))

FairSwaps == Spec /\ SwapFairness

-------------------------------------------------------------------------

\* What each variable holds; a thread inside swap() swaps two different objects.
TypeOK ==
  /\ mutex \in [Objects -> Threads \cup {NoThread}]
  /\ data \in [Objects -> Data]
  /\ pc \in [Threads -> PCs]
  /\ lhs \in [Threads -> Objects \cup {NoObject}]
  /\ rhs \in [Threads -> Objects \cup {NoObject}]
  /\ one \in [Threads -> Objects \cup {NoObject}]
  /\ tmp \in [Threads -> Data \cup {NoData}]
  /\ calls \in [Threads -> 0 .. MaxCalls]
  /\ \A t \in Threads : one[t] \in {lhs[t], rhs[t]}
  /\ \A t \in Threads : pc[t] # "idle" => lhs[t] # rhs[t] /\ {lhs[t], rhs[t]} \subseteq Objects

\* The mutexes that t owns at each point of swap().
Holds(t) ==
  CASE pc[t] \in {"idle", "lock"} -> {}
    [] pc[t] = "try" -> {one[t]}
    [] pc[t] \in Both -> {lhs[t], rhs[t]}
    [] pc[t] = "unlock_other" -> {one[t]}

\* A thread owns exactly the mutexes that its place in swap() says: both from std::lock to the
\* first destructor, and none while it waits for one, which is why swap(a, b) and swap(b, a)
\* cannot deadlock (unique_lock.cpp lines 23 to 28, two_or_more_mutexes lines 19 to 25).
Guarded == \A t \in Threads, o \in Objects : mutex[o] = t <=> o \in Holds(t)

\* The object that t has overwritten and whose datum only tmp holds.
Overwritten(t, o) == pc[t] = "restore" /\ lhs[t] = o

\* The data as they were before the swaps that are under way.
Settled ==
  [o \in Objects |-> IF \E t \in Threads : Overwritten(t, o)
                     THEN tmp[CHOOSE t \in Threads : Overwritten(t, o)]
                     ELSE data[o]]

\* Every swap() comes to its end, although others swap the same objects in the other order, or
\* in a circle: nobody keeps one mutex for ever while it waits for another (unique_lock.cpp lines
\* 23 to 30, two_or_more_mutexes_no_deadlock.cpp lines 19 to 29).
SwapsReturn == \A t \in Threads : pc[t] # "idle" ~> pc[t] = "idle"

\* No datum is lost or doubled by swaps that overlap.
NothingLost == IsInjective(Settled)

\* swap() is atomic: it implements AtomicSwap.
A == INSTANCE AtomicSwap WITH settled <- Settled
SwapIsAtomic == A!Spec

=============================================================================
