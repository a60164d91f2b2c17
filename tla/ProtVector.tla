----------------------------- MODULE ProtVector -----------------------------
(***************************************************************************)
(* mutex.cpp: main() starts threads that add an element to a ProtVector,   *)
(* or show it on std::cout, in turn, and joins them in the same order.     *)
(***************************************************************************)
EXTENDS Naturals, Sequences, SequencesExt

CONSTANT Pairs   \* bound: how many threads of each kind, 3 in the source

ProtVectorAssumption == Pairs \in Nat \ {0}

Nobody == 0
Spawned == 1 .. 2 * Pairs

VARIABLES
  vec,       \* the elements; here each is the number of the thread that adds it
  mutex,     \* who owns the mutex
  pc,        \* where each thread stands
  elem,      \* how many elements each thread has shown
  line,      \* what std::cout has been given since the last std::endl
  lines,     \* history: the lines before
  main, i    \* where main() stands, and the thread it starts or joins next

vars == <<vec, mutex, pc, elem, line, lines, main, i>>

(***************************************************************************)
(* pc:   "unborn", "lock" lines 17 and 22, "push" 18, "show" 23 to 24,     *)
(*       "endl" 25, "unlock", "ended"                                      *)
(* main: "start" lines 35 to 40, "join" 42 to 47, "returned";              *)
(*       "terminated": std::terminate has ended the program                *)
(***************************************************************************)
Init ==
  /\ vec = <<>> /\ mutex = Nobody
  /\ pc = [t \in Spawned |-> "unborn"]
  /\ elem = [t \in Spawned |-> 0]
  /\ line = <<>> /\ lines = <<>>
  /\ main = "start" /\ i = 1

\* Threads 1, 3, 5 add, threads 2, 4, 6 show.
Adds(t) == t % 2 = 1

Go(t, from, to) == pc[t] = from /\ pc' = [pc EXCEPT ![t] = to]

\* Mutation: show() takes no lock.
lock_adders(t) ==
  /\ Go(t, "lock", IF Adds(t) THEN "push" ELSE "show")
  /\ Adds(t) => mutex = Nobody
  /\ mutex' = IF Adds(t) THEN t ELSE mutex
  /\ UNCHANGED <<vec, elem, line, lines, main, i>>

lock(t) ==
  /\ Go(t, "lock", IF Adds(t) THEN "push" ELSE "show")
  /\ mutex = Nobody
  /\ mutex' = t
  /\ UNCHANGED <<vec, elem, line, lines, main, i>>

push_back(t) ==
  /\ Go(t, "push", "unlock")
  /\ vec' = Append(vec, t)
  /\ UNCHANGED <<mutex, elem, line, lines, main, i>>

\* There is no memory for the element: std::bad_alloc leaves the function of the thread, which
\* ends the program.
push_back_fails(t) ==
  /\ pc[t] = "push"
  /\ main' = "terminated"
  /\ UNCHANGED <<vec, mutex, pc, elem, line, lines, i>>

\* One round of the loop over vec.
show(t) ==
  /\ pc[t] = "show" /\ elem[t] < Len(vec)
  /\ elem' = [elem EXCEPT ![t] = @ + 1]
  /\ line' = Append(line, vec[elem[t] + 1])
  /\ UNCHANGED <<vec, mutex, pc, lines, main, i>>

show_ends(t) ==
  /\ Go(t, "show", "endl") /\ elem[t] = Len(vec)
  /\ UNCHANGED <<vec, mutex, elem, line, lines, main, i>>

endl(t) ==
  /\ Go(t, "endl", "unlock")
  /\ lines' = Append(lines, line) /\ line' = <<>>
  /\ UNCHANGED <<vec, mutex, elem, main, i>>

unlock(t) ==
  /\ Go(t, "unlock", "ended")
  /\ mutex' = Nobody
  /\ UNCHANGED <<vec, elem, line, lines, main, i>>

Step(t) ==
  /\ main # "terminated"
  /\ \/ lock(t) \/ push_back(t) \/ push_back_fails(t) \/ show(t) \/ show_ends(t) \/ endl(t)
     \/ unlock(t)

\* main() goes on to the next thread, and after the last one to what comes then.
Onward(then) ==
  /\ i' = IF i = 2 * Pairs THEN 1 ELSE i + 1
  /\ main' = IF i = 2 * Pairs THEN then ELSE main

start ==
  /\ main = "start" /\ Go(i, "unborn", "lock") /\ Onward("join")
  /\ UNCHANGED <<vec, mutex, elem, line, lines>>

join ==
  /\ main = "join" /\ pc[i] = "ended" /\ Onward("returned")
  /\ UNCHANGED <<vec, mutex, pc, elem, line, lines>>

Main == start \/ join

Finished == main \in {"returned", "terminated"} /\ UNCHANGED vars

Next == Main \/ (\E t \in Spawned : Step(t)) \/ Finished

Spec == Init /\ [][Next]_vars

\* Every thread goes on in the end, and gets a mutex that others take once each.
FairSpec == Spec /\ WF_vars(Main) /\ \A t \in Spawned : WF_vars(Step(t))

-------------------------------------------------------------------------

\* While a thread holds iterators into vec, which push_back() would make invalid, vec stays as
\* it is (lines 18 and 23).
StillWhileRead == (\E t \in Spawned : pc[t] = "show") => UNCHANGED vec

\* Every line is what vec held at one moment, and the next line is of a later one: two show() do
\* not mix their elements, and none goes back behind another (lines 22 to 25).
LinesAreWhole ==
  /\ \A k \in 1 .. Len(lines) : IsPrefix(lines[k], IF k < Len(lines) THEN lines[k + 1] ELSE vec)
  /\ main = "returned" => Len(lines) = Pairs /\ ToSet(vec) = {t \in Spawned : Adds(t)}

\* main() has joined all threads (lines 42 to 48), or an exception has ended the program.
Over == main \in {"returned", "terminated"}

=============================================================================
