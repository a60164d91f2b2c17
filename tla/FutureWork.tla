----------------------------- MODULE FutureWork -----------------------------
(***************************************************************************)
(* The programs of Future/ (FuturePrograms) and the two computations that  *)
(* the repository hands to a future: the counting of Busy, which those     *)
(* programs run in their threads, and the quick sort, whose parallel form  *)
(* keeps a part in a future.  The programs do not depend on what the       *)
(* computations do inside and share nothing with them; one of the three is *)
(* chosen and runs, and the variables that it does not have are Absent.    *)
(***************************************************************************)
EXTENDS Naturals

CONSTANTS
  Pushes,                        \* of FuturePrograms
  Values, MaxLen,                \* of QuickSort
  WordSize, MaxOperand, Draws,   \* of Busy
  Absent

VARIABLES
  chosen,                                                          \* what runs
  program, started, at, result, valid, moved, inside, vector, got, terminated,
                                                                   \* of FuturePrograms
  Value, calls, returned,                                          \* of QuickSort
  n, i, sqroot, counter, drawn, pc                                 \* of Busy

F == INSTANCE FuturePrograms
Q == INSTANCE QuickSort
W == INSTANCE Busy

ASSUME WorkAssumption == F!FutureAssumption /\ Q!QuickSortAssumption /\ W!BusyAssumption

programVars ==
  <<program, started, at, result, valid, moved, inside, vector, got, terminated>>
sortVars == <<Value, calls, returned>>
busyVars == <<n, i, sqroot, counter, drawn, pc>>
vars == <<chosen, programVars, sortVars, busyVars>>

NoProgram ==
  /\ program = Absent /\ started = Absent /\ at = Absent /\ result = Absent
  /\ valid = Absent /\ moved = Absent /\ inside = Absent
  /\ vector = Absent /\ got = Absent /\ terminated = Absent

NoSort == Value = Absent /\ calls = Absent /\ returned = Absent

NoCount ==
  /\ n = Absent /\ i = Absent /\ sqroot = Absent
  /\ counter = Absent /\ drawn = Absent /\ pc = Absent

Init ==
  \/ chosen = "program" /\ F!Init /\ NoSort /\ NoCount
  \/ chosen = "sort" /\ Q!Init /\ NoProgram /\ NoCount
  \/ chosen = "busy" /\ W!Init /\ NoProgram /\ NoSort

Next ==
  /\ UNCHANGED chosen
  /\ \/ chosen = "program" /\ F!Next /\ UNCHANGED <<sortVars, busyVars>>
     \/ chosen = "sort" /\ Q!Next /\ UNCHANGED <<programVars, busyVars>>
     \/ chosen = "busy" /\ W!Next /\ UNCHANGED <<programVars, sortVars>>

Spec == Init /\ [][Next]_vars

\* The fairness of what runs.
FairSpec ==
  /\ Spec
  /\ \A t \in F!Threads : WF_programVars(chosen = "program" /\ F!Step(t))
  /\ WF_sortVars(chosen = "sort" /\ Q!Next)
  /\ WF_busyVars(chosen = "busy" /\ W!Next)

-------------------------------------------------------------------------

\* The results of the programs of Future/ do not depend on the interleaving of their threads
\* (promise_future_basic.cpp, set_exception.cpp, packaged_task.cpp, async.cpp, shared_future.cpp,
\* wait.cpp, wait_for.cpp).
SameResults == chosen = "program" => F!SameResults

\* No exception escapes in them but in the race of shared_future_fail.cpp and from the function
\* of a packaged_task (packaged_task.cpp, lines 31 to 38).
OnlyTheRaceFails == chosen = "program" => F!OnlyTheRaceFails

\* A quick sort returns its nodes in order, every one of them once (quick_sort.cpp, lines 13 to 40).
ReturnsSorted == chosen = "sort" => Q!ReturnsSorted

\* Busy counts every prime beyond 3, and what else it counts has its root as its least divisor
\* (Busy.h, lines 9 to 18).
CountsBelowRoot == [][chosen = "busy" => W!CountsBelowRoot]_vars

\* Every program of Future/, every sort and every count ends.
ProgramEnds ==
  <>(\/ chosen = "program" /\ F!Over
     \/ chosen = "sort" /\ Q!Over
     \/ chosen = "busy" /\ W!Over)

=============================================================================
