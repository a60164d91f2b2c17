---------------------------- MODULE ThreadOwners ----------------------------
(***************************************************************************)
(* The two classes that own a std::thread, side by side in one program:    *)
(* JThread (JThread.h), which tests before it joins, and Thread            *)
(* (thread_guard.cpp), which does not.                                     *)
(***************************************************************************)
EXTENDS JThread, ThreadGuard

CONSTANT Guards   \* the objects of class Thread; the others are JThreads

ASSUME GuardAssumption == Guards \subseteq Objects

Next ==
  \/ \E t \in Threads : Finish(t)
  \/ JThreadNext(Objects \ Guards)
  \/ GuardNext(Guards)

Spec == Init /\ [][Next]_vars

-------------------------------------------------------------------------

\* An object that goes away, or whose thread is replaced, has waited for its thread (JThread.h,
\* lines 22 to 44, and thread_guard.cpp, lines 14 to 25): when a std::thread lets go of a thread,
\* the thread has finished, or has another owner then, or the user has called detach().
WaitsBeforeLetGo ==
  [][\A o \in Holders : joinable(o) /\ thread'[o] # thread[o] =>
       \/ thread[o] \in finished
       \/ \E p \in Holders : thread'[p] = thread[o]
       \/ call = "idle" /\ detached' = detached \cup {thread[o]}]_vars

\* std::terminate has one way in: a Thread that holds no thread is destroyed (line 24 of
\* thread_guard.cpp).  The joins before the assignments and at the begin of the destructors leave
\* no std::thread that is joinable when it is overwritten or destroyed, whichever object is
\* assigned to which, itself included, and the parameter of operator= is empty when it goes
\* (JThread.h, lines 22 to 44, thread_guard.cpp, lines 14 to 25).
OnlyEmptyGuardTerminates ==
  terminated => call = "destroy" /\ self \in Guards /\ ~joinable(self)

=============================================================================
