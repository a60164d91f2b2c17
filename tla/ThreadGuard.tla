---------------------------- MODULE ThreadGuard ----------------------------
(***************************************************************************)
(* class Thread (thread_guard.cpp): a std::thread that must be joinable    *)
(* when the object is made, and that the destructor and the assignment     *)
(* join without a test.                                                    *)
(***************************************************************************)
EXTENDS StdThread

\* Thread(std::thread) with a running thread.
guard_construct(o, t) == New(o) /\ Start(o, t) /\ UNCHANGED frame

\* Thread(std::thread) with an empty one throws: there is no object.
guard_construct_empty(o) == call = "idle" /\ o \notin alive /\ UNCHANGED vars

\* Thread(Thread&&) = default: p is left without a thread.
guard_construct_move(o, p) == New(o) /\ p \in alive /\ Take(o, p) /\ UNCHANGED frame

\* operator=(Thread&&) is called, perhaps with o itself.
guard_assign(o, p) ==
  /\ Ready(o) /\ p \in alive
  /\ Begin("assign", o, p)
  /\ UNCHANGED <<alive, thread, running, finished, released, terminated>>

\* ~Thread() is called.
guard_destroy(o) ==
  /\ Ready(o)
  /\ Begin("destroy", o, NoObject)
  /\ UNCHANGED <<alive, thread, running, finished, released, terminated>>

\* t.join() in the assignment and in the destructor.
guard_join(o) ==
  /\ self = o /\ (Go("assign", "move") \/ Go("destroy", "member"))
  /\ Join(o)

\* t.join() throws when o has no thread.  The assignment is left, and nothing has changed.
guard_assign_throws(o) ==
  /\ call = "assign" /\ self = o /\ ~joinable(o)
  /\ Return
  /\ UNCHANGED <<alive, thread, running, finished, released, terminated>>

\* The exception leaves the destructor, which is noexcept.
guard_destroy_throws(o) ==
  /\ call = "destroy" /\ self = o /\ ~joinable(o) /\ ~terminated
  /\ Terminate

\* The operations on a set S of Thread objects.
GuardNext(S) ==
  \E o \in S :
    \/ guard_construct_empty(o) \/ guard_destroy(o)
    \/ \E t \in Threads : guard_construct(o, t)
    \/ \E p \in S : guard_construct_move(o, p) \/ guard_assign(o, p)
    \/ guard_join(o) \/ guard_assign_throws(o) \/ guard_destroy_throws(o)
    \/ move_assign(o) \/ leave(o) \/ destroy_member(o)

=============================================================================
