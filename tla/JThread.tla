------------------------------ MODULE JThread ------------------------------
(***************************************************************************)
(* class JThread (JThread.h): a std::thread that is joined before it is    *)
(* overwritten or destroyed.                                               *)
(***************************************************************************)
EXTENDS StdThread

\* JThread().
construct(o) ==
  /\ New(o)
  /\ UNCHANGED <<thread, running, finished, released, frame, terminated>>

\* JThread(callable, args...), or JThread(std::thread) with a new thread.
construct_callable(o, t) == New(o) /\ Start(o, t) /\ UNCHANGED frame

\* Mutation: the other object keeps its thread.
construct_move_keeps(o, p) ==
  /\ New(o) /\ p \in alive
  /\ thread' = [thread EXCEPT ![o] = thread[p]]
  /\ UNCHANGED <<running, finished, released, frame, terminated>>

\* JThread(JThread&&), or JThread(std::thread) with the as_thread() of another object.
construct_move(o, p) == New(o) /\ p \in alive /\ Take(o, p) /\ UNCHANGED frame

\* operator=(JThread&&) is called, perhaps with o itself.
assign(o, p) ==
  /\ Ready(o) /\ p \in alive
  /\ Begin("assign", o, p)
  /\ UNCHANGED <<alive, thread, running, finished, released, terminated>>

\* Mutation: operator=(std::thread) does not call testJoin().
assign_callable_untested(o, t) ==
  /\ Ready(o)
  /\ Begin("move", o, Parameter) /\ Start(Parameter, t)
  /\ UNCHANGED alive

\* operator=(std::thread) is called with a new thread, which runs before the old one is joined.
assign_callable(o, t) ==
  /\ Ready(o)
  /\ Begin("assign", o, Parameter) /\ Start(Parameter, t)
  /\ UNCHANGED alive

\* operator=(std::thread) is called with the as_thread() of an object, perhaps of o itself: the
\* parameter takes its thread.
assign_as_thread(o, p) ==
  /\ Ready(o) /\ p \in alive
  /\ Begin("assign", o, Parameter) /\ Take(Parameter, p)
  /\ UNCHANGED alive

\* ~JThread() is called.
destroy(o) ==
  /\ Ready(o)
  /\ Begin("destroy", o, NoObject)
  /\ UNCHANGED <<alive, thread, running, finished, released, terminated>>

\* Mutation: the thread is detached instead.
testJoin_detaches(o) ==
  /\ self = o /\ (Go("assign", "move") \/ Go("destroy", "member"))
  /\ detached' = IF joinable(o) THEN detached \cup {thread[o]} ELSE detached
  /\ thread' = [thread EXCEPT ![o] = NoThread]
  /\ UNCHANGED <<alive, running, finished, joined, terminated>>

\* In the assignments and the destructor.
testJoin(o) ==
  /\ self = o /\ (Go("assign", "move") \/ Go("destroy", "member"))
  /\ IF joinable(o) THEN Join(o)
     ELSE UNCHANGED <<alive, thread, running, finished, released, terminated>>

swap(o, p) ==
  /\ Ready(o) /\ p \in alive
  /\ thread' = [thread EXCEPT ![o] = thread[p], ![p] = thread[o]]
  /\ UNCHANGED <<alive, running, finished, released, frame, terminated>>

\* join() throws when there is nothing to join, and changes nothing then.
join(o) == Ready(o) /\ joinable(o) /\ Join(o) /\ UNCHANGED frame

detach(o) ==
  /\ Ready(o) /\ joinable(o)
  /\ detached' = detached \cup {thread[o]}
  /\ thread' = [thread EXCEPT ![o] = NoThread]
  /\ UNCHANGED <<alive, running, finished, joined, frame, terminated>>

\* The operations on a set S of JThread objects.
JThreadNext(S) ==
  \E o \in S :
    \/ construct(o) \/ join(o) \/ detach(o) \/ destroy(o)
    \/ \E t \in Threads : construct_callable(o, t) \/ assign_callable(o, t)
    \/ \E p \in S : construct_move(o, p) \/ assign(o, p) \/ assign_as_thread(o, p) \/ swap(o, p)
    \/ testJoin(o) \/ move_assign(o) \/ leave(o) \/ destroy_member(o)

=============================================================================
