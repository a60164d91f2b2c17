-------------------------- MODULE LevelMutexUse --------------------------
(***************************************************************************)
(* LevelMutex_use.cpp: threads that run foo() and bar() under nested       *)
(* std::lock_guard<LevelMutex>.  A guard is a lock() in its constructor    *)
(* and an unlock() in its destructor, so every step here is a step of      *)
(* LevelMutex by a thread that follows its function.                       *)
(*                                                                         *)
(* main() starts bar() only, the line that starts foo() is commented out;  *)
(* the module lets any number of threads run either.                       *)
(***************************************************************************)
EXTENDS LevelMutex

CONSTANTS mtx1, mtx2, mtx3, mtx4, mtx5   \* the LevelMutex objects of the file

end == "end"   \* a statement of a function that is no mutex

\* The objects and their constructors (lines 6 to 10).
ASSUME UseAssumption ==
  /\ {mtx1, mtx2, mtx3, mtx4, mtx5} \subseteq Mutexes /\ end \notin Mutexes
  /\ mtx1 # mtx2
  /\ mutex_level[mtx1] = 10 /\ mutex_level[mtx2] = 10
  /\ mutex_level[mtx3] = 30 /\ mutex_level[mtx4] = 40 /\ mutex_level[mtx5] = 50

VARIABLES
  function,  \* foo or bar, what each thread runs
  pos,       \* the statement each thread is at
  guards,    \* the lock_guards it has constructed, innermost last
  unwinding, \* it is leaving the function with an exception
  aborted    \* std::terminate has run

useVars == <<function, pos, guards, unwinding, aborted>>
allVars == <<vars, useVars>>

-------------------------------------------------------------------------
(* The functions.  "end" closes the scope of the innermost guard.          *)

\* Mutation: bar() takes mtx5 before mtx4.
bar_misordered == <<mtx1, mtx3, end, mtx5, mtx4, end, end, end>>

foo == <<mtx1, mtx3, mtx2, end, end, end>>

bar == <<mtx1, mtx3, end, mtx4, mtx5, end, end, end>>

body(t) == function[t]

running(t) == ~aborted /\ ~unwinding[t] /\ pos[t] <= Len(body(t))
at_guard(t) == running(t) /\ body(t)[pos[t]] # end
at_end(t) == running(t) /\ body(t)[pos[t]] = end
finished(t) == pos[t] > Len(body(t))

\* The destructor of the innermost guard is next.
leaving(t) == guards[t] # <<>> /\ (at_end(t) \/ (unwinding[t] /\ ~aborted))
innermost(t) == guards[t][Len(guards[t])]

-------------------------------------------------------------------------

\* The constructor of a guard calls lock().
guard_enter(t) ==
  /\ at_guard(t)
  /\ lock(t, body(t)[pos[t]]) \/ lock_throws(t, body(t)[pos[t]])
  /\ UNCHANGED useVars

\* mtx.lock() returns, or push_back throws, inside the constructor.
guard_continues(t) ==
  /\ at_guard(t)
  /\ lock_acquired(t) \/ lock_leaks(t)
  /\ UNCHANGED useVars

\* The guard is constructed.
guard_constructed(t) ==
  /\ at_guard(t)
  /\ lock_returns(t)
  /\ guards' = [guards EXCEPT ![t] = Append(@, target[t])]
  /\ pos' = [pos EXCEPT ![t] = @ + 1]
  /\ UNCHANGED <<function, unwinding, aborted>>

\* No function of the file catches: the constructor's exception leaves the
\* thread function.  It is implementation-defined whether the stack is
\* unwound before std::terminate.
guard_throws(t) ==
  /\ at_guard(t)
  /\ pc[t] = "threw"
  /\ \/ /\ aborted' = TRUE
        /\ UNCHANGED <<vars, unwinding>>
     \/ /\ unwinding' = [unwinding EXCEPT ![t] = TRUE]
        /\ resume(t)
        /\ UNCHANGED aborted
  /\ UNCHANGED <<function, pos, guards>>

\* The destructor of the innermost guard calls unlock().  It is
\* noexcept: were unlock() to throw here (DestructorsNeverThrow) the process
\* would be terminated.
guard_leave(t) ==
  /\ leaving(t)
  /\ unlock(t, innermost(t))
  /\ UNCHANGED useVars

\* mtx.unlock() returns and the guard is gone.
guard_destroyed(t) ==
  /\ leaving(t)
  /\ unlock_returns(t)
  /\ guards' = [guards EXCEPT ![t] = SubSeq(@, 1, Len(@) - 1)]
  /\ pos' = IF unwinding[t] THEN pos ELSE [pos EXCEPT ![t] = @ + 1]
  /\ UNCHANGED <<function, unwinding, aborted>>

\* Mutation: the thread is gone and nobody notices.
thread_dies_silently(t) ==
  /\ unwinding[t]
  /\ UNCHANGED allVars

\* The exception has left the thread function.
thread_dies(t) ==
  /\ unwinding[t]
  /\ ~aborted
  /\ guards[t] = <<>>
  /\ aborted' = TRUE
  /\ UNCHANGED <<vars, function, pos, guards, unwinding>>

UseInit ==
  /\ Init
  /\ function \in [Threads -> {foo, bar}]
  /\ pos = [t \in Threads |-> 1]
  /\ guards = [t \in Threads |-> <<>>]
  /\ unwinding = [t \in Threads |-> FALSE]
  /\ aborted = FALSE

Step(t) ==
  \/ guard_enter(t)
  \/ guard_continues(t)
  \/ guard_constructed(t)
  \/ guard_throws(t)
  \/ guard_leave(t)
  \/ guard_destroyed(t)
  \/ thread_dies(t)

\* The process is over, or every thread has been joined.
Terminating ==
  /\ aborted \/ \A t \in Threads : finished(t)
  /\ UNCHANGED allVars

UseNext == Terminating \/ \E t \in Threads : Step(t)

\* Every thread gets the processor.  Each makes finitely many calls, so a
\* mutex that is waited for is not taken away for ever.
UseSpec == UseInit /\ [][UseNext]_allVars /\ \A t \in Threads : WF_allVars(Step(t))

-------------------------------------------------------------------------
(* Properties.                                                             *)

\* Whether it leaves its scopes normally or with an exception, a thread
\* destroys its guards in an order in which unlock() does not throw; it
\* would be std::terminate, the destructor of lock_guard is noexcept.
DestructorsNeverThrow ==
  \A t \in Threads :
    leaving(t) /\ pc[t] = "idle" =>
      innermost(t) \in held[t] /\ is_current(t, innermost(t))

\* "mtx2 and mtx1 are of the same level": the third guard of foo() always fails, and foo() never
\* gets to its end.  Nothing else fails but the allocation: bar() goes up and down the levels
\* without a violation, whatever the other threads hold.
OnlyFooFails ==
  \A t \in Threads :
    /\ function[t] = foo => pos[t] <= 3 /\ mtx2 \notin held[t]
    /\ pc[t] = "threw" => \/ function[t] = foo /\ pos[t] = 3
                          \/ \E m \in Mutexes : mtx[m] = t /\ m \notin held[t]

\* The process ends: no thread waits for ever, not even for a mutex that a
\* failed push_back left locked, because that failure ends the process.
Terminates == <>(aborted \/ \A t \in Threads : finished(t))

=========================================================================
