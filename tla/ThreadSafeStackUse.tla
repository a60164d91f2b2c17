------------------------ MODULE ThreadSafeStackUse ------------------------
(***************************************************************************)
(* ThreadSafeStack_use.cpp: main() fills a stack with pairs of operands    *)
(* and starts threads that run work(): while the stack is not empty, pop a *)
(* pair and print its product.  The stack is used through its abstract     *)
(* operations (AtomicStack), which ThreadSafeStack implements.             *)
(*                                                                         *)
(* work() asks empty() and then calls pop(): between the two calls another *)
(* worker may take the last pair, and pop() then throws empty_stack, which *)
(* nothing catches.                                                        *)
(***************************************************************************)
EXTENDS AtomicStack, FiniteSets

CONSTANTS
  n_threads,     \* the number of workers
  n_iterations   \* the number of pairs, named 1 .. n_iterations here

ASSUME UseAssumption ==
  /\ n_threads \in Nat
  /\ Threads = 1 .. n_threads
  /\ n_iterations \in Nat
  /\ Values = 1 .. n_iterations

VARIABLES
  pc,        \* where each worker stands in work()
  main,      \* where main() stands
  started,   \* how many workers main() has started
  joined,    \* how many the destructor of the vector has joined
  printed,   \* how often each pair has been printed
  aborted    \* std::terminate has run

useVars == <<pc, main, started, joined, printed, aborted>>
vars == <<stack, result, useVars>>

Goto(t, label) == pc' = [pc EXCEPT ![t] = label]

-------------------------------------------------------------------------

\* while(!stack.empty()).
work_tests(t) ==
  /\ pc[t] = "test"
  /\ IsEmpty(t)
  /\ Goto(t, IF stack = <<>> THEN "returned" ELSE "pop")
  /\ UNCHANGED <<main, started, joined, printed, aborted>>

\* Mutation: the top is read and stays on the stack.
work_peeks(t) ==
  /\ pc[t] = "pop"
  /\ stack # <<>>
  /\ Returns(t, "popped", <<Top>>)
  /\ Goto(t, "print")
  /\ UNCHANGED <<stack, main, started, joined, printed, aborted>>

\* stack.pop(a_b).
work_pops(t) ==
  /\ pc[t] = "pop"
  /\ Pop(t)
  /\ Goto(t, "print")
  /\ UNCHANGED <<main, started, joined, printed, aborted>>

\* Mutation: the exception is caught and pop() is called again.
work_retries(t) ==
  /\ pc[t] = "pop"
  /\ Underflow(t)
  /\ UNCHANGED useVars

\* stack.pop(a_b) throws empty_stack out of the thread function.
work_throws(t) ==
  /\ pc[t] = "pop"
  /\ Underflow(t)
  /\ aborted' = TRUE
  /\ UNCHANGED <<pc, main, started, joined, printed>>

\* The product is computed and printed.
work_prints(t) ==
  /\ pc[t] = "print"
  /\ printed' = [printed EXCEPT ![result[t].vals[1]] = @ + 1]
  /\ Goto(t, "test")
  /\ UNCHANGED <<stack, result, main, started, joined, aborted>>

\* threads.emplace_back(work, std::ref(stack)).
main_starts ==
  /\ main = "starting"
  /\ started < n_threads
  /\ started' = started + 1
  /\ Goto(started + 1, "test")
  /\ UNCHANGED <<stack, result, main, joined, printed, aborted>>

main_started ==
  /\ main = "starting"
  /\ started = n_threads
  /\ main' = "joining"
  /\ UNCHANGED <<stack, result, pc, started, joined, printed, aborted>>

\* Mutation: the elements of the vector do not join when they are destroyed.
main_joins_nothing ==
  /\ main = "joining"
  /\ joined < n_threads
  /\ joined' = joined + 1
  /\ UNCHANGED <<stack, result, pc, main, started, printed, aborted>>

\* The vector is destroyed before the stack: each ~JThread() joins.
main_joins ==
  /\ main = "joining"
  /\ joined < n_threads
  /\ pc[joined + 1] = "returned"
  /\ joined' = joined + 1
  /\ UNCHANGED <<stack, result, pc, main, started, printed, aborted>>

\* The stack is destroyed and main() returns.
main_returns ==
  /\ main = "joining"
  /\ joined = n_threads
  /\ main' = "returned"
  /\ UNCHANGED <<stack, result, pc, started, joined, printed, aborted>>

\* n_iterations pairs are pushed by one thread; a copy of the stack is
\* returned.
makeStack == [i \in 1 .. n_iterations |-> i]

UseInit ==
  /\ stack = makeStack
  /\ result = [t \in Threads |-> Result("none", <<>>)]
  /\ pc = [t \in Threads |-> "unborn"]
  /\ main = "starting"
  /\ started = 0 /\ joined = 0
  /\ printed = [v \in Values |-> 0]
  /\ aborted = FALSE

work(t) == work_tests(t) \/ work_pops(t) \/ work_throws(t) \/ work_prints(t)

main_runs == main_starts \/ main_started \/ main_joins \/ main_returns

Terminating == (aborted \/ main = "returned") /\ UNCHANGED vars

UseNext ==
  \/ ~aborted /\ (main_runs \/ \E t \in Threads : work(t))
  \/ Terminating

\* Every thread gets the processor.
UseSpec ==
  /\ UseInit /\ [][UseNext]_vars
  /\ WF_vars(~aborted /\ main_runs)
  /\ \A t \in Threads : WF_vars(~aborted /\ work(t))

-------------------------------------------------------------------------
(* Properties.                                                             *)

\* However the workers interleave, each pair is in the stack, or in the hands
\* of one worker, or printed once.
EachOnce ==
  \A v \in Values :
    printed[v] + Cardinality({t \in Threads : pc[t] = "print" /\ result[t].vals[1] = v})
    + Cardinality({i \in 1 .. Len(stack) : stack[i] = v}) = 1

\* The stack outlives the workers that hold a reference to it.
StackOutlivesWorkers ==
  main = "returned" => \A t \in Threads : pc[t] \in {"unborn", "returned"}

\* The process ends, one way or the other.
Ends == <>(aborted \/ main = "returned")

\* "Create and start threads to do the computation": the threads do the
\* computation, and the process ends with main().
Computes == <>(main = "returned")

=========================================================================
