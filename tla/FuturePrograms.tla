--------------------------- MODULE FuturePrograms ---------------------------
(***************************************************************************)
(* The programs of Future/ in which threads talk through one promise and   *)
(* its future.  A program is a script per thread: the statements that the  *)
(* shared state of the promise, the shared data or another thread can      *)
(* tell, in the order of the source, with the destructors at the end of a  *)
(* scope.  The promise and the future are library objects; their           *)
(* operations are the actions below, one for each kind of statement.       *)
(*                                                                         *)
(* A statement that may throw carries the set of what its try block        *)
(* catches; anything else that is thrown ends the program.                 *)
(***************************************************************************)
EXTENDS Naturals, Sequences

CONSTANT Pushes   \* bound: how many values wait.cpp pushes, 1000 in the source

FutureAssumption == Pushes \in Nat

Threads == {"main", "t1", "t2"}

future_error == {"no_state", "satisfied", "broken"}
runtime_error == {"exception"}

-------------------------------------------------------------------------

promise_future_basic ==
  [main |-> << <<"start", "t1">>, <<"get", {}>>, <<"get", future_error>>, <<"join", "t1">> >>,
   t1   |-> << <<"set", "value", {}>>, <<"set", "43", future_error>>, <<"destroy">> >>,
   t2   |-> <<>>]

set_exception ==
  [main |-> << <<"start", "t1">>, <<"get", runtime_error>>, <<"join", "t1">> >>,
   t1   |-> << <<"set", "exception", {}>>, <<"destroy">> >>,
   t2   |-> <<>>]

packaged_task ==
  [main |-> << <<"start", "t1">>, <<"get", {}>>, <<"join", "t1">> >>,
   t1   |-> << <<"call">>, <<"destroy">> >>,
   t2   |-> <<>>]

\* work() throws nothing.  The shared state that std::async made joins its thread when it goes.
async ==
  [main |-> << <<"start", "t1">>, <<"get", {}>>, <<"join", "t1">> >>,
   t1   |-> << <<"set", "value", {}>> >>,
   t2   |-> <<>>]

\* The demo in the place of std::async, for a function that may throw: its thread is detached,
\* and nobody joins it.
async_demo ==
  [main |-> << <<"start", "t1">>, <<"get", {}>> >>,
   t1   |-> << <<"call">>, <<"destroy">> >>,
   t2   |-> <<>>]

\* t1 and t2 have a copy of the shared_future each.
shared_future ==
  [main |-> << <<"start", "t1">>, <<"start", "t2">>, <<"set", "value", {}>>,
               <<"join", "t2">>, <<"join", "t1">>, <<"destroy">> >>,
   t1   |-> << <<"get_shared", {}>> >>,
   t2   |-> << <<"get_shared", {}>> >>]

\* t1 and t2 have a reference to one future.
shared_future_fail ==
  [main |-> << <<"start", "t1">>, <<"start", "t2">>, <<"set", "value", {}>>,
               <<"join", "t2">>, <<"join", "t1">>, <<"destroy">> >>,
   t1   |-> << <<"get", {}>> >>,
   t2   |-> << <<"get", {}>> >>]

\* Mutation: the thread is notified before the vector is filled.
wait_cpp_early ==
  [main |-> << <<"start", "t1">>, <<"set", "value", {}>> >>
            \o [k \in 1 .. Pushes |-> <<"push">>] \o << <<"join", "t1">>, <<"destroy">> >>,
   t1   |-> << <<"wait">>, <<"sum">> >>,
   t2   |-> <<>>]

wait_cpp ==
  [main |-> << <<"start", "t1">> >> \o [k \in 1 .. Pushes |-> <<"push">>]
            \o << <<"set", "value", {}>>, <<"join", "t1">>, <<"destroy">> >>,
   t1   |-> << <<"wait">>, <<"sum">> >>,
   t2   |-> <<>>]

wait_for_cpp ==
  [main |-> << <<"start", "t1">>, <<"wait_for">>, <<"get", {}>>, <<"join", "t1">> >>,
   t1   |-> << <<"set", "value", {}>>, <<"destroy">> >>,
   t2   |-> <<>>]

Programs == {promise_future_basic, set_exception, packaged_task, async, async_demo, shared_future,
             shared_future_fail, wait_cpp, wait_for_cpp}

-------------------------------------------------------------------------

VARIABLES
  program,    \* the program that runs
  started,    \* the threads that were started
  at,         \* the statement each thread has come to
  result,     \* what the promise holds, "none" before it is satisfied
  valid,      \* does the future that the promise gave out still refer to the shared state?
  moved,      \* was the value moved out of the shared state?
  inside,     \* how far each thread is inside future.get()
  vector,     \* how many values main() has pushed
  got,        \* what each thread got out of its statements, or was thrown at it, in order
  terminated  \* the thread in which an exception escaped, "none" if there was none

future == <<valid, moved, inside>>
vars == <<program, started, at, result, future, vector, got, terminated>>

Init ==
  /\ program \in Programs
  /\ started = {"main"}
  /\ at = [t \in Threads |-> 1]
  /\ result = "none"
  /\ valid = TRUE /\ moved = FALSE
  /\ inside = [t \in Threads |-> "no"]
  /\ vector = 0
  /\ got = [t \in Threads |-> <<>>]
  /\ terminated = "none"

Ended(t) == at[t] > Len(program[t])

\* t is about to execute a statement of the given kind.  The program ends with main().
About(t, kind) ==
  /\ t \in started /\ terminated = "none" /\ ~Ended("main")
  /\ ~Ended(t)
  /\ program[t][at[t]][1] = kind
  /\ inside[t] = "no"

Statement(t) == program[t][at[t]]

Done(t) == at' = [at EXCEPT ![t] = @ + 1]

Gets(t, what) == got' = [got EXCEPT ![t] = Append(@, what)]

\* what is thrown at t, whose statement catches some of it.
Throw(t, what, caught) ==
  /\ Gets(t, what)
  /\ IF what \in caught
     THEN Done(t) /\ UNCHANGED terminated
     ELSE terminated' = t /\ UNCHANGED at

ready == result # "none"

start(t) ==
  /\ About(t, "start")
  /\ started' = started \cup {Statement(t)[2]}
  /\ Done(t)
  /\ UNCHANGED <<program, result, future, vector, got, terminated>>

join(t) ==
  /\ About(t, "join")
  /\ Ended(Statement(t)[2])
  /\ Done(t)
  /\ UNCHANGED <<program, started, result, future, vector, got, terminated>>

\* set_value() and set_exception(): only the first one counts.
set(t) ==
  /\ About(t, "set")
  /\ IF ready
     THEN Throw(t, "satisfied", Statement(t)[3]) /\ UNCHANGED result
     ELSE result' = Statement(t)[2] /\ Done(t) /\ UNCHANGED <<got, terminated>>
  /\ UNCHANGED <<program, started, future, vector>>

\* operator() of packaged_task: the value of the function, or what it throws, goes to the promise.
call(t) ==
  /\ About(t, "call")
  /\ result' \in {"value", "exception"}
  /\ Done(t)
  /\ UNCHANGED <<program, started, future, vector, got, terminated>>

\* The promise, or the task it is a member of, is destroyed.
destroy(t) ==
  /\ About(t, "destroy")
  /\ result' = IF ready THEN result ELSE "broken"
  /\ Done(t)
  /\ UNCHANGED <<program, started, future, vector, got, terminated>>

\* future.get() throws when the future is invalid, and waits otherwise.  When the shared state is
\* ready it throws the exception that is held there, or goes on.
get(t) ==
  /\ About(t, "get")
  /\ \/ ~valid /\ Throw(t, "no_state", Statement(t)[2]) /\ UNCHANGED future
     \/ /\ valid /\ result \in runtime_error \cup future_error
        /\ Throw(t, result, Statement(t)[2])
        /\ valid' = FALSE
        /\ UNCHANGED <<moved, inside>>
     \/ /\ valid /\ ready /\ result \notin runtime_error \cup future_error
        /\ inside' = [inside EXCEPT ![t] = "take"]
        /\ UNCHANGED <<at, got, terminated, valid, moved>>
  /\ UNCHANGED <<program, started, result, vector>>

\* Inside future.get(): the value is moved out.  Whoever comes second finds it gone, and its use
\* of it is undefined; here that ends the program.
get_takes(t) ==
  /\ terminated = "none" /\ ~Ended("main")
  /\ inside[t] = "take"
  /\ inside' = [inside EXCEPT ![t] = "reset"]
  /\ moved' = TRUE
  /\ Gets(t, IF moved THEN "gone" ELSE result)
  /\ terminated' = IF moved THEN t ELSE "none"
  /\ UNCHANGED <<program, started, at, result, valid, vector>>

\* Mutation: the future stays valid.
get_resets_nothing(t) ==
  /\ terminated = "none" /\ ~Ended("main")
  /\ inside[t] = "reset"
  /\ inside' = [inside EXCEPT ![t] = "no"]
  /\ Done(t)
  /\ UNCHANGED <<program, started, result, valid, moved, vector, got, terminated>>

\* At the end of future.get() the future becomes invalid.
get_resets(t) ==
  /\ terminated = "none" /\ ~Ended("main")
  /\ inside[t] = "reset"
  /\ inside' = [inside EXCEPT ![t] = "no"]
  /\ valid' = FALSE
  /\ Done(t)
  /\ UNCHANGED <<program, started, result, moved, vector, got, terminated>>

\* shared_future.get() waits and leaves the result where it is.
get_shared(t) ==
  /\ About(t, "get_shared") /\ ready
  /\ Gets(t, result)
  /\ Done(t)
  /\ UNCHANGED <<program, started, result, future, vector, terminated>>

wait(t) ==
  /\ About(t, "wait") /\ ready
  /\ Done(t)
  /\ UNCHANGED <<program, started, result, future, vector, got, terminated>>

\* Mutation: the test of the status is the wrong way round.
wait_for_inverted(t) ==
  /\ About(t, "wait_for")
  /\ \/ ready /\ UNCHANGED at
     \/ ~ready /\ Done(t)
  /\ UNCHANGED <<program, started, result, future, vector, got, terminated>>

\* The loop of wait_for.cpp: another round after a timeout, out of it when the result is ready.
wait_for(t) ==
  /\ About(t, "wait_for")
  /\ \/ ~ready /\ UNCHANGED at
     \/ ready /\ Done(t)
  /\ UNCHANGED <<program, started, result, future, vector, got, terminated>>

\* vector.push_back().
push(t) ==
  /\ About(t, "push")
  /\ vector' = vector + 1
  /\ Done(t)
  /\ UNCHANGED <<program, started, result, future, got, terminated>>

\* accumulate() over the vector.
sum(t) ==
  /\ About(t, "sum")
  /\ Gets(t, IF vector = Pushes THEN "sum" ELSE "part")
  /\ Done(t)
  /\ UNCHANGED <<program, started, result, future, vector, terminated>>

Step(t) == \/ start(t) \/ join(t) \/ set(t) \/ call(t) \/ destroy(t) \/ get(t) \/ get_takes(t)
           \/ get_resets(t) \/ get_shared(t) \/ wait(t) \/ wait_for(t) \/ push(t) \/ sum(t)

Finished == (Ended("main") \/ terminated # "none") /\ UNCHANGED vars

Next == (\E t \in Threads : Step(t)) \/ Finished

Spec == Init /\ [][Next]_vars

\* Every thread that is not blocked goes on in the end.
FairSpec == Spec /\ \A t \in Threads : WF_vars(Step(t))

-------------------------------------------------------------------------

\* What each program shows, however its threads are interleaved.
Shows ==
  {<<promise_future_basic, [main |-> <<"value", "no_state">>, t1 |-> <<"satisfied">>, t2 |-> <<>>]>>,
   <<set_exception, [main |-> <<"exception">>, t1 |-> <<>>, t2 |-> <<>>]>>,
   <<packaged_task, [main |-> <<"value">>, t1 |-> <<>>, t2 |-> <<>>]>>,
   <<async, [main |-> <<"value">>, t1 |-> <<>>, t2 |-> <<>>]>>,
   <<async_demo, [main |-> <<"value">>, t1 |-> <<>>, t2 |-> <<>>]>>,
   <<shared_future, [main |-> <<>>, t1 |-> <<"value">>, t2 |-> <<"value">>]>>,
   <<wait_cpp, [main |-> <<>>, t1 |-> <<"sum">>, t2 |-> <<>>]>>,
   <<wait_for_cpp, [main |-> <<"value">>, t1 |-> <<>>, t2 |-> <<>>]>>}

\* Every interleaving of a program gives the same results: the first value only, an error for
\* the second set_value() and the second get(), the exception of the other thread, the value in
\* both readers of a shared_future, the sum of the whole vector (promise_future_basic.cpp lines
\* 19 to 45, set_exception.cpp 33 to 40, shared_future.cpp 27 and 39, wait.cpp 35 to 41).
SameResults == Ended("main") => <<program, got>> \in Shows

\* No exception escapes from a thread or from main() (promise_future_basic.cpp lines 24 to 45,
\* set_exception.cpp 33 to 40), with two exceptions.  What the function of a packaged_task throws
\* does not end the thread it runs in but reaches main(), which does not catch it
\* (packaged_task.cpp lines 3 to 6 and 31 to 38, async.cpp 33 to 40).  In the program that shows
\* the race of two get() on one future one of them always fails, and main() never comes to its
\* end (shared_future_fail.cpp lines 20 and 30).
OnlyTheRaceFails ==
  /\ program \notin {shared_future_fail, packaged_task, async_demo} => terminated = "none"
  /\ program \in {packaged_task, async_demo} =>
       /\ terminated \in {"none", "main"}
       /\ terminated = "main" <=> "exception" \in {got["main"][k] : k \in 1 .. Len(got["main"])}
       /\ result = "exception" => ~Ended("main")
  /\ program = shared_future_fail => ~Ended("main")

\* The program has ended: main() is not left waiting for a result or a thread (wait_for.cpp lines
\* 49 to 57, packaged_task.cpp 54 to 57).
Over == Ended("main") \/ terminated # "none"

=============================================================================
