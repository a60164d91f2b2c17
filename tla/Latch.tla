------------------------------- MODULE Latch -------------------------------
(***************************************************************************)
(* foo() of LatchBarrier/latch.cpp: the main thread starts one             *)
(* asynchronous worker per element of data and meets them at a latch.      *)
(*                                                                         *)
(* The latch is a library object (std::experimental::latch).  It is made   *)
(* with thread_count but decremented thread_count + 1 times: once by every *)
(* worker and once by count_down_and_wait().  Decrementing it at zero is   *)
(* undefined; here it either stays at zero or wraps below, after which it  *)
(* is not ready any more.                                                  *)
(***************************************************************************)
EXTENDS Integers

CONSTANT thread_count

ThreadCountAssumption == thread_count \in Nat \ {0}

Workers == 0 .. thread_count - 1

VARIABLES
  count,   \* the counter of the latch done; -1 after wrapping below zero
  data,    \* has data[i] been made?
  main,    \* where foo() stands
  i,       \* its loop variable; later, the future it is destroying
  worker   \* where each worker stands

vars == <<count, data, main, i, worker>>

(***************************************************************************)
(* main:   "spawn"  the loop       "test"  is_ready()     "quick"  line 40 *)
(*         "count_down"  and then "wait"  inside count_down_and_wait()     *)
(*         "wait_again"  line 48   "process"  line 52                      *)
(*         "join"  destroying the vector of futures       "returned"       *)
(* worker: "unborn", "make" line 30, "count_down" line 33, "further" line  *)
(*         35, "finished"                                                  *)
(***************************************************************************)
is_ready == count = 0

\* Mutation: the latch is made for every worker but one.
Init_one_short ==
  /\ count = thread_count - 1
  /\ data = [w \in Workers |-> FALSE]
  /\ main = "spawn" /\ i = 0
  /\ worker = [w \in Workers |-> "unborn"]

Init ==
  /\ count = thread_count
  /\ data = [w \in Workers |-> FALSE]
  /\ main = "spawn" /\ i = 0
  /\ worker = [w \in Workers |-> "unborn"]

-------------------------------------------------------------------------

\* One decrement of the latch, by whichever thread.
decrement ==
  IF count > 0 THEN count' = count - 1 ELSE count' \in {count, -1}

Step(from, to) == main = from /\ main' = to

Go(w, from, to) ==
  /\ worker[w] = from
  /\ worker' = [worker EXCEPT ![w] = to]

\* threads.push_back(std::async(std::launch::async, ...)).
spawn ==
  /\ main = "spawn" /\ i < thread_count
  /\ worker' = [worker EXCEPT ![i] = "make"]
  /\ i' = i + 1
  /\ UNCHANGED <<count, data, main>>

all_spawned ==
  /\ Step("spawn", "test") /\ i = thread_count
  /\ i' = 0
  /\ UNCHANGED <<count, data, worker>>

makeData(w) ==
  /\ Go(w, "make", "count_down")
  /\ data' = [data EXCEPT ![w] = TRUE]
  /\ UNCHANGED <<count, main, i>>

count_down(w) ==
  /\ Go(w, "count_down", "further")
  /\ decrement
  /\ UNCHANGED <<data, main, i>>

furtherWork(w) ==
  /\ Go(w, "further", "finished")
  /\ UNCHANGED <<count, data, main, i>>

\* if (done.is_ready()).
test ==
  /\ main = "test"
  /\ main' = IF is_ready THEN "quick" ELSE "count_down"
  /\ UNCHANGED <<count, data, i, worker>>

quickProcessData ==
  /\ Step("quick", "count_down")
  /\ UNCHANGED <<count, data, i, worker>>

count_down_and_wait ==
  /\ Step("count_down", "wait")
  /\ decrement
  /\ UNCHANGED <<data, i, worker>>

released ==
  /\ Step("wait", "wait_again")
  /\ is_ready
  /\ UNCHANGED <<count, data, i, worker>>

\* done.wait().
wait ==
  /\ Step("wait_again", "process")
  /\ is_ready
  /\ UNCHANGED <<count, data, i, worker>>

processData ==
  /\ Step("process", "join")
  /\ UNCHANGED <<count, data, i, worker>>

\* The destructor of a future that std::async returned waits for its thread.
join_future ==
  /\ main = "join" /\ i < thread_count
  /\ worker[i] = "finished"
  /\ i' = i + 1
  /\ UNCHANGED <<count, data, main, worker>>

\* After the futures, data and done are destroyed and foo() returns.
return ==
  /\ Step("join", "returned") /\ i = thread_count
  /\ UNCHANGED <<count, data, i, worker>>

Main == \/ spawn \/ all_spawned \/ test \/ quickProcessData \/ count_down_and_wait
        \/ released \/ wait \/ processData \/ join_future \/ return

Worker(w) == makeData(w) \/ count_down(w) \/ furtherWork(w)

\* Nothing happens any more once foo() has returned, or waits for ever on a latch that has
\* wrapped below zero; that it is Over says that it waits for no other reason.
Stopped ==
  /\ \/ main = "returned"
     \/ main \in {"wait", "wait_again"} /\ ~is_ready
  /\ \A w \in Workers : worker[w] = "finished"
  /\ UNCHANGED vars

Next == Main \/ (\E w \in Workers : Worker(w)) \/ Stopped

Spec == Init /\ [][Next]_vars

\* Every thread is scheduled again and again, and a wait on a ready latch returns.
FairSpec == Spec /\ WF_vars(Main) /\ \A w \in Workers : WF_vars(Worker(w))

-------------------------------------------------------------------------

Made == {w \in Workers : data[w]}

\* quickProcessData() runs on complete data only: the main thread has not counted down yet, so
\* a ready latch means that every worker has (line 39).  processData() may miss the datum of one
\* worker, the one for which the main thread counted down, and never two (lines 44 to 52).
EnoughData ==
  /\ main = "quick" => Made = Workers
  /\ main \in {"process", "join"} => \A v, w \in Workers \ Made : v = w

\* foo() has returned, or the decrement below zero made the latch wait again (lines 44 and 48).
Over == main = "returned" \/ count = -1

=============================================================================
