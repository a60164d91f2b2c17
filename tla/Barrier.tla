------------------------------ MODULE Barrier ------------------------------
(***************************************************************************)
(* process_data() of LatchBarrier/barrier.cpp: n_threads threads process   *)
(* the blocks of a source in rounds; thread 0 splits each block and writes *)
(* each result, and a barrier separates its serial work from the parallel  *)
(* work of all.  The barrier (std::experimental::barrier) and the source   *)
(* and the sink are library or client objects.                             *)
(*                                                                         *)
(* process_data() itself only starts the threads.  When it ends it         *)
(* destroys result and chunks, and only then threads, which joins:         *)
(* result and chunks are declared after threads and the threads use them   *)
(* by reference.  The use of a destroyed object is undefined: undefined    *)
(* is set, and what comes after is not modelled.                           *)
(***************************************************************************)
EXTENDS Naturals, Sequences

CONSTANTS
  n_threads,
  Blocks     \* bound: how many blocks the source has

BarrierAssumption == n_threads \in Nat \ {0} /\ Blocks \in Nat

Threads == 0 .. n_threads - 1

NoBlock == 0

VARIABLES
  taken,      \* how many blocks were taken from the source
  chunks,     \* the block that chunks was divided from
  result,     \* result[i]: the block whose i-th chunk was processed into result
  written,    \* the results written to the sink, in order
  pc,         \* where each thread stands
  main, i,    \* where process_data() stands, and its loop variable
  undefined   \* has a thread used a destroyed object?

vars == <<taken, chunks, result, written, pc, main, i, undefined>>

(***************************************************************************)
(* pc:   "unborn"  not started       "loop"  the loop condition, line 50   *)
(*       "get"     line 56           "divide" line 57                      *)
(*       "arrive"  line 61, "gathered" waiting there                       *)
(*       "process" line 66           "arrive2" line 69, "gathered2" waiting*)
(*       "write"   line 73           "ended"                               *)
(* main: "spawn"   the loop          "destroy" result and chunks           *)
(*       "join"    threads           "returned"                            *)
(***************************************************************************)
Init ==
  /\ taken = 0
  /\ chunks = NoBlock
  /\ result = [t \in Threads |-> NoBlock]
  /\ written = <<>>
  /\ pc = [t \in Threads |-> "unborn"]
  /\ main = "spawn" /\ i = 0
  /\ undefined = FALSE

-------------------------------------------------------------------------

At(t, label) == pc[t] = label /\ ~undefined

Goto(t, label) == pc' = [pc EXCEPT ![t] = label]

\* result and chunks are alive until process_data() has left the scope they are declared in.
Alive == main \in {"spawn", "destroy"}

UseOfDestroyed ==
  /\ ~Alive
  /\ undefined' = TRUE
  /\ UNCHANGED <<taken, chunks, result, written, pc>>

done == taken = Blocks

\* while (!source.done()).
test(t) ==
  /\ At(t, "loop")
  /\ Goto(t, IF done THEN "ended" ELSE IF t = 0 THEN "get" ELSE "arrive")
  /\ UNCHANGED <<taken, chunks, result, written, main, i, undefined>>

get_next_data_block(t) ==
  /\ At(t, "get")
  /\ taken' = taken + 1
  /\ Goto(t, "divide")
  /\ UNCHANGED <<chunks, result, written, main, i, undefined>>

divide_into_chunks(t) ==
  /\ At(t, "divide")
  /\ \/ /\ Alive
        /\ chunks' = taken
        /\ Goto(t, "arrive")
        /\ UNCHANGED <<taken, result, written, undefined>>
     \/ UseOfDestroyed
  /\ UNCHANGED <<main, i>>

\* arrive_and_wait(): the last thread of the group releases all of them, and the barrier can
\* be used again.
gather(t, here, on) ==
  pc' = IF \A u \in Threads \ {t} : pc[u] = here THEN on ELSE [pc EXCEPT ![t] = here]

arrive_and_wait(t) ==
  /\ At(t, "arrive")
  /\ gather(t, "gathered", [u \in Threads |-> "process"])
  /\ UNCHANGED <<taken, chunks, result, written, main, i, undefined>>

\* result.set_chunk(i, n_threads, process(chunks[i])).
set_chunk(t) ==
  /\ At(t, "process")
  /\ \/ /\ Alive
        /\ result' = [result EXCEPT ![t] = chunks]
        /\ Goto(t, "arrive2")
        /\ UNCHANGED <<taken, chunks, written, undefined>>
     \/ UseOfDestroyed
  /\ UNCHANGED <<main, i>>

\* Where a thread goes after a round: thread 0 writes.
AfterRound(t) == IF t = 0 THEN "write" ELSE "loop"

\* Mutation: the second wait is forgotten.
arrive_and_wait_again_missing(t) ==
  /\ At(t, "arrive2")
  /\ Goto(t, AfterRound(t))
  /\ UNCHANGED <<taken, chunks, result, written, main, i, undefined>>

arrive_and_wait_again(t) ==
  /\ At(t, "arrive2")
  /\ gather(t, "gathered2", [u \in Threads |-> AfterRound(u)])
  /\ UNCHANGED <<taken, chunks, result, written, main, i, undefined>>

\* if (!i) sink.write_data(std::move(result)), which leaves result empty.
write_data(t) ==
  /\ At(t, "write")
  /\ \/ /\ Alive
        /\ written' = Append(written, result)
        /\ result' = [u \in Threads |-> NoBlock]
        /\ Goto(t, "loop")
        /\ UNCHANGED <<taken, chunks, undefined>>
     \/ UseOfDestroyed
  /\ UNCHANGED <<main, i>>

Thread(t) ==
  \/ test(t) \/ get_next_data_block(t) \/ divide_into_chunks(t) \/ arrive_and_wait(t)
  \/ set_chunk(t) \/ arrive_and_wait_again(t) \/ write_data(t)

\* threads[i] = joining_thread(...).
spawn ==
  /\ main = "spawn" /\ i < n_threads /\ ~undefined
  /\ Goto(i, "loop")
  /\ i' = i + 1
  /\ UNCHANGED <<taken, chunks, result, written, main, undefined>>

all_spawned ==
  /\ main = "spawn" /\ i = n_threads /\ ~undefined
  /\ main' = "destroy" /\ i' = 0
  /\ UNCHANGED <<taken, chunks, result, written, pc, undefined>>

\* result and chunks are destroyed first: they are declared last.
destroy_locals ==
  /\ main = "destroy" /\ ~undefined
  /\ main' = "join"
  /\ UNCHANGED <<taken, chunks, result, written, pc, i, undefined>>

\* ~JThread() of threads[i] joins the thread.
join ==
  /\ main = "join" /\ i < n_threads /\ ~undefined
  /\ pc[i] = "ended"
  /\ i' = i + 1
  /\ UNCHANGED <<taken, chunks, result, written, pc, main, undefined>>

return ==
  /\ main = "join" /\ i = n_threads /\ ~undefined
  /\ main' = "returned"
  /\ UNCHANGED <<taken, chunks, result, written, pc, i, undefined>>

Main == spawn \/ all_spawned \/ destroy_locals \/ join \/ return

\* A thread waits inside the barrier while another has left the loop: it waits for ever.
Abandoned ==
  \E t, u \in Threads : pc[t] = "ended" /\ pc[u] \in {"gathered", "gathered2"}

Stopped ==
  /\ \/ main = "returned" \/ undefined
     \/ Abandoned /\ \A t \in Threads : pc[t] \in {"ended", "gathered", "gathered2"}
  /\ UNCHANGED vars

Next == Main \/ (\E t \in Threads : Thread(t)) \/ Stopped

Spec == Init /\ [][Next]_vars

\* Every thread that can take a step is scheduled in the end.
FairSpec == Spec /\ WF_vars(Main) /\ \A t \in Threads : WF_vars(Thread(t))

-------------------------------------------------------------------------

\* While thread 0 divides a block or writes a result no other thread uses chunks or result:
\* the two waits of a round keep the serial regions apart from the parallel one (lines 52 to 73).
SerialIsAlone ==
  pc[0] \in {"get", "divide", "write"} => \A t \in Threads : pc[t] # "process"

\* Every result that is written holds one processed chunk per thread, all of the same block,
\* and blocks are written in the order they come from the source, none twice and none left out
\* (lines 66 and 73).
WritesAreComplete ==
  /\ \A k \in 1 .. Len(written) : written[k] = [t \in Threads |-> k]
  /\ pc[0] \in {"loop", "get", "ended"} => Len(written) = taken

\* process_data() has returned, or a thread used a destroyed object or left the others at the
\* barrier (lines 50, 61 and 69).
Over == main = "returned" \/ undefined \/ Abandoned

=============================================================================
