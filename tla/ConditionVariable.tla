------------------------- MODULE ConditionVariable -------------------------
(***************************************************************************)
(* The program condition_variable.cpp: one thread prepares chunks of data  *)
(* and notifies a condition variable after it has unlocked the mutex, one  *)
(* thread waits for a chunk, processes it and, because is_last_chunk()     *)
(* always answers true, ends after it.  main() starts both and joins them. *)
(*                                                                         *)
(* The wait is std::condition_variable::wait, or minimal_wait(), the busy  *)
(* wait that the file offers as a conforming implementation of it: the     *)
(* consumer may use either, anew each time it waits.                       *)
(***************************************************************************)
EXTENDS Naturals, Sequences

CONSTANT Modulus   \* how many values an unsigned has

CVAssumption == Modulus \in Nat /\ Modulus > 4

Producer == "data_preparation_thread"
Consumer == "data_processing_thread"
Nobody == "nobody"

VARIABLES
  counter,     \* the static variable of there_is_more_data()
  mtx,         \* who owns the mutex
  data_queue,  \* the chunks, numbered in the order they are prepared
  producer, consumer, main,   \* where each of the three threads stands
  prepared,    \* how many chunks the producer has prepared
  processed    \* history: the chunks that were processed

vars == <<counter, mtx, data_queue, producer, consumer, main, prepared, processed>>

(***************************************************************************)
(* producer: "unborn", "more" line 23, "prepare" 26, "lock" 30, "push" 32, *)
(*           "unlock" 33, "notify" 37, "ended"                             *)
(* consumer: "unborn", "lock" line 46, "check" the predicate of 53,        *)
(*           "waiting" in wait(), "relock" woken up and about to lock, or  *)
(*           between the unlock and the lock of minimal_wait(),            *)
(*           "front" 67, "pop" 68, "unlock" 72, "process" 75, "ended"      *)
(* main:     "t1" 93, "t2" 94, "join2", "join1", "returned"                *)
(***************************************************************************)
Init ==
  /\ counter = 4
  /\ mtx = Nobody
  /\ data_queue = <<>>
  /\ producer = "unborn" /\ consumer = "unborn" /\ main = "t1"
  /\ prepared = 0
  /\ processed = <<>>

-------------------------------------------------------------------------

\* --counter; return counter.
there_is_more_data ==
  /\ counter' = (counter + Modulus - 1) % Modulus
  /\ producer' = IF counter' # 0 THEN "prepare" ELSE "ended"

more ==
  /\ producer = "more"
  /\ there_is_more_data
  /\ UNCHANGED <<mtx, data_queue, consumer, main, prepared, processed>>

P(from, to) == producer = from /\ producer' = to

prepare_data ==
  /\ P("prepare", "lock")
  /\ prepared' = prepared + 1
  /\ UNCHANGED <<counter, mtx, data_queue, consumer, main, processed>>

producer_locks ==
  /\ P("lock", "push")
  /\ mtx = Nobody
  /\ mtx' = Producer
  /\ UNCHANGED <<counter, data_queue, consumer, main, prepared, processed>>

\* Mutation: the chunk is put before the others.
push_front ==
  /\ P("push", "unlock")
  /\ data_queue' = <<prepared>> \o data_queue
  /\ UNCHANGED <<counter, mtx, consumer, main, prepared, processed>>

push ==
  /\ P("push", "unlock")
  /\ data_queue' = Append(data_queue, prepared)
  /\ UNCHANGED <<counter, mtx, consumer, main, prepared, processed>>

producer_unlocks ==
  /\ P("unlock", "notify")
  /\ mtx' = Nobody
  /\ UNCHANGED <<counter, data_queue, consumer, main, prepared, processed>>

notify_one ==
  /\ P("notify", "more")
  /\ consumer' = IF consumer = "waiting" THEN "relock" ELSE consumer
  /\ UNCHANGED <<counter, mtx, data_queue, main, prepared, processed>>

-------------------------------------------------------------------------

C(from, to) == consumer = from /\ consumer' = to

consumer_locks ==
  /\ C("lock", "check")
  /\ mtx = Nobody
  /\ mtx' = Consumer
  /\ UNCHANGED <<counter, data_queue, producer, main, prepared, processed>>

\* Mutation: wait() unlocks and blocks in two steps.
wait_not_atomic ==
  /\ \/ C("check", "blocking") /\ data_queue = <<>> /\ mtx' = Nobody
     \/ C("blocking", "waiting") /\ UNCHANGED mtx
  /\ UNCHANGED <<counter, data_queue, producer, main, prepared, processed>>

\* The predicate is false: data_cond.wait() unlocks and blocks at once.
wait ==
  /\ C("check", "waiting") /\ data_queue = <<>>
  /\ mtx' = Nobody
  /\ UNCHANGED <<counter, data_queue, producer, main, prepared, processed>>

spurious_wakeup ==
  /\ C("waiting", "relock")
  /\ UNCHANGED <<counter, mtx, data_queue, producer, main, prepared, processed>>

\* The predicate is false: minimal_wait() unlocks and is about to lock again.
minimal_wait ==
  /\ C("check", "relock") /\ data_queue = <<>>
  /\ mtx' = Nobody
  /\ UNCHANGED <<counter, data_queue, producer, main, prepared, processed>>

relock ==
  /\ C("relock", "check")
  /\ mtx = Nobody
  /\ mtx' = Consumer
  /\ UNCHANGED <<counter, data_queue, producer, main, prepared, processed>>

wait_returns ==
  /\ C("check", "front") /\ data_queue # <<>>
  /\ UNCHANGED <<counter, mtx, data_queue, producer, main, prepared, processed>>

\* const DataChunk data = data_queue.front().
front ==
  /\ C("front", "pop")
  /\ data_queue # <<>>
  /\ processed' = Append(processed, Head(data_queue))
  /\ UNCHANGED <<counter, mtx, data_queue, producer, main, prepared>>

pop ==
  /\ C("pop", "unlock")
  /\ data_queue # <<>>
  /\ data_queue' = Tail(data_queue)
  /\ UNCHANGED <<counter, mtx, producer, main, prepared, processed>>

consumer_unlocks ==
  /\ C("unlock", "process")
  /\ mtx' = Nobody
  /\ UNCHANGED <<counter, data_queue, producer, main, prepared, processed>>

is_last_chunk(chunk) == TRUE

\* process(data), and then the loop is left or begins again.
process ==
  /\ consumer = "process"
  /\ consumer' = IF is_last_chunk(processed[Len(processed)]) THEN "ended" ELSE "lock"
  /\ UNCHANGED <<counter, mtx, data_queue, producer, main, prepared, processed>>

-------------------------------------------------------------------------

M(from, to) ==
  /\ main = from /\ main' = to
  /\ UNCHANGED <<counter, mtx, data_queue, prepared, processed>>

start_t1 == M("t1", "t2") /\ consumer' = "lock" /\ UNCHANGED producer
start_t2 == M("t2", "join2") /\ producer' = "more" /\ UNCHANGED consumer
\* t2 is destroyed first.
join_t2 == M("join2", "join1") /\ producer = "ended" /\ UNCHANGED <<producer, consumer>>
join_t1 == M("join1", "returned") /\ consumer = "ended" /\ UNCHANGED <<producer, consumer>>

PNext == more \/ prepare_data \/ producer_locks \/ push \/ producer_unlocks \/ notify_one
CNext == \/ consumer_locks \/ wait \/ minimal_wait \/ relock \/ wait_returns
         \/ front \/ pop \/ consumer_unlocks \/ process
MNext == start_t1 \/ start_t2 \/ join_t2 \/ join_t1

Terminated == main = "returned" /\ UNCHANGED vars

Next == PNext \/ CNext \/ spurious_wakeup \/ MNext \/ Terminated

Spec == Init /\ [][Next]_vars

\* Every thread is scheduled, and a thread that asks for a mutex which is free again and again
\* gets it in the end.  Spurious wake-ups are never owed to anybody.
FairSpec ==
  /\ Spec
  /\ WF_vars(PNext) /\ SF_vars(producer_locks)
  /\ WF_vars(CNext) /\ SF_vars(consumer_locks) /\ SF_vars(relock)
  /\ WF_vars(MNext)

-------------------------------------------------------------------------

\* Chunks are processed in the order of their preparation, and what was not processed is in the
\* queue; when wait() or minimal_wait() has returned there is one to process, and it stays there
\* until it is popped (lines 32 and 65 to 68).
InOrder ==
  LET taken == IF consumer = "pop" THEN Len(processed) - 1 ELSE Len(processed)
      inside == IF producer \in {"lock", "push"} THEN prepared - 1 ELSE prepared
  IN  /\ consumer \in {"front", "pop"} => data_queue # <<>>
      /\ \A k \in 1 .. Len(processed) : processed[k] = k
      /\ data_queue = [k \in 1 .. inside - taken |-> taken + k]

\* The program has ended (lines 93 to 95).
Over == main = "returned"

=============================================================================
