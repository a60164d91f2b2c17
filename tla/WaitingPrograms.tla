--------------------------- MODULE WaitingPrograms ---------------------------
(***************************************************************************)
(* The three programs whose threads wait for one another: at a latch       *)
(* (Latch), at a barrier (Barrier), at a condition variable                *)
(* (ConditionVariable).  They share nothing; one of them is chosen and     *)
(* runs, and the variables that it does not have are Absent.               *)
(***************************************************************************)
EXTENDS Naturals, Sequences

CONSTANTS
  thread_count,        \* of Latch
  n_threads, Blocks,   \* of Barrier
  Modulus,             \* of ConditionVariable
  Absent

VARIABLES
  chosen,                                                      \* the program that runs
  main, i,                                                     \* its main thread
  count, data, worker,                                         \* of Latch
  taken, chunks, result, written, pc, undefined,               \* of Barrier
  counter, mtx, data_queue, producer, consumer, prepared, processed  \* of ConditionVariable

L == INSTANCE Latch
B == INSTANCE Barrier
C == INSTANCE ConditionVariable

ASSUME WaitingAssumption == L!ThreadCountAssumption /\ B!BarrierAssumption /\ C!CVAssumption

latchVars == <<count, data, worker>>
barrierVars == <<taken, chunks, result, written, pc, undefined>>
condvarVars == <<counter, mtx, data_queue, producer, consumer, prepared, processed>>

NoLatch == count = Absent /\ data = Absent /\ worker = Absent

NoBarrier ==
  /\ taken = Absent /\ chunks = Absent /\ result = Absent /\ written = Absent
  /\ pc = Absent /\ undefined = Absent

NoCondvar ==
  /\ counter = Absent /\ mtx = Absent /\ data_queue = Absent /\ producer = Absent
  /\ consumer = Absent /\ prepared = Absent /\ processed = Absent

ProgramInit ==
  \/ chosen = "latch" /\ L!Init /\ NoBarrier /\ NoCondvar
  \/ chosen = "barrier" /\ B!Init /\ NoLatch /\ NoCondvar
  \/ chosen = "condvar" /\ C!Init /\ i = Absent /\ NoLatch /\ NoBarrier

ProgramNext ==
  /\ UNCHANGED chosen
  /\ \/ chosen = "latch" /\ L!Next /\ UNCHANGED <<barrierVars, condvarVars>>
     \/ chosen = "barrier" /\ B!Next /\ UNCHANGED <<latchVars, condvarVars>>
     \/ chosen = "condvar" /\ C!Next /\ UNCHANGED <<i, latchVars, barrierVars>>

programVars == <<chosen, main, i, latchVars, barrierVars, condvarVars>>

ProgramSpec == ProgramInit /\ [][ProgramNext]_programVars

\* The fairness of the program that runs.
FairSpec ==
  /\ ProgramSpec
  /\ WF_(L!vars)(chosen = "latch" /\ L!Main)
  /\ \A w \in L!Workers : WF_(L!vars)(chosen = "latch" /\ L!Worker(w))
  /\ WF_(B!vars)(chosen = "barrier" /\ B!Main)
  /\ \A t \in B!Threads : WF_(B!vars)(chosen = "barrier" /\ B!Thread(t))
  /\ WF_(C!vars)(chosen = "condvar" /\ C!PNext)
  /\ SF_(C!vars)(chosen = "condvar" /\ C!producer_locks)
  /\ WF_(C!vars)(chosen = "condvar" /\ C!CNext)
  /\ SF_(C!vars)(chosen = "condvar" /\ C!consumer_locks)
  /\ SF_(C!vars)(chosen = "condvar" /\ C!relock)
  /\ WF_(C!vars)(chosen = "condvar" /\ C!MNext)

-------------------------------------------------------------------------

\* The data that Latch processes are complete, or but one (latch.cpp, lines 39 to 52).
EnoughData == chosen = "latch" => L!EnoughData

\* The serial regions of Barrier are apart from the parallel one (barrier.cpp, lines 52 to 73).
SerialIsAlone == chosen = "barrier" => B!SerialIsAlone

\* Barrier writes every block, whole and in order (barrier.cpp, lines 66 and 73).
WritesAreComplete == chosen = "barrier" => B!WritesAreComplete

\* The consumer of ConditionVariable has a chunk when its wait returns, and takes the chunks in
\* the order of their preparation (condition_variable.cpp, lines 32 and 65 to 68).
InOrder == chosen = "condvar" => C!InOrder

\* Each of the three returns, but for the ways out that its module names: a latch that wraps, a
\* destroyed object that is used, a barrier that some threads have left (latch.cpp, lines 44 and
\* 48; barrier.cpp, lines 50, 61 and 69; condition_variable.cpp, lines 93 to 95).
Returns ==
  <>(\/ chosen = "latch" /\ L!Over
     \/ chosen = "barrier" /\ B!Over
     \/ chosen = "condvar" /\ C!Over)

=============================================================================
