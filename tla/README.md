# Verification of CppConcurrency

The repository is a collection of small concurrent C++ components, each with a program that uses
it, and of commented programs that show one facility of the standard library each. This project
models the components and programs in which threads interact in TLA+, checks them with TLC on
small instances, and proves the most important results for every instance with TLAPS.

A module is named after the class or the file that it models, and the names of variables and
actions are those of the code wherever TLA+ allows it. `PROJECT.json` maps every definition to
its lines. Paths below are relative to `src/`.

## Inventory

| Component | State | Operations | What is hard about it | What makes it correct |
|---|---|---|---|---|
| `LevelMutex.h` | `mtx`, `prev_levels` per mutex; `thread_local thread_level` | `lock`, `try_lock`, `unlock` | three pieces of state change in several steps; `prev_levels` has no lock but `mtx`; `push_back` may throw with `mtx` locked; `unlock` out of order throws | no deadlock; the level is that of the innermost mutex held |
| `LevelMutex_use.cpp` | guards of each thread | `foo`, `bar` | an exception unwinds through destructors that must not throw | only `foo` fails; all is unlocked |
| `thread_safe_queue.cpp` | `mut`, `data_queue`, `data_cond` | `push`, `wait_and_pop`, `try_pop`, `empty`, copy | copies that throw between lock and pop; wake-ups that are lost or spurious | FIFO, no lost element, no lost wake-up |
| `ThreadSafeStack.h` | `m`, `data` | `push`, `pop`, `empty`, copy | as above, for a stack | every operation is atomic |
| `ThreadSafeStack_use.cpp` | stack, vector of JThreads | `makeStack`, `work`, `main` | `empty()` and then `pop()` are two calls | each pair once; the threads do not outlive the stack |
| `LatchBarrier/latch.cpp` | latch, `data`, `done` | `foo`, its workers | one decrement too many; the order of destruction | data is complete when processed |
| `LatchBarrier/barrier.cpp` | barrier, `source`, `chunks`, `result`, `threads` | `process_data`, its threads | `done()` is asked by every thread by itself; the order of destruction | serial and parallel regions exclude each other; all leave |
| `JThread.h` | `thread` | constructors, assignments, `swap`, `join`, `detach`, destructor | assignment to an object that has a thread, which `std::thread` answers with `std::terminate`; self-assignment | it never calls `std::terminate`, no thread is lost |
| `thread_guard.cpp` | `t` | constructors, assignment, destructor | a moved-from object | no thread is lost; only a moved-from object ends the program |
| `condition_variable.cpp` | `data_queue`, `mtx`, `cv`, counter | producer, consumer, `minimal_wait` | notification after unlocking; spurious wake-ups | no lost wake-up, order, the program ends |
| `Future/*.cpp` | a promise and its shared state | nine programs | two `set_value`, two `get`, exceptions across threads, a promise destroyed, a race | the result does not depend on the interleaving |
| `unique_lock.cpp`, `two_or_more_mutexes_no_deadlock.cpp` | a mutex and a datum per object | `swap` | two objects locked in either order; the same object twice | every `swap` returns, `swap` is atomic |
| `unique_lock.cpp` (second half), `sleep_for.cpp` | `mtx`; `m`, `flag` | `get_lock`, `process_data`; `wait_for_flag` | a lock that moves out of a function; a lock given up while its owner sleeps | nobody comes between the two functions; the waiter sees the flag |
| `call_once.cpp` | flag, resource, connection | `foo`, `send_data`, `receive_data` | initialisation that throws while others wait | initialised once, before it is used |
| `shared_mutex.cpp` | `entries`, `entry_mutex` | `find_entry`, `update_or_add_entry` | iterators into a map that others write; an element that is made first and assigned later | the map is still while it is read, answers are current |
| `mutex.cpp` | `vec`, `mutex` | `push_back`, `show`, `main` | iterators into a vector that others extend; one stream for all; an allocation that fails | every line is one state of the vector |
| `quick_sort.cpp` | lists, recursion | two quick sorts | splicing, equal values, empty parts, the order `std::partition` leaves | sorted, no node lost |
| `Atomic/memory_modes.cpp` | atomics `x`, `y`, `a` | seven litmus programs | orders that only some memory modes give | the asserts that are said to hold do |
| `Atomic/compare_exchange.cpp` | `b`, `expected` | the loop of `compare_exchange_weak` | spurious failures; another thread that sets `b` | it ends, and leaves alone what it has found true |
| `Busy.h` | `counter` | `isPrime`, `operator()` | a loop that compares with `!=` | terminates, counts primes |

The components interact by calls: `LevelMutex_use` uses `LevelMutex` through guards,
`ThreadSafeStack_use` uses `ThreadSafeStack` and `JThread`, the programs of `Future/` use `Busy`.
Everything else a component talks to is the standard library (threads, mutexes, condition
variables, futures, latches, barriers), which is modelled by what its callers
rely on and marked external in the map.

## Modules

Each component has one module with its state, one action per operation or per step of an
operation that another thread can observe, its specification and its properties. The small
programs are run together: **WaitingPrograms**, **FutureWork** and **SharedData** instantiate the
modules of programs that have something in common but share no state. Their `Init` chooses one
program, their `Next` is the next-state relation of the chosen one, the variables of the others
are `Absent`; a property of theirs says what the chosen program promises. An `MC` module and a
`.cfg` file give a specification its instance for TLC (two for ThreadSafeStackUse), and, where
something is proved, a `Proofs` module has the proofs. The definitions that follow a comment
"Mutation:" are plausible bugs, used to confirm that each property can fail; nothing else refers
to them.

- **HierarchicalLocking** is what LevelMutex promises: locks above all levels held, unlocks of
  the innermost. **LevelMutex** has a program counter per thread through `lock()` (check, wait
  for `mtx`, `push_back`, set the level), `try_lock()` and `unlock()`, and implements it.
  **LevelMutexUse** extends LevelMutex: threads follow the scopes of `foo()` and `bar()`.
- **ThreadSafeQueue** takes one step for each access between lock and unlock, with the list of
  waiting threads of `data_cond` and the notifications on their way. `pushed` and `popped` are
  history.
- **AtomicStack** is the abstract stack, with a variable for the result last returned.
  **ThreadSafeStack** implements it (`Linearizable`). **ThreadSafeStackUse** extends AtomicStack,
  so it composes the client with what has been proved of the class.
- **Latch**, **Barrier**: main thread, workers, library object, and the lifetime of the locals.
  Undefined behaviour is a choice of outcomes (the decrement below zero) or a flag after which
  nothing is modelled (the use of destroyed objects).
- **StdThread** is `std::thread` as its two wrappers use it. **JThread** and **ThreadGuard** extend
  it with the operations of their class, and **ThreadOwners** composes them: a program whose
  objects are of either class. The objects belong to one thread; the threads that are owned finish
  beside it. The assignments and the destructors are taken statement by statement: `call`, `self`
  and `rhs` say which statement of which call comes next, and the object `Parameter` is the
  `std::thread` that `operator=` takes by value. What the standard says of the member is in
  StdThread: it calls `std::terminate` when it is assigned to, or destroyed, while it is joinable.
- **ConditionVariable**: producer, consumer and main; each wait is `wait()` or
  `minimal_wait()`. With Latch and Barrier it makes up **WaitingPrograms**.
- **FuturePrograms**: every program is a script per thread; the statements are the actions.
  `async.cpp` is there twice: as it is, with `std::async`, and with its demo `async()` in the place
  of it, which detaches its thread.
  **QuickSort** is the recursion of both quick sorts as a stack of calls over lists of nodes:
  `splice()` moves nodes, `std::partition` leaves each part in any order. **Busy** is the counting
  of primes with words of `WordSize`. The three make up **FutureWork**.
- **CallOnce** has the flag of `std::call_once`, an initialisation that throws before or after the
  resource was made, and the use behind it. **DnsCache** has the map under a lock of many readers
  or one writer; the element is made, then overwritten, and is `Torn` in between; the history
  variable `meanwhile` has the answers that were right since the call began. **ProtVector** is the
  program of `mutex.cpp`: `show()` prints element by element, and `push_back()` may find no memory,
  which ends the program. **UniqueLock** has `get_lock()`,
  which returns the lock it has taken, and `wait_for_flag()`. The four make up **SharedData**.
- **MemoryModes** runs the programs of `memory_modes.cpp` and the loop of `compare_exchange.cpp`,
  a script per thread, on a model of the C++ memory model that is external: each store leaves a
  message at a time of its location, a thread reads any message that is not older than what it
  has seen, a release store passes on what its thread has seen. `seq_cst` programs read the last
  store. A plain variable is read like a relaxed one, which gives a stale value where the program
  has a race.
- **AtomicSwap** is the abstract swap; **LockedSwap** implements it with `std::lock`, including
  its back-off, and the three moves of the swap of the data. The mutexes are unlocked in either
  order, because that of `std::scoped_lock` is the library's.

## Runs

| Run | Instance | What it shows |
|---|---|---|
| `level_mutex` | 3 threads, 5 mutexes of levels 0, 10, 10, 30, 40, `push_back` may throw | any calls in any order: no circle of waiting threads, right levels, and the abstract hierarchy is implemented; a mutex left locked by the failure is the only thing that can block |
| `level_mutex_use` | 3 threads, each in `foo()` or `bar()`, failing allocations | `foo()` fails at its third guard, nothing else does, unwinding never throws, the process ends |
| `queue` | 1 producer, 2 consumers, 1 observer, 2 calls each, throwing copies | FIFO, defined pops, snapshots, no lost wake-up; as long as no copy throws, an element and a waiting consumer do not stay beside each other |
| `stack` | 2 threads, 2 values, 3 elements | `pop()` removes what it copied; refinement of the atomic stack, throwing copies included |
| `stack_use` | 3 workers, 4 pairs | each pair once, lifetimes, an end of the process |
| `stack_use_race` (violation) | the 2 threads and 10 pairs of `main()` | `pop()` on an emptied stack terminates the process |
| `threads` | 2 JThreads, 2 guards, 3 threads | one owner per thread, none abandoned (`OwnedOnce`); a thread is let go of when it has finished, moved or been detached (`WaitsBeforeLetGo`); one way into `std::terminate`: no `std::thread` is joinable when it is overwritten or destroyed (`OnlyEmptyGuardTerminates`) |
| `locked_swap` | 3 threads, 3 objects, a swap each | `swap` is atomic (`SwapIsAtomic`), no deadlock, and every swap returns (`SwapsReturn`) |
| `waiting` | the latch with the 4 workers of the source; the barrier with 3 threads and 2 blocks; the whole condition variable program, `unsigned` of 3 bits | the latch: data complete but for one worker (`EnoughData`); the barrier: exclusion of the serial regions (`SerialIsAlone`), order and completeness (`WritesAreComplete`); the condition variable: a chunk for every wait that returns, in order (`InOrder`); and of each the only ways not to return (`Returns`) |
| `futures` | the nine programs, 4 pushes instead of 1000, functions that throw; every list of up to 4 nodes of 3 values; 2 draws of operands up to 30 | results independent of the interleaving (`SameResults`); exceptions reach `get()` (`OnlyTheRaceFails`); sorts are in order and lose no node (`ReturnsSorted`); which numbers count as primes (`CountsBelowRoot`); everything ends (`ProgramEnds`) |
| `shared_data` | `call_once`: 3 threads, 2 calls each, 2 failures; the cache: 3 threads, a call each, 2 domains, 2 entries; the 6 threads of `mutex.cpp`; 2 processors, 2 waiters and a setter | one initialisation, before any use (`MadeOnce`); what is read under a lock was right during the call (`ReadsAreCurrent`); no container changes under an iterator (`StillWhileRead`); every call returns (`CallsReturn`) |
| `atomics` | 7 programs in all their modes, 4 times per location; the loop of `compare_exchange_weak` beside three stores | the asserts that the file says cannot fail hold, and synchronization is chained over three threads (`AssertsHold`); once the exchange has found `true` the loop leaves `b` alone (`LeavesSeenAlone`); the loops end (`LoopsEnd`) |

**Why these bounds.** The interesting interleavings need few actors: a circle of waiting threads
needs two threads and two mutexes, and three of each give the longer one; a lost wake-up needs
two consumers and a producer; a queue or stack of two or three elements has an empty, a last and
a middle element. Two mutexes share the level 10, as in the source, because equal levels are the
boundary of `check_level`; a mutex of level 0 is one that nobody can lock. Two calls per thread
let a thread come back after an exception; with two pushes of the one producer the second may
come while both consumers wait, or before the first is taken. Two blocks are one round and a
repetition. The three bits of `unsigned` in ConditionVariable are above its four chunks, as 2^32 is in the code, which
is the only relation the code needs. Two objects of each class in `threads` are enough to move,
swap and assign within a class while the other class holds threads of its own; three threads let
an assignment replace one thread by another while a third is owned elsewhere. In `locked_swap` the
objects begin with one datum each, always the same: no step looks at a datum, so that
other data would only be other names. A second call
of `foo()` meets the flag of `call_once` set, and two failures let the initialisation fail in two
threads, or twice in one; one call per thread of the cache already lets two readers and a writer,
or two writers and a reader, meet. Four nodes are a pivot with parts of every size up to three,
and three values give each part equal ones. Operands up to 30 give all sums up to 60, in which
there are squares of primes, squares that are not, and products beyond the root. `MaxTime` is one
more than the stores to any location, so that the last one can be before or after any other.
Names of bounds are in the CONSTANTS of each module (`MaxCalls`, `MaxFailures`, `MaxSize`,
`Blocks`, `Pushes`, `MaxLen`, `Draws`, `MaxTime`).

**Fairness.** Safety runs state none. Liveness runs assume weak fairness of each thread: a
thread that can go on is scheduled in the end, which every operating system gives. A thread that
waits for a mutex others take again and again would need more. Two programs lock and unlock in a
loop: the busy wait of `condition_variable.cpp` and `wait_for_flag()` of `sleep_for.cpp`, which
leaves the mutex free for 100 ms in each round. There the steps that lock are strongly fair
(without it the standard's mutex allows the waiter to keep the other thread out for ever). So is
the successful `compare_exchange_weak()`: a spurious failure is a matter of timing, not of values
(`compare_exchange.cpp:23`), and does not come every time. The other programs lock a bounded
number of times. In `ThreadSafeQueue` only threads inside a call are fair: nobody has to call;
`CallOnce` and `DnsCache` promise that a call returns, not that it is made. In `LockedSwap` the
`try_lock` of `std::lock` is strongly fair (`FairSwaps`): the standard only says that `std::lock`
does not deadlock, and with weak fairness two of them may back off from each other for ever. The
threads of the code do so only as long as their steps stay in time with each other.

**Deadlock** is checked except where the system really stops: a consumer of the queue whose
producers are done, threads behind a LevelMutex that is locked for good, a terminated process in
`threads`, and callers that have made their calls. A program that stops by its own end, or in a
way that `Over` of its module names (the latch that has wrapped, the threads abandoned at the
barrier), has a step of its own for it, `Stopped` or `Finished`, so that any other stop is a
deadlock.

**What disagrees with the source's words.**

1. `ThreadSafeStack_use.cpp:31`: between `empty()` and `pop()` another worker takes the last pair,
   and the exception ends the process (`stack_use_race` shows it).
2. `LatchBarrier/latch.cpp:44`: the latch counts the main thread, but is made for the workers, so
   it opens while one worker is missing. The comments (31-32, 50-51) promise complete data;
   `EnoughData` is what is left of it, and `Over` of Latch names the decrement below zero that
   follows.
3. `LatchBarrier/barrier.cpp:41-44`: `threads` is declared before `chunks` and `result`, which the
   threads use until they are joined; `undefined` in `Over` of Barrier.
4. `LatchBarrier/barrier.cpp:50`: the loop condition races with the last `get_next_data_block()`;
   a thread leaves early and those at the barrier wait for ever, where line 75 says that all keep
   looping until the source is done; `Abandoned` in `Over` of Barrier.
5. `thread_guard.cpp:24`: `join()` without a test, where line 21 says "If the thread is in joinable
   state, then join it"; `OnlyEmptyGuardTerminates` says when this ends the program (in the
   destructor of an object whose thread was moved out; the assignment throws and changes nothing).
6. `Busy.h:10`: the loop stops before it tries the root, so 4, 6, 8, 9, 15 and 25 count as primes, and
   2 and 3 do not; `CountsBelowRoot` says exactly which numbers count.
7. `Atomic/memory_modes.cpp:146-149`: the independent reads do not tell the modes apart. Thread 4
   (line 144) reads `y` before `x`, so both asserts can pass with `seq_cst` as well.
8. `Atomic/memory_modes.cpp:211-217`: "thread 3's assert can fail" with release and acquire, where
   line 181 says that synchronization is chained. It is: `AssertsHold` has the assert of thread 3.
9. `Atomic/memory_modes.cpp:100`: the body of the `if` is a semicolon, so assert B is
   unconditional; the model follows the code.
10. `Atomic/compare_exchange.cpp:26-44`: `expected` starts `true` and the desired value is `false`,
   so the loop resets `b`, where line 41 speaks of an exchange "of true and true" and line 44 of
   setting `b`. When the exchange fails spuriously on a `true` that it expected, the loop
   is left without having stored anything.
11. `quick_sort.cpp:74`: "sorted in a new thread", but the function is called directly and a
   `std::future` has no constructor from its result. The model takes the steps of the call.

## Proofs

TLAPS proves the following for all values of the constants. The only assumptions are the `ASSUME`s
of the modules (the sentinels are not members of the sets, bounds are naturals, the levels of the
mutexes are levels, the mutexes of `LevelMutex_use.cpp` have the levels of its lines 6 to 10, the
operands of Busy fit into a word, the threads of two different programs are different threads).
Nothing is assumed of the number of threads, except that the queue's are finitely many and that a
program which numbers its threads has a natural number of them.

- **LevelMutexProofs**: `TypeCorrect`, `LevelCorrect`, `UnlockInnermost`, `DeadlockFree`,
  `SavedIsGuarded`, `Refinement`. None of the checked invariants is inductive alone: that the
  level is that of the innermost mutex survives `unlock()` only because each live mutex saves the
  highest level held below its own. The inductive invariant states this for all live mutexes of
  a thread, together with who owns what at each point. Freedom from deadlock follows from it:
  in a set of threads that all wait for a mutex held inside the set, follow the mutex of the
  highest level that is waited for; its owner waits for a yet higher one.
- **LevelMutexProofs**, of LevelMutexUse: `DestructorsHold`, `OnlyFooHolds`, for any number of
  threads in `foo()` or `bar()`, with the five mutexes and the levels of `LevelMutex_use.cpp` (lines
  6 to 10). The invariant of LevelMutex holds as well, because the program calls nothing but its
  operations; what is added is that the guards of a thread are on the mutexes it holds, in ascending
  levels, and are those of the statement it has come to. So the guard that is destroyed is the
  innermost one, and its mutex is the current one; and a level is refused only at the third guard of
  `foo()`.
- **ThreadSafeQueueProofs**: `MutualExclusion`, `Fifo`, `PopIsDefined`, `Snapshot`,
  `WakeupsNotLost`. The inductive invariant adds that the element that was copied is the front until
  it is popped, and, for the wake-ups, counts the awake threads against the elements.
- **ThreadSafeStackProofs**: `MutualExclusion`, `PopIsDefined`, and `StackIsAtomic`, the refinement:
  the step under the lock that decides the result is the abstract operation.
- **AtomicityProofs**, of LockedSwap: `TypeCorrect`, `MutexesOwned`, `SwapRefines`, `DataConserved`.
  The inductive invariant says who owns which mutex at each point, which makes two swaps that move
  data touch different objects, whichever of two mutexes is unlocked first, and what the moves have
  left behind (`tmp` is the datum of lhs, then both objects hold the datum of rhs). The abstract data (`Settled`) take what is in `tmp` for the
  object that is overwritten, so the last move is the instant of the swap. `DataConserved`, that no
  datum is lost or doubled, follows; no run checks it beside the refinement.
- **AtomicityProofs**, of MemoryModes: `AssertsHoldAlways`, `LeavesSeenAloneHolds`, for any number
  of times (`MaxTime`). What is known of the memory in any program: every location has a message
  that is as late as what any thread has seen and any message passes on, so that there is a last one
  to read, and a thread reads nothing older than what it has seen. Each program has its invariant on
  top of that. In `publish` and `release` the message at `x` passes on that `y` was stored, so the
  thread that has found it can only find the value stored at `y`. In the summary this goes through
  two threads: what thread 2 stores at `y` passes on what it has seen of `x`. In `coherence` the
  values at `x` grow with their times. In `compare_exchange` the loop has ended when it has found
  `true`. The other programs assert what may fail, and nothing is proved of them.
- **ThreadProofs**, of ThreadOwners: `OwnedOnceHolds`, `WaitsHolds`, `OneWayToTerminate`, for any
  objects of the two classes and any threads. The invariant adds that an owner is alive, or the
  parameter of the call that goes on, that every thread which is neither joined nor detached is in
  some object, and what is known at each statement of a call: the member has no thread between the
  join and the move, or the end of the destructor, also when an object is assigned to itself, and the
  parameter has none when it is destroyed. So the branches of `std::thread` that terminate are not
  taken; what is left is the `join()` of a Thread that has no thread, in its destructor.
- **ThreadSafeStackUseProofs**: `EachOnceHolds`, `OutlivesHolds`, for any number of workers and
  pairs. `EachOnce` counts; the invariant says instead that a pair is at one place of the stack, or
  with one worker, or printed, and the counts follow. The lifetime rests on the order in which
  `main()` starts and joins.
- **ThreadProofs**, of WaitingPrograms: `EnoughDataHolds` for any number of workers,
  `SerialIsAloneHolds` and `WritesHold` for any number of threads and blocks, `OrderHolds`. The
  latch never gets further ahead than one decrement for each thread that has counted down, unless it
  has wrapped: what is zero then misses the data of one worker at most. At the barrier the threads
  are in the parallel region all or none, which keeps `chunks` and `result` those of the block that
  was taken last. Each invariant says something only when its program is the one that is `chosen`.
- **SharedDataProofs**: `MadeOnceHolds`, `ReadsHold`, `StillHolds`, for any number of threads,
  calls, failures and elements and all domains and entries. The flag of `call_once` knows the thread
  inside the initialisation; the shared mutex is with the threads behind its lock, and an entry is
  torn only while its writer is at it, so a reader finds an answer of `meanwhile`; a line is always
  a part of the vector that is locked, and there are as many lines as threads have shown, half of
  all in the end; `mtx` is owned, through one function or the other, by the thread whose data they
  are.
- **FutureWorkProofs**, of QuickSort: `SortIsRight`, for every list of natural numbers of every
  length. There is no induction in the proof, because the model has the stack of the calls and not
  the recursion. The invariant says of each call which of its lists are filled where and that no
  node is in two of them; of two calls, that they share no node; of a call and those inside it, that
  the nodes they hold are on one side of its pivot, and what was returned with them; and that what
  was returned is in order. So appending what comes back keeps the order, whatever `std::partition`
  does to the order inside the parts.
- **FutureWorkProofs**, of Busy: `CountIsRight`, for every word size for which the operands fit and
  any number of draws. While the loop of `isPrime()` runs, no number from 2 below `i` divides `n`,
  and `i` has not passed the root; the root is an integer square root, which exists for every
  number.
- **FutureWorkProofs**, of FuturePrograms: `ResultsAreTheSame`, `OthersDoNotFail`. Each program has
  an invariant of its own, which says how the place of each thread, the shared state of the future
  and what was received belong together; that of `wait.cpp` holds for any number of pushed values.
  Each says something only when its program is the one that runs.

Every safety property that a run checks, invariant or action property, is proved. Only
model-checked is liveness: `Served`, `Terminates`, `Ends`, `SwapsReturn`, `Returns`, `ProgramEnds`,
`CallsReturn` and `LoopsEnd` rest on fairness, which is out of the prover's reach. `Computes`, which a run shows
to be violated, is a liveness property too.

Two modules of proofs, ThreadProofs and AtomicityProofs, are each about two specifications that
have no variable in common; this is why WaitingPrograms and MemoryModes name their initial states
and steps `ProgramInit`, `ProgramNext`, `AtomicsInit` and `AtomicsNext`.

## Not modelled

- `experimental_future.cpp`: calls a library that is not in the repository, makes one future
  without a state and continues it.
- `Atomic/atomic_ptr.cpp`, `atomic_bool.cpp`, `atomic_char.cpp`, `atomic_flag_memory_order.cpp`,
  `assign_to_nonatomic.cpp`, `is_always_lock_free.cpp`, `atomic_template.cpp`, `CE_LLSC_CAS.cpp`,
  and `hardware_threads.cpp`, `thread_id.cpp`, `ptr_to_member_function.cpp`, `Functions.h`: a few
  library calls by one thread, or comments only; there is no order of steps that could go wrong.
- `Atomic/memory_modes.cpp`: consume (lines 184-193 and 219-226: compilers make it acquire), mixed
  modes, and reads of a store that is made later (out of thin air, load buffering).
- `LatchBarrier/foo.cpp`: not a program.
- Of the modelled parts: a container or a thread for which there are no resources, except in
  `LevelMutex`, the queue, the stack, `call_once.cpp`, `shared_mutex.cpp` and `mutex.cpp`; output to
  `std::cout`; `JThread::as_thread()` used to overwrite the
  thread; what `ConnectionHandle` does when several threads use it at once (it is not declared
  in the repository); unlocking a `LevelMutex` that another thread owns (undefined).

## Plan

Done, in this order: LevelMutex and its use; the queue; the stack and its use; latch and barrier;
JThread and thread_guard; condition_variable; the futures; the swaps; then call_once, the shared
and the plain mutex, the locks that move, the memory modes with the exchange, the quick sort and
Busy. The order is that of how much state the threads share and how many steps an operation takes.

What is left of the source has no interaction to model. What could still be done:

1. ThreadSafeStackUse over ThreadSafeStack and JThread in the place of their abstractions.
2. Consume, mixed modes and load buffering in MemoryModes, which need a memory model with promises
   or axioms.
3. Proofs by refinement that StdThread with its two owners, or the queue, implements an abstract
   specification of its own, as the stack, the hierarchy and the swap do.
