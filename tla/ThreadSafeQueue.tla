-------------------------- MODULE ThreadSafeQueue --------------------------
(***************************************************************************)
(* class threadsafe_queue (thread_safe_queue.cpp): a std::queue behind one *)
(* mutex and one condition variable.  Every public operation is modelled   *)
(* step by step between the lock and the unlock, so that what the mutex    *)
(* protects is a consequence and not an assumption; copying an element may *)
(* throw, and a wait may end without a notification.                       *)
(*                                                                         *)
(* Both overloads of wait_and_pop and of try_pop take the same steps: copy *)
(* the front, which may throw, then pop.                                   *)
(***************************************************************************)
EXTENDS Naturals, Sequences, FiniteSets

CONSTANTS
  Threads,      \* the threads that use one queue
  Values,       \* what they push
  MayCall,      \* the operations each thread calls
  MaxCalls,     \* bound: how many times each thread calls one
  CopyMayFail,  \* may copying or allocating an element throw?
  NoThread, NoValue

Ops == {"push", "wait_and_pop", "try_pop", "empty", "copy"}

ASSUME QueueAssumption ==
  /\ IsFiniteSet(Threads)
  /\ MayCall \in [Threads -> SUBSET Ops]
  /\ MaxCalls \in Nat
  /\ CopyMayFail \in BOOLEAN
  /\ NoThread \notin Threads

VARIABLES
  mut,         \* the thread that owns the mutex
  data_queue,
  pc, op,      \* where each thread stands, in which operation
  val,         \* its new_value, or its copy of the front
  copied,      \* the queue its copy constructor is building
  calls,       \* how many calls it has made
  pushed,      \* history: every value pushed, in order
  popped,      \* history: every value popped, in order
  failures     \* history: how many consumers lost the front to an exception

callVars == <<pc, op, val, copied, calls>>
history == <<pushed, popped, failures>>
vars == <<mut, data_queue, callVars, history>>

(***************************************************************************)
(* pc: "idle"     outside the queue                                        *)
(*     "lock"     in the constructor of lock_guard or unique_lock          *)
(*     "push"     about to push          "notify"  about to notify_one     *)
(*     "check"    about to evaluate the predicate of wait()                *)
(*     "waiting"  in data_cond.wait()                                      *)
(*     "relock"   woken up, about to lock mut again                        *)
(*     "test"     try_pop() about to call data_queue.empty()               *)
(*     "take"     about to copy the front   "pop"  about to pop it         *)
(*     "size"     empty() about to call data_queue.empty()                 *)
(*     "copy"     in the assignment of the copy constructor                *)
(*     "unlock"   in the destructor of the lock                            *)
(***************************************************************************)
PCs == {"idle", "lock", "push", "notify", "check", "waiting", "relock", "test",
        "take", "pop", "size", "copy", "unlock"}

\* The steps made with mut locked.
Locked == {"push", "notify", "check", "test", "take", "pop", "size", "copy", "unlock"}

Waiting == {t \in Threads : pc[t] = "waiting"}

Goto(t, label) == pc' = [pc EXCEPT ![t] = label]

At(t, label) == pc[t] = label

-------------------------------------------------------------------------

Call(t, o, v) ==
  /\ At(t, "idle")
  /\ calls[t] < MaxCalls
  /\ o \in MayCall[t]
  /\ calls' = [calls EXCEPT ![t] = @ + 1]
  /\ op' = [op EXCEPT ![t] = o]
  /\ val' = [val EXCEPT ![t] = v]
  /\ Goto(t, "lock")
  /\ UNCHANGED <<mut, data_queue, copied, history>>

push(t) == \E v \in Values : Call(t, "push", v)
wait_and_pop(t) == Call(t, "wait_and_pop", NoValue)
try_pop(t) == Call(t, "try_pop", NoValue)
empty(t) == Call(t, "empty", NoValue)
copy(t) == Call(t, "copy", NoValue)

\* The first statement after the lock is held.
FirstStep(o) ==
  CASE o = "push" -> "push"
    [] o = "wait_and_pop" -> "check"
    [] o = "try_pop" -> "test"
    [] o = "empty" -> "size"
    [] o = "copy" -> "copy"

\* Mutation: the copy constructor does not lock other.mut.
lock_unless_copy(t) ==
  /\ At(t, "lock")
  /\ IF op[t] = "copy" THEN UNCHANGED mut ELSE mut = NoThread /\ mut' = t
  /\ Goto(t, FirstStep(op[t]))
  /\ UNCHANGED <<data_queue, op, val, copied, calls, history>>

lock(t) ==
  /\ At(t, "lock")
  /\ mut = NoThread
  /\ mut' = t
  /\ Goto(t, FirstStep(op[t]))
  /\ UNCHANGED <<data_queue, op, val, copied, calls, history>>

unlock(t) ==
  /\ At(t, "unlock")
  /\ mut' = NoThread
  /\ copied' = [copied EXCEPT ![t] = <<>>]
  /\ Goto(t, "idle")
  /\ UNCHANGED <<data_queue, op, val, calls, history>>

\* data_queue.push(new_value).
push_value(t) ==
  /\ At(t, "push")
  /\ data_queue' = Append(data_queue, val[t])
  /\ pushed' = Append(pushed, val[t])
  /\ Goto(t, "notify")
  /\ UNCHANGED <<mut, op, val, copied, calls, popped, failures>>

\* data_queue.push throws and leaves the queue as it was.
push_throws(t) ==
  /\ CopyMayFail
  /\ At(t, "push")
  /\ Goto(t, "unlock")
  /\ UNCHANGED <<mut, data_queue, op, val, copied, calls, history>>

\* Mutation: consumers are notified only when the queue was empty before.
notify_one_if_first(t) ==
  /\ At(t, "notify")
  /\ IF Waiting = {} \/ Len(data_queue) > 1
     THEN Goto(t, "unlock")
     ELSE \E w \in Waiting : pc' = [pc EXCEPT ![t] = "unlock", ![w] = "relock"]
  /\ UNCHANGED <<mut, data_queue, op, val, copied, calls, history>>

\* data_cond.notify_one(), with mut still locked.
notify_one(t) ==
  /\ At(t, "notify")
  /\ IF Waiting = {}
     THEN Goto(t, "unlock")
     ELSE \E w \in Waiting : pc' = [pc EXCEPT ![t] = "unlock", ![w] = "relock"]
  /\ UNCHANGED <<mut, data_queue, op, val, copied, calls, history>>

\* Mutation: the mutex is released before the thread starts waiting.
wait_not_atomic(t) ==
  \/ /\ At(t, "check")
     /\ mut = t
     /\ IF data_queue = <<>>
        THEN mut' = NoThread /\ UNCHANGED pc
        ELSE UNCHANGED mut /\ Goto(t, "take")
     /\ UNCHANGED <<data_queue, op, val, copied, calls, history>>
  \/ /\ At(t, "check")
     /\ mut # t
     /\ Goto(t, "waiting")
     /\ UNCHANGED <<mut, data_queue, op, val, copied, calls, history>>

\* The predicate of data_cond.wait(); when it is false the mutex is
\* released and the thread starts waiting in one step.
wait(t) ==
  /\ At(t, "check")
  /\ IF data_queue = <<>>
     THEN mut' = NoThread /\ Goto(t, "waiting")
     ELSE UNCHANGED mut /\ Goto(t, "take")
  /\ UNCHANGED <<data_queue, op, val, copied, calls, history>>

\* A wait may end without a notification.
spurious_wakeup(t) ==
  /\ At(t, "waiting")
  /\ Goto(t, "relock")
  /\ UNCHANGED <<mut, data_queue, op, val, copied, calls, history>>

\* Mutation: wait() returns without evaluating the predicate again.
wait_returns_unchecked(t) ==
  /\ At(t, "relock")
  /\ mut = NoThread
  /\ mut' = t
  /\ Goto(t, "take")
  /\ UNCHANGED <<data_queue, op, val, copied, calls, history>>

\* wait() locks mut again before it evaluates the predicate.
wait_relocks(t) ==
  /\ At(t, "relock")
  /\ mut = NoThread
  /\ mut' = t
  /\ Goto(t, "check")
  /\ UNCHANGED <<data_queue, op, val, copied, calls, history>>

\* try_pop() on an empty queue returns false or a null pointer.
try_pop_tests(t) ==
  /\ At(t, "test")
  /\ Goto(t, IF data_queue = <<>> THEN "unlock" ELSE "take")
  /\ UNCHANGED <<mut, data_queue, op, val, copied, calls, history>>

\* Mutation: front is moved out before the copy is known to succeed.
take_front_moves(t) ==
  /\ At(t, "take")
  /\ val' = [val EXCEPT ![t] = Head(data_queue)]
  /\ data_queue' = Tail(data_queue)
  /\ Goto(t, "unlock")
  /\ UNCHANGED <<mut, op, copied, calls, history>>

\* value = data_queue.front(), or make_shared of it.
take_front(t) ==
  /\ At(t, "take")
  /\ val' = [val EXCEPT ![t] = Head(data_queue)]
  /\ Goto(t, "pop")
  /\ UNCHANGED <<mut, data_queue, op, copied, calls, history>>

\* The copy throws: the front stays in the queue, the caller gets nothing.
take_throws(t) ==
  /\ CopyMayFail
  /\ At(t, "take")
  /\ failures' = failures + 1
  /\ Goto(t, "unlock")
  /\ UNCHANGED <<mut, data_queue, op, val, copied, calls, pushed, popped>>

pop(t) ==
  /\ At(t, "pop")
  /\ data_queue' = Tail(data_queue)
  /\ popped' = Append(popped, val[t])
  /\ Goto(t, "unlock")
  /\ UNCHANGED <<mut, op, val, copied, calls, pushed, failures>>

\* empty() reads the answer; it may be stale as soon as mut is unlocked.
empty_reads(t) ==
  /\ At(t, "size")
  /\ Goto(t, "unlock")
  /\ UNCHANGED <<mut, data_queue, op, val, copied, calls, history>>

\* data_queue = other.data_queue, one element after the other.
copy_element(t) ==
  /\ At(t, "copy")
  /\ Len(copied[t]) < Len(data_queue)
  /\ copied' = [copied EXCEPT ![t] = Append(@, data_queue[Len(@) + 1])]
  /\ UNCHANGED <<mut, data_queue, pc, op, val, calls, history>>

\* The assignment returns, or copying an element throws.
copy_ends(t) ==
  /\ At(t, "copy")
  /\ Len(copied[t]) = Len(data_queue) \/ CopyMayFail
  /\ Goto(t, "unlock")
  /\ UNCHANGED <<mut, data_queue, op, val, copied, calls, history>>

-------------------------------------------------------------------------

Init ==
  /\ mut = NoThread
  /\ data_queue = <<>>
  /\ pc = [t \in Threads |-> "idle"]
  /\ op = [t \in Threads |-> "empty"]
  /\ val = [t \in Threads |-> NoValue]
  /\ copied = [t \in Threads |-> <<>>]
  /\ calls = [t \in Threads |-> 0]
  /\ pushed = <<>> /\ popped = <<>> /\ failures = 0

Enter(t) == push(t) \/ wait_and_pop(t) \/ try_pop(t) \/ empty(t) \/ copy(t)

Continue(t) ==
  \/ lock(t) \/ unlock(t)
  \/ push_value(t) \/ push_throws(t) \/ notify_one(t)
  \/ wait(t) \/ wait_relocks(t) \/ try_pop_tests(t)
  \/ take_front(t) \/ take_throws(t) \/ pop(t)
  \/ empty_reads(t) \/ copy_element(t) \/ copy_ends(t)

Next == \E t \in Threads : Enter(t) \/ Continue(t) \/ spurious_wakeup(t)

Spec == Init /\ [][Next]_vars

\* A thread inside the queue gets the processor and, calls being finite, in
\* the end the mutex.  Nobody has to call, or to wake up for no reason.
FairSpec == Spec /\ \A t \in Threads : WF_vars(Continue(t))

-------------------------------------------------------------------------
(* Properties.                                                             *)

\* Type invariant.
TypeOK ==
  /\ mut \in Threads \cup {NoThread}
  /\ data_queue \in Seq(Values)
  /\ pc \in [Threads -> PCs]
  /\ op \in [Threads -> Ops]
  /\ val \in [Threads -> Values \cup {NoValue}]
  /\ copied \in [Threads -> Seq(Values)]
  /\ calls \in [Threads -> Nat]
  /\ pushed \in Seq(Values)
  /\ popped \in Seq(Values)
  /\ failures \in Nat

\* Mutual exclusion: a thread is between lock and unlock exactly when it owns
\* mut, however its call ends and however often it waited.
Guarded == \A t \in Threads : pc[t] \in Locked <=> mut = t

\* Nothing is lost, duplicated or reordered: what has come out followed by
\* what is inside is what went in, whatever threw on the way.
FIFO == popped \o data_queue = pushed

\* front() and pop() are never called on an empty queue, which would be
\* undefined, and the element that is popped is the one that was copied.
FrontIsMine ==
  \A t \in Threads :
    /\ pc[t] \in {"take", "pop"} => data_queue # <<>>
    /\ At(t, "pop") => val[t] = Head(data_queue)

\* A copy is the queue at one instant, not a mixture of several: while it is
\* being built it is a prefix of the contents.
CopyIsSnapshot ==
  \A t \in Threads :
    At(t, "copy") => /\ Len(copied[t]) <= Len(data_queue)
                     /\ copied[t] = SubSeq(data_queue, 1, Len(copied[t]))

\* The threads that will look at the queue, or have yet to wake up one that
\* does.
Awake ==
  {t \in Threads : \/ pc[t] \in {"check", "relock", "take", "pop", "notify"}
                   \/ pc[t] = "lock" /\ op[t] = "wait_and_pop"}

\* No lost wake-up: while a consumer waits, every element has a consumer
\* that is awake to take it, or a push that has yet to notify.  A consumer
\* whose copy throws uses up its notification, and each one that does so may
\* leave one element beside those who wait.
NoLostWakeup ==
  Waiting # {} => Len(data_queue) <= Cardinality(Awake) + failures

\* As long as no copy throws, an element and a waiting consumer do not stay
\* beside each other for ever.
Served ==
  Waiting # {} /\ data_queue # <<>> ~> Waiting = {} \/ data_queue = <<>> \/ failures > 0

=========================================================================
