-------------------------- MODULE ThreadSafeStack --------------------------
(***************************************************************************)
(* class ThreadSafeStack (ThreadSafeStack.h): a std::stack behind a mutex. *)
(* pop() throws empty_stack instead of exposing top(); it copies the top   *)
(* element, which may throw, before it removes it.  Both overloads of      *)
(* pop() take the same steps.                                              *)
(***************************************************************************)
EXTENDS Naturals, Sequences

CONSTANTS
  Threads,      \* the threads that use one stack
  Values,       \* what they push
  MaxSize,      \* bound: no push is called on a stack of this size
  CopyMayFail,  \* may copying, moving or allocating an element throw?
  NoThread, NoValue

ASSUME StackAssumption ==
  /\ MaxSize \in Nat
  /\ CopyMayFail \in BOOLEAN
  /\ NoThread \notin Threads

VARIABLES
  data,     \* bottom first
  m,        \* the thread that owns the mutex
  pc, op,   \* where each thread stands, in which operation
  val,      \* its new_value, or its copy of the top
  copied,   \* the stack its copy constructor is building
  result    \* what its last operation returned or threw

local == <<op, val, copied>>
vars == <<data, m, pc, local, result>>

Ops == {"push", "pop", "empty", "copy"}

(***************************************************************************)
(* pc: "idle"    outside the stack                                         *)
(*     "lock"    in the constructor of lock_guard                          *)
(*     op[t]     about to run the first statement under the lock           *)
(*     "top"     pop() about to copy the top                               *)
(*     "remove"  pop() about to call data.pop()                            *)
(*     "unlock"  in the destructor of lock_guard                           *)
(***************************************************************************)
PCs == {"idle", "lock", "top", "remove", "unlock"} \cup Ops

Locked == PCs \ {"idle", "lock"}

At(t, label) == pc[t] = label
Goto(t, label) == pc' = [pc EXCEPT ![t] = label]

Returns(t, kind, vals) ==
  result' = [result EXCEPT ![t] = [kind |-> kind, vals |-> vals]]

-------------------------------------------------------------------------

Call(t, o, v) ==
  /\ At(t, "idle")
  /\ op' = [op EXCEPT ![t] = o]
  /\ val' = [val EXCEPT ![t] = v]
  /\ Goto(t, "lock")
  /\ UNCHANGED <<data, m, copied, result>>

push(t) == Len(data) < MaxSize /\ \E v \in Values : Call(t, "push", v)
pop(t) == Call(t, "pop", NoValue)
empty(t) == Call(t, "empty", NoValue)
copy(t) == Call(t, "copy", NoValue)

\* Mutation: empty() and the copy constructor read without the lock.
lock_writers(t) ==
  /\ At(t, "lock")
  /\ IF op[t] \in {"push", "pop"} THEN m = NoThread /\ m' = t ELSE UNCHANGED m
  /\ Goto(t, op[t])
  /\ UNCHANGED <<data, local, result>>

lock(t) ==
  /\ At(t, "lock")
  /\ m = NoThread
  /\ m' = t
  /\ Goto(t, op[t])
  /\ UNCHANGED <<data, local, result>>

unlock(t) ==
  /\ At(t, "unlock")
  /\ m' = NoThread
  /\ copied' = [copied EXCEPT ![t] = <<>>]
  /\ val' = [val EXCEPT ![t] = NoValue]
  /\ Goto(t, "idle")
  /\ UNCHANGED <<data, op, result>>

\* data.push(std::move(new_value)).
push_value(t) ==
  /\ At(t, "push")
  /\ data' = Append(data, val[t])
  /\ Returns(t, "pushed", <<>>)
  /\ Goto(t, "unlock")
  /\ UNCHANGED <<m, local>>

\* Mutation: the lock is taken anew between the test and the top.
pop_tests_unlocked(t) ==
  /\ At(t, "pop")
  /\ data # <<>>
  /\ Goto(t, "top")
  /\ m' = NoThread
  /\ UNCHANGED <<data, local, result>>

\* if(data.empty()) is false.
pop_tests(t) ==
  /\ At(t, "pop")
  /\ data # <<>>
  /\ Goto(t, "top")
  /\ UNCHANGED <<data, m, local, result>>

\* if(data.empty()) throw empty_stack().
pop_underflows(t) ==
  /\ At(t, "pop")
  /\ data = <<>>
  /\ Returns(t, "empty_stack", <<>>)
  /\ Goto(t, "unlock")
  /\ UNCHANGED <<data, m, local>>

\* make_shared<T>(data.top()), or value = data.top().
pop_copies(t) ==
  /\ At(t, "top")
  /\ val' = [val EXCEPT ![t] = data[Len(data)]]
  /\ Goto(t, "remove")
  /\ UNCHANGED <<data, m, op, copied, result>>

\* push, the copy of the top or the copy of the stack throws.
operation_throws(t) ==
  /\ CopyMayFail
  /\ pc[t] \in {"push", "top", "copy"}
  /\ Returns(t, "threw", <<>>)
  /\ Goto(t, "unlock")
  /\ UNCHANGED <<data, m, local>>

\* data.pop(), and the copy goes to the caller.
pop_removes(t) ==
  /\ At(t, "remove")
  /\ data' = SubSeq(data, 1, Len(data) - 1)
  /\ Returns(t, "popped", <<val[t]>>)
  /\ Goto(t, "unlock")
  /\ UNCHANGED <<m, local>>

\* return data.empty(); stale as soon as the lock is released.
empty_reads(t) ==
  /\ At(t, "empty")
  /\ Returns(t, IF data = <<>> THEN "true" ELSE "false", <<>>)
  /\ Goto(t, "unlock")
  /\ UNCHANGED <<data, m, local>>

\* data = other.data, one element after the other.
copy_element(t) ==
  /\ At(t, "copy")
  /\ Len(copied[t]) < Len(data)
  /\ copied' = [copied EXCEPT ![t] = Append(@, data[Len(@) + 1])]
  /\ UNCHANGED <<data, m, pc, op, val, result>>

copy_returns(t) ==
  /\ At(t, "copy")
  /\ Len(copied[t]) >= Len(data)
  /\ Returns(t, "copied", copied[t])
  /\ Goto(t, "unlock")
  /\ UNCHANGED <<data, m, local>>

-------------------------------------------------------------------------

Init ==
  /\ data = <<>>
  /\ m = NoThread
  /\ pc = [t \in Threads |-> "idle"]
  /\ op = [t \in Threads |-> "empty"]
  /\ val = [t \in Threads |-> NoValue]
  /\ copied = [t \in Threads |-> <<>>]
  /\ result = [t \in Threads |-> [kind |-> "none", vals |-> <<>>]]

Enter(t) == push(t) \/ pop(t) \/ empty(t) \/ copy(t)

Continue(t) ==
  \/ lock(t) \/ unlock(t)
  \/ push_value(t)
  \/ pop_tests(t) \/ pop_underflows(t) \/ pop_copies(t) \/ pop_removes(t)
  \/ empty_reads(t) \/ copy_element(t) \/ copy_returns(t)
  \/ operation_throws(t)

Next == \E t \in Threads : Enter(t) \/ Continue(t)

Spec == Init /\ [][Next]_vars

-------------------------------------------------------------------------
(* Properties.                                                             *)

\* Type invariant.
TypeOK ==
  /\ data \in Seq(Values)
  /\ m \in Threads \cup {NoThread}
  /\ pc \in [Threads -> PCs]
  /\ op \in [Threads -> Ops]
  /\ val \in [Threads -> Values \cup {NoValue}]
  /\ copied \in [Threads -> Seq(Values)]

\* Mutual exclusion: a thread is between the two ends of its lock_guard
\* exactly when it owns m, also when it leaves by an exception.
Guarded == \A t \in Threads : pc[t] \in Locked <=> m = t

\* top() and pop() are never called on an empty stack, and pop() removes
\* the element that was copied.
TopIsMine ==
  \A t \in Threads :
    /\ pc[t] \in {"top", "remove"} => data # <<>>
    /\ At(t, "remove") => val[t] = data[Len(data)]

\* Each operation, whatever others do at the same time, looks as if it had
\* happened at one instant; one that throws has no effect at all.
Abstract == INSTANCE AtomicStack WITH stack <- data
Linearizable == Abstract!Spec

=========================================================================
