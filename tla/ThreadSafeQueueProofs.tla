---------------------- MODULE ThreadSafeQueueProofs ----------------------
(***************************************************************************)
(* Machine-checked proofs about ThreadSafeQueue, for every set of threads, *)
(* every set of values, any number of calls, and with or without throwing  *)
(* copies: mutual exclusion, FIFO order without loss or duplication,       *)
(* copies that are snapshots, and no lost wake-up.                         *)
(***************************************************************************)
EXTENDS ThreadSafeQueue, FiniteSetTheorems, TLAPS

-------------------------------------------------------------------------
(* The inductive invariant.                                                *)

\* What push() was called with is a value until it is in the queue.
ArgumentIsValue ==
  \A t \in Threads :
    At(t, "push") \/ (At(t, "lock") /\ op[t] = "push") => val[t] \in Values

\* A copy is started from nothing.
CopyStartsEmpty == \A t \in Threads : pc[t] \notin {"copy", "unlock"} => copied[t] = <<>>

IInv ==
  /\ TypeOK
  /\ Guarded
  /\ FIFO
  /\ FrontIsMine
  /\ CopyIsSnapshot
  /\ ArgumentIsValue
  /\ CopyStartsEmpty

-------------------------------------------------------------------------
(* Sequences.                                                              *)

\* Moving the head of one sequence to the end of another keeps their
\* concatenation.
LEMMA MoveHead ==
  ASSUME NEW S, NEW p \in Seq(S), NEW q \in Seq(S), q # <<>>
  PROVE  /\ Head(q) \in S /\ Tail(q) \in Seq(S)
         /\ Append(p, Head(q)) \o Tail(q) = p \o q
  OBVIOUS

\* Appending to the second of two sequences appends to their concatenation.
LEMMA AppendConcat ==
  ASSUME NEW S, NEW p \in Seq(S), NEW q \in Seq(S), NEW v \in S
  PROVE  p \o Append(q, v) = Append(p \o q, v)
  OBVIOUS

\* A prefix stays one when it grows by the next element.
LEMMA PrefixGrows ==
  ASSUME NEW S, NEW q \in Seq(S), NEW p \in Seq(S),
         Len(p) < Len(q), p = SubSeq(q, 1, Len(p))
  PROVE  /\ Append(p, q[Len(p) + 1]) \in Seq(S)
         /\ Len(Append(p, q[Len(p) + 1])) <= Len(q)
         /\ Append(p, q[Len(p) + 1]) = SubSeq(q, 1, Len(Append(p, q[Len(p) + 1])))
  OBVIOUS

\* Appending at the end keeps every prefix.
LEMMA PrefixStays ==
  ASSUME NEW S, NEW q \in Seq(S), NEW v \in S, NEW n \in 0 .. Len(q)
  PROVE  SubSeq(Append(q, v), 1, n) = SubSeq(q, 1, n)
  OBVIOUS

-------------------------------------------------------------------------
(* The invariant is inductive.                                             *)

\* Steps that change neither the queue nor what has been copied.
LEMMA ControlStep ==
  ASSUME IInv, NEW t \in Threads,
         \/ Enter(t) \/ lock(t) \/ unlock(t) \/ push_throws(t) \/ wait(t)
         \/ wait_relocks(t) \/ try_pop_tests(t) \/ take_throws(t)
         \/ empty_reads(t) \/ copy_ends(t) \/ spurious_wakeup(t)
  PROVE  IInv'
<1> USE QueueAssumption DEF IInv, Goto, At, PCs
<1>1. CASE Enter(t)
  <2>1. PICK o \in Ops, v \in Values \cup {NoValue} :
          Call(t, o, v) /\ (o = "push" => v \in Values)
    BY <1>1 DEF Enter, push, wait_and_pop, try_pop, empty, copy, Ops
  <2>2. TypeOK' /\ FIFO'
    BY <2>1 DEF Call, TypeOK, history, FIFO
  <2>3. /\ Guarded' /\ FrontIsMine' /\ CopyIsSnapshot' /\ ArgumentIsValue'
        /\ CopyStartsEmpty'
    BY <2>1 DEF Call, TypeOK, Guarded, FrontIsMine, CopyIsSnapshot, ArgumentIsValue,
       CopyStartsEmpty, Locked
  <2> QED
    BY <2>2, <2>3
<1>2. CASE lock(t)
  <2>1. FirstStep(op[t]) \in Locked /\ FirstStep(op[t]) \notin {"take", "pop"}
        /\ (FirstStep(op[t]) = "push" => op[t] = "push")
    BY DEF FirstStep, TypeOK, Ops, Locked
  <2>2. TypeOK' /\ FIFO'
    BY <1>2, <2>1 DEF lock, TypeOK, history, FIFO, Locked
  <2>3. Guarded' /\ FrontIsMine' /\ ArgumentIsValue' /\ CopyStartsEmpty'
    BY <1>2, <2>1 DEF lock, TypeOK, Guarded, FrontIsMine, ArgumentIsValue,
       CopyStartsEmpty, Locked
  <2>4. CopyIsSnapshot'
    BY <1>2 DEF lock, TypeOK, CopyIsSnapshot, CopyStartsEmpty
  <2> QED
    BY <2>2, <2>3, <2>4
<1>3. CASE unlock(t)
  BY <1>3 DEF unlock, TypeOK, history, FIFO, Guarded, FrontIsMine, CopyIsSnapshot,
     ArgumentIsValue, CopyStartsEmpty, Locked
<1>4. CASE push_throws(t)
  BY <1>4 DEF push_throws, TypeOK, history, FIFO, Guarded, FrontIsMine,
     CopyIsSnapshot, ArgumentIsValue, CopyStartsEmpty, Locked
<1>5. CASE wait(t)
  <2>1. PICK label \in {"waiting", "take"} :
          /\ pc[t] = "check" /\ Goto(t, label)
          /\ mut' = IF label = "waiting" THEN NoThread ELSE mut
          /\ label = "take" => data_queue # <<>>
          /\ UNCHANGED <<data_queue, op, val, copied, calls, pushed, popped, failures>>
    BY <1>5, Zenon DEF wait, history
  <2>2. TypeOK' /\ FIFO'
    BY <2>1 DEF TypeOK, FIFO
  <2>3. Guarded'
    BY <2>1 DEF TypeOK, Guarded, Locked
  <2>4. FrontIsMine' /\ ArgumentIsValue' /\ CopyStartsEmpty' /\ CopyIsSnapshot'
    BY <2>1 DEF TypeOK, FrontIsMine, CopyIsSnapshot, ArgumentIsValue, CopyStartsEmpty
  <2> QED
    BY <2>2, <2>3, <2>4
<1>6. CASE wait_relocks(t)
  BY <1>6 DEF wait_relocks, TypeOK, history, FIFO, Guarded, FrontIsMine,
     CopyIsSnapshot, ArgumentIsValue, CopyStartsEmpty, Locked
<1>7. CASE try_pop_tests(t)
  BY <1>7 DEF try_pop_tests, TypeOK, history, FIFO, Guarded, FrontIsMine,
     CopyIsSnapshot, ArgumentIsValue, CopyStartsEmpty, Locked
<1>8. CASE take_throws(t)
  BY <1>8 DEF take_throws, TypeOK, FIFO, Guarded, FrontIsMine,
     CopyIsSnapshot, ArgumentIsValue, CopyStartsEmpty, Locked
<1>9. CASE empty_reads(t)
  BY <1>9 DEF empty_reads, TypeOK, history, FIFO, Guarded, FrontIsMine,
     CopyIsSnapshot, ArgumentIsValue, CopyStartsEmpty, Locked
<1>10. CASE copy_ends(t)
  BY <1>10 DEF copy_ends, TypeOK, history, FIFO, Guarded, FrontIsMine,
     CopyIsSnapshot, ArgumentIsValue, CopyStartsEmpty, Locked
<1>11. CASE spurious_wakeup(t)
  BY <1>11 DEF spurious_wakeup, TypeOK, history, FIFO, Guarded, FrontIsMine,
     CopyIsSnapshot, ArgumentIsValue, CopyStartsEmpty, Locked
<1> QED
  BY <1>1, <1>2, <1>3, <1>4, <1>5, <1>6, <1>7, <1>8, <1>9, <1>10, <1>11

\* notify_one() moves two threads at once, neither into nor out of the lock.
LEMMA NotifyStep ==
  ASSUME IInv, NEW t \in Threads, notify_one(t)
  PROVE  IInv'
<1> USE DEF IInv, Goto, At, PCs
<1>1. /\ \/ pc' = [pc EXCEPT ![t] = "unlock"]
         \/ \E w \in Waiting : pc' = [pc EXCEPT ![t] = "unlock", ![w] = "relock"]
      /\ pc[t] = "notify"
      /\ UNCHANGED <<mut, data_queue, op, val, copied, calls, history>>
  BY DEF notify_one
<1>2. /\ pc' \in [Threads -> PCs] /\ pc'[t] = "unlock"
      /\ \A u \in Threads : u # t =>
           pc'[u] = pc[u] \/ (pc[u] = "waiting" /\ pc'[u] = "relock")
  BY <1>1 DEF TypeOK, Waiting
<1>3. TypeOK' /\ FIFO'
  BY <1>1, <1>2 DEF TypeOK, FIFO, history
<1>4. Guarded' /\ FrontIsMine'
  BY <1>1, <1>2 DEF Guarded, FrontIsMine, Locked
<1>5. CopyIsSnapshot' /\ ArgumentIsValue' /\ CopyStartsEmpty'
  BY <1>1, <1>2 DEF CopyIsSnapshot, ArgumentIsValue, CopyStartsEmpty
<1> QED
  BY <1>3, <1>4, <1>5

\* The steps that change the queue, or copy an element out of it.
LEMMA DataStep ==
  ASSUME IInv, NEW t \in Threads,
         push_value(t) \/ take_front(t) \/ pop(t) \/ copy_element(t)
  PROVE  IInv'
<1> USE DEF IInv, Goto, At, PCs
<1>1. \A u \in Threads : u # t /\ pc[t] \in Locked => pc[u] \notin Locked
  BY DEF Guarded
<1>2. CASE push_value(t)
  <2>1. val[t] \in Values
    BY <1>2 DEF push_value, ArgumentIsValue
  <2>2. TypeOK'
    BY <1>2, <2>1 DEF push_value, TypeOK
  <2>3. FIFO'
    BY <1>2, <2>1, AppendConcat DEF push_value, TypeOK, FIFO
  <2>4. Guarded' /\ ArgumentIsValue' /\ CopyStartsEmpty'
    BY <1>2 DEF push_value, TypeOK, Guarded, ArgumentIsValue, CopyStartsEmpty, Locked
  <2>5. FrontIsMine' /\ CopyIsSnapshot'
    BY <1>1, <1>2 DEF push_value, TypeOK, FrontIsMine, CopyIsSnapshot, Locked
  <2> QED
    BY <2>2, <2>3, <2>4, <2>5
<1>3. CASE take_front(t)
  <2>1. data_queue # <<>> /\ Head(data_queue) \in Values
    BY <1>3 DEF take_front, FrontIsMine, TypeOK
  <2>2. TypeOK' /\ FIFO'
    BY <1>3, <2>1 DEF take_front, TypeOK, FIFO, history
  <2>3. Guarded' /\ ArgumentIsValue' /\ CopyStartsEmpty'
    BY <1>3 DEF take_front, TypeOK, Guarded, ArgumentIsValue, CopyStartsEmpty, Locked
  <2>4. FrontIsMine' /\ CopyIsSnapshot'
    BY <1>3, <2>1 DEF take_front, TypeOK, FrontIsMine, CopyIsSnapshot
  <2> QED
    BY <2>2, <2>3, <2>4
<1>4. CASE pop(t)
  <2>1. data_queue # <<>> /\ val[t] = Head(data_queue)
    BY <1>4 DEF pop, FrontIsMine
  <2>2. /\ val[t] \in Values /\ Tail(data_queue) \in Seq(Values)
        /\ Append(popped, val[t]) \o Tail(data_queue) = popped \o data_queue
    BY <2>1, MoveHead DEF TypeOK
  <2>3. TypeOK'
    BY <1>4, <2>2 DEF pop, TypeOK
  <2>4. FIFO'
    BY <1>4, <2>2 DEF pop, FIFO
  <2>5. Guarded' /\ ArgumentIsValue' /\ CopyStartsEmpty'
    BY <1>4 DEF pop, TypeOK, Guarded, ArgumentIsValue, CopyStartsEmpty, Locked
  <2>6. FrontIsMine' /\ CopyIsSnapshot'
    BY <1>1, <1>4 DEF pop, TypeOK, FrontIsMine, CopyIsSnapshot, Locked
  <2> QED
    BY <2>3, <2>4, <2>5, <2>6
<1>5. CASE copy_element(t)
  <2>1. /\ copied[t] \in Seq(Values) /\ Len(copied[t]) < Len(data_queue)
        /\ copied[t] = SubSeq(data_queue, 1, Len(copied[t]))
    BY <1>5 DEF copy_element, CopyIsSnapshot, TypeOK
  <2> DEFINE next == Append(copied[t], data_queue[Len(copied[t]) + 1])
  <2>2. /\ next \in Seq(Values) /\ Len(next) <= Len(data_queue)
        /\ next = SubSeq(data_queue, 1, Len(next))
    BY <2>1, PrefixGrows DEF TypeOK
  <2>3. copied' = [copied EXCEPT ![t] = next]
    BY <1>5 DEF copy_element
  <2> HIDE DEF next
  <2>4. TypeOK' /\ FIFO'
    BY <1>5, <2>2, <2>3 DEF copy_element, TypeOK, FIFO, history
  <2>5. Guarded' /\ FrontIsMine' /\ ArgumentIsValue' /\ CopyStartsEmpty'
    BY <1>5, <2>3 DEF copy_element, TypeOK, Guarded, FrontIsMine, ArgumentIsValue,
       CopyStartsEmpty
  <2>6. CopyIsSnapshot'
    BY <1>5, <2>2, <2>3 DEF copy_element, TypeOK, CopyIsSnapshot
  <2> QED
    BY <2>4, <2>5, <2>6
<1> QED
  BY <1>2, <1>3, <1>4, <1>5

\* Every step preserves the invariant.
LEMMA InvariantStep == IInv /\ [Next]_vars => IInv'
<1> SUFFICES ASSUME IInv, [Next]_vars PROVE IInv'
  OBVIOUS
<1>1. CASE UNCHANGED vars
  BY <1>1 DEF vars, callVars, history, IInv, TypeOK, Guarded, FIFO, FrontIsMine,
     CopyIsSnapshot, ArgumentIsValue, CopyStartsEmpty, At
<1>2. ASSUME NEW t \in Threads, Enter(t) \/ Continue(t) \/ spurious_wakeup(t)
      PROVE  IInv'
  BY <1>2, ControlStep, NotifyStep, DataStep DEF Continue
<1> QED
  BY <1>1, <1>2 DEF Next

\* The inductive invariant holds in every reachable state.
THEOREM InvariantHolds == Spec => []IInv
<1>1. Init => IInv
  BY QueueAssumption DEF Init, IInv, TypeOK, Ops, PCs, Guarded, FIFO, FrontIsMine,
     CopyIsSnapshot, ArgumentIsValue, CopyStartsEmpty, At, Locked
<1> QED
  BY <1>1, InvariantStep, PTL DEF Spec

-------------------------------------------------------------------------
(* What follows from it.                                                   *)

\* Guarded: the critical sections exclude each other.
THEOREM MutualExclusion == Spec => []Guarded
  BY InvariantHolds, PTL DEF IInv

\* FIFO: nothing is lost, duplicated or reordered.
THEOREM Fifo == Spec => []FIFO
  BY InvariantHolds, PTL DEF IInv

\* FrontIsMine: front() and pop() are always defined and concern the same
\* element.
THEOREM PopIsDefined == Spec => []FrontIsMine
  BY InvariantHolds, PTL DEF IInv

\* CopyIsSnapshot: the copy constructor sees one state of the queue.
THEOREM Snapshot == Spec => []CopyIsSnapshot
  BY InvariantHolds, PTL DEF IInv

-------------------------------------------------------------------------
(* No lost wake-up.                                                        *)

\* The set of threads that are awake is finite, and so is each next one.
LEMMA AwakeFinite ==
  /\ IsFiniteSet(Awake) /\ Cardinality(Awake) \in Nat
  /\ IsFiniteSet(Awake') /\ Cardinality(Awake') \in Nat
<1>1. Awake \in SUBSET Threads /\ Awake' \in SUBSET Threads
  BY DEF Awake
<1>2. IsFiniteSet(Awake) /\ IsFiniteSet(Awake')
  BY <1>1, FS_Subset, QueueAssumption
<1> QED
  BY <1>2, FS_CardinalityType

\* Awake after a step of one thread, from where that thread was and is.
LEMMA AwakeStep ==
  ASSUME TypeOK, NEW t \in Threads, NEW label \in PCs, Goto(t, label),
         op' = op \/ (op' \in [Threads -> Ops] /\ \A u \in Threads \ {t} : op'[u] = op[u])
  PROVE  /\ t \in Awake' => Awake' = Awake \cup {t}
         /\ t \notin Awake' => Awake' = Awake \ {t}
         /\ Waiting' = IF label = "waiting" THEN Waiting \cup {t} ELSE Waiting \ {t}
<1>1. /\ pc'[t] = label
      /\ \A u \in Threads : u # t => pc'[u] = pc[u] /\ op'[u] = op[u]
  BY DEF Goto, TypeOK
<1> QED
  BY <1>1 DEF Awake, Waiting

\* NoLostWakeup: each step pays for the element it adds and for the
\* consumer it sends to sleep.
THEOREM WakeupsNotLost == Spec => []NoLostWakeup
<1>1. Init => NoLostWakeup
  BY DEF Init, NoLostWakeup, Waiting
<1>2. IInv /\ NoLostWakeup /\ [Next]_vars => NoLostWakeup'
  <2> SUFFICES ASSUME IInv, NoLostWakeup, [Next]_vars, Waiting' # {}
               PROVE  Len(data_queue') <= Cardinality(Awake') + failures'
    BY DEF NoLostWakeup
  <2> USE DEF IInv, At
  <2>0. Len(data_queue) \in Nat /\ failures \in Nat
    BY DEF TypeOK
  <2>1. CASE UNCHANGED vars
    <3>1. Awake' = Awake /\ Waiting' = Waiting
      BY <2>1 DEF vars, callVars, Awake, Waiting
    <3> QED
      BY <2>1, <3>1 DEF vars, history, NoLostWakeup
  <2>2. ASSUME NEW t \in Threads, Enter(t) PROVE Len(data_queue') <= Cardinality(Awake') + failures'
    <3>1. PICK o \in Ops, v \in Values \cup {NoValue} : Call(t, o, v)
      BY <2>2 DEF Enter, push, wait_and_pop, try_pop, empty, copy, Ops
    <3>2. /\ Goto(t, "lock") /\ pc[t] = "idle" /\ UNCHANGED <<data_queue, failures>>
          /\ op' \in [Threads -> Ops] /\ \A u \in Threads \ {t} : op'[u] = op[u]
      BY <3>1 DEF Call, TypeOK, history
    <3>3. t \notin Awake
      BY <3>2 DEF Awake
    <3>4. (Awake' = Awake \cup {t} \/ Awake' = Awake) /\ Waiting' = Waiting \ {t}
      BY <3>2, <3>3, AwakeStep DEF PCs
    <3>5. Cardinality(Awake) <= Cardinality(Awake')
      BY <3>4, AwakeFinite, FS_AddElement
    <3> QED
      BY <3>2, <3>4, <3>5, <2>0, AwakeFinite DEF NoLostWakeup
  <2>3. ASSUME NEW t \in Threads, notify_one(t)
        PROVE Len(data_queue') <= Cardinality(Awake') + failures'
    <3>1. Waiting # {}
      BY <2>3 DEF notify_one, Waiting, Goto, TypeOK
    <3>2. PICK w \in Waiting : pc' = [pc EXCEPT ![t] = "unlock", ![w] = "relock"]
      BY <2>3, <3>1 DEF notify_one
    <3>3. pc[t] = "notify" /\ pc[w] = "waiting" /\ w \in Threads /\ w # t
      BY <2>3 DEF notify_one, Waiting
    <3>4. UNCHANGED <<op, data_queue, failures>>
      BY <2>3 DEF notify_one, history
    <3>5. Awake' = (Awake \ {t}) \cup {w} /\ t \in Awake /\ w \notin Awake
      BY <3>2, <3>3, <3>4 DEF Awake, TypeOK
    <3>6. Cardinality(Awake') = Cardinality(Awake)
      <4>1. IsFiniteSet(Awake \ {t}) /\ Cardinality(Awake \ {t}) = Cardinality(Awake) - 1
        BY <3>5, AwakeFinite, FS_RemoveElement
      <4>2. w \notin Awake \ {t}
        BY <3>5
      <4>3. Cardinality((Awake \ {t}) \cup {w}) = Cardinality(Awake \ {t}) + 1
        BY <4>1, <4>2, FS_AddElement
      <4> QED
        BY <3>5, <4>1, <4>3, AwakeFinite
    <3> QED
      BY <3>1, <3>4, <3>6 DEF NoLostWakeup
  <2>4. ASSUME NEW t \in Threads, wait(t)
        PROVE Len(data_queue') <= Cardinality(Awake') + failures'
    <3>1. CASE data_queue = <<>>
      <4>1. UNCHANGED <<data_queue, failures>>
        BY <2>4 DEF wait, history
      <4> QED
        BY <3>1, <4>1, <2>0, AwakeFinite
    <3>2. CASE data_queue # <<>>
      <4>1. /\ Goto(t, "take") /\ pc[t] = "check"
            /\ UNCHANGED <<op, data_queue, failures>>
        BY <2>4, <3>2 DEF wait, history
      <4>2. t \in Awake /\ t \in Awake'
        BY <4>1 DEF Awake, Goto, TypeOK
      <4>3. Awake' = Awake /\ Waiting' = Waiting \ {t}
        BY <4>1, <4>2, AwakeStep DEF PCs
      <4> QED
        BY <4>1, <4>3 DEF NoLostWakeup
    <3> QED
      BY <3>1, <3>2
  <2>5. ASSUME NEW t \in Threads, push_value(t)
        PROVE Len(data_queue') <= Cardinality(Awake') + failures'
    <3>1. /\ Goto(t, "notify") /\ pc[t] = "push" /\ UNCHANGED <<op, failures>>
          /\ Len(data_queue') = Len(data_queue) + 1
      BY <2>5 DEF push_value, TypeOK, ArgumentIsValue
    <3>2. t \notin Awake /\ t \in Awake'
      BY <3>1 DEF Awake, Goto, TypeOK
    <3>3. Awake' = Awake \cup {t} /\ Waiting' = Waiting \ {t}
      BY <3>1, <3>2, AwakeStep DEF PCs
    <3>4. Cardinality(Awake') = Cardinality(Awake) + 1
      BY <3>2, <3>3, AwakeFinite, FS_AddElement
    <3> QED
      BY <3>1, <3>3, <3>4, <2>0, AwakeFinite DEF NoLostWakeup
  <2>6. ASSUME NEW t \in Threads, pop(t) \/ take_throws(t)
        PROVE Len(data_queue') <= Cardinality(Awake') + failures'
    <3>1. /\ Goto(t, "unlock") /\ pc[t] \in {"take", "pop"} /\ UNCHANGED op
          /\ Len(data_queue') - failures' = Len(data_queue) - failures - 1
          /\ failures' \in Nat /\ Len(data_queue') \in Nat
      <4>1. CASE pop(t)
        <5>1. data_queue \in Seq(Values) /\ data_queue # <<>>
          BY <4>1 DEF pop, FrontIsMine, TypeOK
        <5>2. Len(Tail(data_queue)) = Len(data_queue) - 1
          BY <5>1
        <5> QED
          BY <4>1, <5>1, <5>2, <2>0 DEF pop
      <4>2. CASE take_throws(t)
        BY <4>2, <2>0 DEF take_throws
      <4> QED
        BY <2>6, <4>1, <4>2
    <3>2. t \in Awake /\ t \notin Awake'
      BY <3>1 DEF Awake, Goto, TypeOK
    <3>3. Awake' = Awake \ {t} /\ Waiting' = Waiting \ {t}
      BY <3>1, <3>2, AwakeStep DEF PCs
    <3>4. Cardinality(Awake') = Cardinality(Awake) - 1
      BY <3>2, <3>3, AwakeFinite, FS_RemoveElement
    <3>5. Len(data_queue) <= Cardinality(Awake) + failures
      BY <3>3 DEF NoLostWakeup
    <3> QED
      BY <3>1, <3>4, <3>5, <2>0, AwakeFinite
  <2>7. ASSUME NEW t \in Threads,
               \/ lock(t) \/ unlock(t) \/ push_throws(t) \/ wait_relocks(t)
               \/ try_pop_tests(t) \/ take_front(t) \/ empty_reads(t)
               \/ copy_ends(t) \/ spurious_wakeup(t)
        PROVE Len(data_queue') <= Cardinality(Awake') + failures'
    <3>1. PICK label \in PCs :
            /\ Goto(t, label) /\ label # "waiting"
            /\ UNCHANGED <<op, data_queue, failures>>
            /\ t \in Awake => label \in {"check", "take", "pop"}
      <4>1. CASE lock(t)
        <5>1. /\ FirstStep(op[t]) \in PCs \ {"waiting"}
              /\ op[t] = "wait_and_pop" => FirstStep(op[t]) = "check"
          BY DEF FirstStep, PCs, TypeOK, Ops
        <5> QED
          BY <4>1, <5>1 DEF lock, history, Awake
      <4>2. CASE unlock(t) \/ push_throws(t)
        BY <4>2 DEF unlock, push_throws, history, PCs, Awake
      <4>3. CASE wait_relocks(t) \/ take_front(t)
        BY <4>3 DEF wait_relocks, take_front, history, PCs, Awake
      <4>4. CASE try_pop_tests(t)
        BY <4>4 DEF try_pop_tests, history, PCs, Awake
      <4>5. CASE empty_reads(t) \/ copy_ends(t) \/ spurious_wakeup(t)
        BY <4>5 DEF empty_reads, copy_ends, spurious_wakeup, history, PCs, Awake
      <4> QED
        BY <2>7, <4>1, <4>2, <4>3, <4>4, <4>5
    <3>2. (t \in Awake => t \in Awake') /\ Awake' \in {Awake \cup {t}, Awake \ {t}}
          /\ Waiting' = Waiting \ {t}
      <4>1. t \in Awake => t \in Awake'
        BY <3>1 DEF Awake, Goto, TypeOK
      <4> QED
        BY <3>1, <4>1, AwakeStep
    <3>3. Awake' = Awake \cup {t} \/ Awake' = Awake
      BY <3>2
    <3>4. Cardinality(Awake) <= Cardinality(Awake')
      BY <3>3, AwakeFinite, FS_AddElement
    <3> QED
      BY <3>1, <3>2, <3>4, <2>0, AwakeFinite DEF NoLostWakeup
  <2>8. ASSUME NEW t \in Threads, copy_element(t)
        PROVE Len(data_queue') <= Cardinality(Awake') + failures'
    <3>1. UNCHANGED <<pc, op, data_queue, failures>>
      BY <2>8 DEF copy_element, history
    <3>2. Awake' = Awake /\ Waiting' = Waiting
      BY <3>1 DEF Awake, Waiting
    <3> QED
      BY <3>1, <3>2 DEF NoLostWakeup
  <2> QED
    BY <2>1, <2>2, <2>3, <2>4, <2>5, <2>6, <2>7, <2>8 DEF Next, Continue
<1> QED
  BY <1>1, <1>2, InvariantHolds, PTL DEF Spec

=========================================================================
