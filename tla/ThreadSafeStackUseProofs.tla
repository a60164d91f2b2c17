----------------------- MODULE ThreadSafeStackUseProofs -----------------------
(***************************************************************************)
(* Machine-checked proofs about ThreadSafeStackUse, for every number of    *)
(* workers and of pairs: no pair is lost or printed twice, and the stack   *)
(* outlives the workers that refer to it, also when an exception is on its *)
(* way to end the process.                                                 *)
(***************************************************************************)
EXTENDS ThreadSafeStackUse, FiniteSetTheorems, TLAPS

-------------------------------------------------------------------------
(* The inductive invariant.                                                *)

PCs == {"unborn", "test", "pop", "print", "returned"}

TypeOK ==
  /\ stack \in Seq(Values)
  /\ DOMAIN result = Threads
  /\ pc \in [Threads -> PCs]
  /\ started \in 0 .. n_threads /\ joined \in 0 .. n_threads
  /\ main \in {"starting", "joining", "returned"}
  /\ printed \in [Values -> {0, 1}]

\* The pair that a worker has popped and not printed yet.
Held(t) == result[t].vals[1]

InStack(v) == \E k \in 1 .. Len(stack) : stack[k] = v
InHand(v) == \E t \in Threads : pc[t] = "print" /\ Held(t) = v

\* Nothing is in the stack, or in hand, twice, or in two of these places.
Apart ==
  /\ \A j, k \in 1 .. Len(stack) : stack[j] = stack[k] => j = k
  /\ \A t \in Threads : pc[t] = "print" => Held(t) \in Values /\ ~InStack(Held(t))
  /\ \A t, u \in Threads : pc[t] = "print" /\ pc[u] = "print" /\ Held(t) = Held(u) => t = u

\* What is in neither place was printed.
Accounted == \A v \in Values : printed[v] = 0 <=> InStack(v) \/ InHand(v)

\* main() has started and joined the workers in their order.
Lives ==
  /\ main = "starting" => joined = 0 /\ \A t \in Threads : t > started => pc[t] = "unborn"
  /\ main = "returned" => joined = n_threads
  /\ \A t \in Threads : t <= joined => pc[t] = "returned"

IInv == TypeOK /\ Apart /\ Accounted /\ Lives

\* A set that has one element, or none, counts one, or none.
LEMMA Count ==
  ASSUME NEW S
  PROVE  /\ (\A x \in S : FALSE) => Cardinality(S) = 0
         /\ \A x : x \in S /\ (\A y \in S : y = x) => Cardinality(S) = 1
<1>1. ASSUME \A x \in S : FALSE PROVE Cardinality(S) = 0
  <2>1. S = {}
    BY <1>1
  <2> QED
    BY <2>1, FS_EmptySet
<1>2. ASSUME NEW x, x \in S, \A y \in S : y = x PROVE Cardinality(S) = 1
  <2>1. S = {x}
    BY <1>2
  <2> QED
    BY <2>1, FS_Singleton
<1> QED
  BY <1>1, <1>2

\* The inductive invariant says more than the two properties.
LEMMA IInvImplies == IInv => EachOnce /\ StackOutlivesWorkers
<1> SUFFICES ASSUME IInv PROVE EachOnce /\ StackOutlivesWorkers
  OBVIOUS
<1> USE DEF IInv
<1>1. ASSUME NEW v \in Values
      PROVE  printed[v] + Cardinality({t \in Threads : pc[t] = "print" /\ Held(t) = v})
             + Cardinality({k \in 1 .. Len(stack) : stack[k] = v}) = 1
  <2> DEFINE Hands == {t \in Threads : pc[t] = "print" /\ Held(t) = v}
             Places == {k \in 1 .. Len(stack) : stack[k] = v}
  <2>1. printed[v] \in {0, 1}
    BY DEF TypeOK
  <2>2. InHand(v) => Cardinality(Hands) = 1
    <3> SUFFICES ASSUME NEW t \in Threads, pc[t] = "print", Held(t) = v PROVE Cardinality(Hands) = 1
      BY DEF InHand
    <3>1. t \in Hands /\ \A y \in Hands : y = t
      BY DEF Apart
    <3> QED
      BY <3>1, Count
  <2>3. ~InHand(v) => Cardinality(Hands) = 0
    <3> SUFFICES ASSUME ~InHand(v) PROVE Cardinality(Hands) = 0
      OBVIOUS
    <3>1. \A y \in Hands : FALSE
      BY DEF InHand
    <3> QED
      BY <3>1, Count
  <2>4. InStack(v) => Cardinality(Places) = 1
    <3> SUFFICES ASSUME NEW k \in 1 .. Len(stack), stack[k] = v PROVE Cardinality(Places) = 1
      BY DEF InStack
    <3>1. k \in Places /\ \A y \in Places : y = k
      BY DEF Apart
    <3> QED
      BY <3>1, Count
  <2>5. ~InStack(v) => Cardinality(Places) = 0
    <3> SUFFICES ASSUME ~InStack(v) PROVE Cardinality(Places) = 0
      OBVIOUS
    <3>1. \A y \in Places : FALSE
      BY DEF InStack
    <3> QED
      BY <3>1, Count
  <2>6. ~ (InHand(v) /\ InStack(v))
    BY DEF Apart, InHand
  <2>7. printed[v] = 0 <=> InStack(v) \/ InHand(v)
    BY DEF Accounted
  <2> QED
    BY <2>1, <2>2, <2>3, <2>4, <2>5, <2>6, <2>7
<1>2. StackOutlivesWorkers
  <2>1. \A t \in Threads : t <= n_threads
    BY UseAssumption
  <2> QED
    BY <2>1 DEF Lives, StackOutlivesWorkers
<1> QED
  BY <1>1, <1>2 DEF EachOnce, Held

\* main() begins with the invariant.
LEMMA UseInitHolds == UseInit => IInv
<1> SUFFICES ASSUME UseInit PROVE IInv
  OBVIOUS
<1> USE UseAssumption DEF UseInit, makeStack
<1>1. Len(stack) = n_iterations /\ stack \in Seq(Values)
  OBVIOUS
<1>2. \A v \in Values : InStack(v)
  BY <1>1 DEF InStack
<1>3. TypeOK
  BY <1>1 DEF TypeOK, PCs
<1>4. Apart /\ Accounted /\ Lives
  BY <1>1, <1>2 DEF Apart, Accounted, Lives
<1> QED
  BY <1>3, <1>4 DEF IInv

\* A worker that has no pair in hand, and does not pop one, leaves the pairs where they are.
LEMMA IdleStep ==
  ASSUME IInv, NEW t \in Threads, NEW label \in PCs \ {"print"},
         pc[t] \notin {"print", "returned"}, pc[t] # "unborn",
         pc' \in {pc, [pc EXCEPT ![t] = label]},
         DOMAIN result' = Threads, \A u \in Threads : u # t => result'[u] = result[u],
         UNCHANGED <<stack, main, started, joined, printed>>
  PROVE  IInv'
<1> USE DEF IInv
<1>1. /\ pc' \in [Threads -> PCs]
      /\ \A u \in Threads : u # t => pc'[u] = pc[u]
      /\ pc'[t] # "print"
  BY DEF TypeOK
<1>2. \A u \in Threads : /\ pc'[u] = "print" <=> pc[u] = "print"
                         /\ pc[u] = "print" => Held(u)' = Held(u)
  BY <1>1 DEF Held
<1>3. \A v : (InStack(v)' <=> InStack(v)) /\ (InHand(v)' <=> InHand(v))
  BY <1>2 DEF InStack, InHand
<1>4. TypeOK'
  BY <1>1 DEF TypeOK
<1>5. Apart'
  BY <1>2, <1>3 DEF Apart
<1>6. Accounted'
  BY <1>3 DEF Accounted
<1>7. Lives'
  BY <1>1 DEF Lives
<1> QED
  BY <1>4, <1>5, <1>6, <1>7

\* The pair on the top goes from the stack into the hands of the worker.
LEMMA PopStep == ASSUME IInv, NEW t \in Threads, work_pops(t) PROVE IInv'
<1> USE DEF IInv
<1>1. /\ pc[t] = "pop" /\ stack # <<>>
      /\ stack' = SubSeq(stack, 1, Len(stack) - 1)
      /\ result' = [result EXCEPT ![t] = Result("popped", <<Top>>)]
      /\ pc' = [pc EXCEPT ![t] = "print"]
      /\ UNCHANGED <<main, started, joined, printed>>
  BY DEF work_pops, Pop, Returns, Goto
<1>2. /\ Len(stack) \in Nat \ {0} /\ Len(stack') = Len(stack) - 1
      /\ \A k \in 1 .. Len(stack') : stack'[k] = stack[k]
      /\ Top \in Values /\ Top = stack[Len(stack)] /\ stack' \in Seq(Values)
  BY <1>1 DEF TypeOK, Top
<1>3. /\ \A u \in Threads : pc'[u] = IF u = t THEN "print" ELSE pc[u]
      /\ \A u \in Threads : Held(u)' = IF u = t THEN Top ELSE Held(u)
      /\ DOMAIN result' = Threads
  BY <1>1 DEF TypeOK, Held, Result
<1>4. InStack(Top) /\ \A v : InStack(v)' <=> InStack(v) /\ v # Top
  <2>1. InStack(Top)
    BY <1>2 DEF InStack
  <2>2. ASSUME NEW v, InStack(v)' PROVE InStack(v) /\ v # Top
    <3>1. PICK k \in 1 .. Len(stack') : stack'[k] = v
      BY <2>2 DEF InStack
    <3>2. k \in 1 .. Len(stack) /\ k # Len(stack) /\ stack[k] = v /\ Len(stack) \in 1 .. Len(stack)
      BY <1>2, <3>1
    <3> QED
      BY <1>2, <3>2 DEF Apart, InStack
  <2>3. ASSUME NEW v, InStack(v), v # Top PROVE InStack(v)'
    <3>1. PICK k \in 1 .. Len(stack) : stack[k] = v
      BY <2>3 DEF InStack
    <3>2. k \in 1 .. Len(stack')
      BY <1>2, <2>3, <3>1
    <3> QED
      BY <1>2, <3>1, <3>2 DEF InStack
  <2> QED
    BY <2>1, <2>2, <2>3
<1>5. \A v : InHand(v)' <=> InHand(v) \/ v = Top
  BY <1>1, <1>3 DEF InHand
<1>6. TypeOK'
  BY <1>1, <1>2, <1>3 DEF TypeOK, PCs
<1>7. Apart'
  <2>1. \A j, k \in 1 .. Len(stack') : stack'[j] = stack'[k] => j = k
    BY <1>2 DEF Apart
  <2>2. (\A u \in Threads : pc[u] = "print" => Held(u) \in Values /\ ~InStack(Held(u)))'
    BY <1>2, <1>3, <1>4 DEF Apart
  <2>3. \A u, w \in Threads : pc'[u] = "print" /\ pc'[w] = "print" /\ Held(u)' = Held(w)' => u = w
    BY <1>2, <1>3, <1>4 DEF Apart
  <2> QED
    BY <2>1, <2>2, <2>3 DEF Apart
<1>8. Accounted'
  BY <1>1, <1>4, <1>5 DEF Accounted
<1>9. Lives'
  BY <1>1, <1>3 DEF Lives
<1> QED
  BY <1>6, <1>7, <1>8, <1>9

\* The pair in hand is printed, and was not printed before.
LEMMA PrintStep == ASSUME IInv, NEW t \in Threads, work_prints(t) PROVE IInv'
<1> USE DEF IInv
<1>1. /\ pc[t] = "print" /\ UNCHANGED <<stack, result, main, started, joined>>
      /\ printed' = [printed EXCEPT ![Held(t)] = printed[Held(t)] + 1]
      /\ pc' = [pc EXCEPT ![t] = "test"]
  BY DEF work_prints, Goto, Held
<1>2. Held(t) \in Values /\ ~InStack(Held(t)) /\ InHand(Held(t)) /\ printed[Held(t)] = 0
  BY <1>1 DEF Apart, Accounted, InHand
<1>3. /\ \A u \in Threads : pc'[u] = IF u = t THEN "test" ELSE pc[u]
      /\ \A u \in Threads : Held(u)' = Held(u)
      /\ \A v : InStack(v)' <=> InStack(v)
      /\ \A v \in Values : printed'[v] = IF v = Held(t) THEN 1 ELSE printed[v]
  BY <1>1, <1>2 DEF TypeOK, Held, InStack
<1>4. \A v \in Values : InHand(v)' <=> InHand(v) /\ v # Held(t)
  BY <1>1, <1>3 DEF InHand, Apart
<1>5. TypeOK'
  BY <1>1, <1>2 DEF TypeOK, PCs
<1>6. Apart'
  BY <1>1, <1>3 DEF Apart
<1>7. Accounted'
  BY <1>2, <1>3, <1>4 DEF Accounted
<1>8. Lives'
  BY <1>1, <1>3 DEF Lives
<1> QED
  BY <1>5, <1>6, <1>7, <1>8

\* main() starts the workers that have not been started, and joins those that have returned.
LEMMA MainStep == ASSUME IInv, main_runs PROVE IInv'
<1> USE UseAssumption DEF IInv
<1>1. /\ UNCHANGED <<stack, result, printed>>
      /\ \A v : InStack(v)' <=> InStack(v)
      /\ \A u \in Threads : Held(u)' = Held(u)
  BY DEF main_runs, main_starts, main_started, main_joins, main_returns, InStack, Held
<1>2. /\ \A u \in Threads : pc'[u] = pc[u] \/ (pc[u] = "unborn" /\ pc'[u] = "test")
      /\ pc' \in [Threads -> PCs]
  BY DEF main_runs, main_starts, main_started, main_joins, main_returns, Goto, TypeOK, PCs, Lives
<1>3. \A v : InHand(v)' <=> InHand(v)
  BY <1>1, <1>2 DEF InHand
<1>4. TypeOK'
  BY <1>1, <1>2 DEF main_runs, main_starts, main_started, main_joins, main_returns, TypeOK
<1>5. Apart' /\ Accounted'
  BY <1>1, <1>2, <1>3 DEF Apart, Accounted
<1>6. Lives'
  <2>1. CASE main_starts
    <3>1. /\ UNCHANGED <<main, joined>> /\ joined = 0 /\ started' = started + 1
          /\ \A u \in Threads : pc'[u] = IF u = started + 1 THEN "test" ELSE pc[u]
      BY <2>1 DEF main_starts, Goto, TypeOK, Lives
    <3> QED
      BY <2>1, <3>1 DEF main_starts, Lives, TypeOK
  <2>2. CASE main_started \/ main_joins \/ main_returns
    BY <2>2 DEF main_started, main_joins, main_returns, Lives, TypeOK
  <2> QED
    BY <2>1, <2>2 DEF main_runs
<1> QED
  BY <1>4, <1>5, <1>6

\* For all numbers of workers and of pairs the inductive invariant holds.
THEOREM InvariantHolds == UseSpec => []IInv
<1>1. IInv /\ [UseNext]_vars => IInv'
  <2> SUFFICES ASSUME IInv, [UseNext]_vars PROVE IInv'
    OBVIOUS
  <2>1. CASE UNCHANGED vars
    BY <2>1 DEF vars, useVars, IInv, TypeOK, Apart, Accounted, Lives, InStack, InHand, Held
  <2>2. ASSUME NEW t \in Threads, work_tests(t) \/ work_throws(t) PROVE IInv'
    <3>1. /\ DOMAIN result' = Threads
          /\ \A u \in Threads : u # t => result'[u] = result[u]
      BY <2>2 DEF work_tests, work_throws, IsEmpty, Underflow, Returns, IInv, TypeOK
    <3>2. UNCHANGED <<stack, main, started, joined, printed>> /\ pc[t] \in {"test", "pop"}
      BY <2>2 DEF work_tests, work_throws, IsEmpty, Underflow
    <3>3. \E label \in PCs \ {"print"} : pc' \in {pc, [pc EXCEPT ![t] = label]}
      BY <2>2 DEF work_tests, work_throws, Goto, PCs
    <3> QED
      BY <3>1, <3>2, <3>3, IdleStep
  <2>3. CASE UseNext
    BY <2>1, <2>2, <2>3, PopStep, PrintStep, MainStep DEF UseNext, work, Terminating
  <2> QED
    BY <2>1, <2>3
<1> QED
  BY <1>1, UseInitHolds, PTL DEF UseSpec

\* Each pair is in the stack, in the hands of one worker, or printed once, for all numbers of workers and pairs.
THEOREM EachOnceHolds == UseSpec => []EachOnce
  BY InvariantHolds, IInvImplies, PTL

\* No worker runs any more when main() has destroyed the stack.
THEOREM OutlivesHolds == UseSpec => []StackOutlivesWorkers
  BY InvariantHolds, IInvImplies, PTL

=============================================================================
