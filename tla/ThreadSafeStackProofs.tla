---------------------- MODULE ThreadSafeStackProofs ----------------------
(***************************************************************************)
(* Machine-checked proofs about ThreadSafeStack, for every set of threads, *)
(* every set of values and every bound: mutual exclusion, a defined pop,   *)
(* and that the class implements the atomic stack.                         *)
(***************************************************************************)
EXTENDS ThreadSafeStack, TLAPS

-------------------------------------------------------------------------
(* The inductive invariant.                                                *)

\* What push() was called with is a value until it is on the stack.
ArgumentIsValue ==
  \A t \in Threads :
    At(t, "push") \/ (At(t, "lock") /\ op[t] = "push") => val[t] \in Values

\* A copy is started from nothing and is a prefix of the stack.
CopyIsPrefix ==
  \A t \in Threads :
    /\ pc[t] \notin {"copy", "unlock"} => copied[t] = <<>>
    /\ At(t, "copy") => /\ Len(copied[t]) <= Len(data)
                        /\ copied[t] = SubSeq(data, 1, Len(copied[t]))

IInv == TypeOK /\ Guarded /\ TopIsMine /\ ArgumentIsValue /\ CopyIsPrefix

-------------------------------------------------------------------------
(* Sequences.                                                              *)

\* A prefix stays one when it grows by the next element.
LEMMA PrefixGrows ==
  ASSUME NEW S, NEW q \in Seq(S), NEW p \in Seq(S),
         Len(p) < Len(q), p = SubSeq(q, 1, Len(p))
  PROVE  /\ Append(p, q[Len(p) + 1]) \in Seq(S)
         /\ Len(Append(p, q[Len(p) + 1])) <= Len(q)
         /\ Append(p, q[Len(p) + 1]) = SubSeq(q, 1, Len(Append(p, q[Len(p) + 1])))
  OBVIOUS

\* The top of a stack that is not empty is one of its values, and what is
\* left without it is a stack.
LEMMA TopOf ==
  ASSUME NEW S, NEW q \in Seq(S), q # <<>>
  PROVE  q[Len(q)] \in S /\ SubSeq(q, 1, Len(q) - 1) \in Seq(S)
<1>1. Len(q) \in Nat /\ Len(q) # 0
  OBVIOUS
<1>2. Len(q) \in 1 .. Len(q) /\ DOMAIN q = 1 .. Len(q)
  BY <1>1
<1> QED
  BY <1>1, <1>2

-------------------------------------------------------------------------
(* The invariant is inductive.                                             *)

\* Steps that leave the stack and the copies as they are.
LEMMA ControlStep ==
  ASSUME IInv, NEW t \in Threads,
         \/ Enter(t) \/ lock(t) \/ unlock(t) \/ pop_tests(t) \/ pop_underflows(t)
         \/ empty_reads(t) \/ copy_returns(t) \/ operation_throws(t)
  PROVE  IInv'
<1> USE StackAssumption DEF IInv, Goto, At, PCs, Ops
<1>1. CASE Enter(t)
  <2>1. PICK o \in Ops, v \in Values \cup {NoValue} :
          Call(t, o, v) /\ (o = "push" => v \in Values)
    BY <1>1 DEF Enter, push, pop, empty, copy
  <2>2. TypeOK'
    BY <2>1 DEF Call, TypeOK
  <2>3. Guarded' /\ TopIsMine' /\ ArgumentIsValue' /\ CopyIsPrefix'
    BY <2>1 DEF Call, TypeOK, Guarded, TopIsMine, ArgumentIsValue, CopyIsPrefix, Locked
  <2> QED
    BY <2>2, <2>3
<1>2. CASE lock(t)
  <2>1. pc' = [pc EXCEPT ![t] = op[t]] /\ op[t] \in Ops /\ m' = t /\ m = NoThread
        /\ pc[t] = "lock" /\ UNCHANGED <<data, op, val, copied>>
    BY <1>2 DEF lock, local, TypeOK
  <2>2. TypeOK'
    BY <2>1 DEF TypeOK
  <2>3. Guarded' /\ TopIsMine' /\ ArgumentIsValue'
    BY <2>1 DEF TypeOK, Guarded, TopIsMine, ArgumentIsValue, Locked
  <2>4. CopyIsPrefix'
    BY <2>1 DEF TypeOK, CopyIsPrefix
  <2> QED
    BY <2>2, <2>3, <2>4
<1>3. CASE unlock(t)
  <2>1. /\ pc[t] = "unlock" /\ pc' = [pc EXCEPT ![t] = "idle"] /\ m' = NoThread
        /\ val' = [val EXCEPT ![t] = NoValue] /\ copied' = [copied EXCEPT ![t] = <<>>]
        /\ UNCHANGED <<data, op>>
    BY <1>3 DEF unlock
  <2>2. TypeOK'
    BY <2>1 DEF TypeOK
  <2>3. Guarded'
    BY <2>1 DEF TypeOK, Guarded, Locked
  <2>4. TopIsMine' /\ ArgumentIsValue' /\ CopyIsPrefix'
    BY <2>1 DEF TypeOK, TopIsMine, ArgumentIsValue, CopyIsPrefix
  <2> QED
    BY <2>2, <2>3, <2>4
<1>4. CASE pop_tests(t)
  BY <1>4 DEF pop_tests, local, TypeOK, Guarded, TopIsMine, ArgumentIsValue,
     CopyIsPrefix, Locked
<1>5. CASE pop_underflows(t)
  BY <1>5 DEF pop_underflows, local, TypeOK, Guarded, TopIsMine, ArgumentIsValue,
     CopyIsPrefix, Locked
<1>6. CASE empty_reads(t)
  BY <1>6 DEF empty_reads, local, TypeOK, Guarded, TopIsMine, ArgumentIsValue,
     CopyIsPrefix, Locked
<1>7. CASE copy_returns(t)
  BY <1>7 DEF copy_returns, local, TypeOK, Guarded, TopIsMine, ArgumentIsValue,
     CopyIsPrefix, Locked
<1>8. CASE operation_throws(t)
  <2>1. /\ pc[t] \in {"push", "top", "copy"} /\ pc' = [pc EXCEPT ![t] = "unlock"]
        /\ UNCHANGED <<data, m, op, val, copied>>
    BY <1>8 DEF operation_throws, local
  <2>2. TypeOK' /\ Guarded'
    BY <2>1 DEF TypeOK, Guarded, Locked
  <2>3. TopIsMine' /\ ArgumentIsValue' /\ CopyIsPrefix'
    BY <2>1 DEF TypeOK, TopIsMine, ArgumentIsValue, CopyIsPrefix
  <2> QED
    BY <2>2, <2>3
<1> QED
  BY <1>1, <1>2, <1>3, <1>4, <1>5, <1>6, <1>7, <1>8

\* Steps that change the stack, or copy an element out of it.
LEMMA DataStep ==
  ASSUME IInv, NEW t \in Threads,
         push_value(t) \/ pop_copies(t) \/ pop_removes(t) \/ copy_element(t)
  PROVE  IInv'
<1> USE DEF IInv, Goto, At, PCs, Ops
<1>1. \A u \in Threads : u # t /\ pc[t] \in Locked => pc[u] \notin Locked
  BY DEF Guarded
<1>2. CASE push_value(t)
  <2>1. /\ val[t] \in Values /\ pc[t] = "push" /\ pc' = [pc EXCEPT ![t] = "unlock"]
        /\ data' = Append(data, val[t]) /\ UNCHANGED <<m, op, val, copied>>
    BY <1>2 DEF push_value, ArgumentIsValue, local
  <2>2. TypeOK' /\ Guarded' /\ ArgumentIsValue'
    BY <2>1 DEF TypeOK, Guarded, ArgumentIsValue, Locked
  <2>3. TopIsMine' /\ CopyIsPrefix'
    BY <1>1, <2>1 DEF TypeOK, TopIsMine, CopyIsPrefix, Locked
  <2> QED
    BY <2>2, <2>3
<1>3. CASE pop_copies(t)
  <2>1. /\ pc[t] = "top" /\ pc' = [pc EXCEPT ![t] = "remove"] /\ data # <<>>
        /\ val' = [val EXCEPT ![t] = data[Len(data)]] /\ data[Len(data)] \in Values
        /\ UNCHANGED <<data, m, op, copied>>
    BY <1>3, TopOf DEF pop_copies, TopIsMine, TypeOK
  <2>2. TypeOK' /\ Guarded' /\ ArgumentIsValue'
    BY <2>1 DEF TypeOK, Guarded, ArgumentIsValue, Locked
  <2>3. TopIsMine' /\ CopyIsPrefix'
    BY <2>1 DEF TypeOK, TopIsMine, CopyIsPrefix
  <2> QED
    BY <2>2, <2>3
<1>4. CASE pop_removes(t)
  <2>1. /\ pc[t] = "remove" /\ pc' = [pc EXCEPT ![t] = "unlock"]
        /\ data' = SubSeq(data, 1, Len(data) - 1) /\ data' \in Seq(Values)
        /\ UNCHANGED <<m, op, val, copied>>
    BY <1>4, TopOf DEF pop_removes, TopIsMine, TypeOK, local
  <2>2. TypeOK' /\ Guarded' /\ ArgumentIsValue'
    BY <2>1 DEF TypeOK, Guarded, ArgumentIsValue, Locked
  <2>3. TopIsMine' /\ CopyIsPrefix'
    BY <1>1, <2>1 DEF TypeOK, TopIsMine, CopyIsPrefix, Locked
  <2> QED
    BY <2>2, <2>3
<1>5. CASE copy_element(t)
  <2> DEFINE next == Append(copied[t], data[Len(copied[t]) + 1])
  <2>1. /\ copied[t] \in Seq(Values) /\ Len(copied[t]) < Len(data)
        /\ copied[t] = SubSeq(data, 1, Len(copied[t]))
        /\ copied' = [copied EXCEPT ![t] = next] /\ pc[t] = "copy"
        /\ UNCHANGED <<data, m, pc, op, val>>
    BY <1>5 DEF copy_element, CopyIsPrefix, TypeOK
  <2>2. next \in Seq(Values) /\ Len(next) <= Len(data) /\ next = SubSeq(data, 1, Len(next))
    BY <2>1, PrefixGrows DEF TypeOK
  <2> HIDE DEF next
  <2>3. TypeOK' /\ Guarded' /\ ArgumentIsValue' /\ TopIsMine'
    BY <2>1, <2>2 DEF TypeOK, Guarded, ArgumentIsValue, TopIsMine
  <2>4. CopyIsPrefix'
    BY <2>1, <2>2 DEF TypeOK, CopyIsPrefix
  <2> QED
    BY <2>3, <2>4
<1> QED
  BY <1>2, <1>3, <1>4, <1>5

\* The inductive invariant holds in every reachable state.
THEOREM InvariantHolds == Spec => []IInv
<1>1. Init => IInv
  BY StackAssumption DEF Init, IInv, TypeOK, Ops, PCs, Guarded, TopIsMine,
     ArgumentIsValue, CopyIsPrefix, At, Locked
<1>2. IInv /\ [Next]_vars => IInv'
  <2> SUFFICES ASSUME IInv, [Next]_vars PROVE IInv'
    OBVIOUS
  <2>1. CASE UNCHANGED vars
    BY <2>1 DEF vars, local, IInv, TypeOK, Guarded, TopIsMine, ArgumentIsValue,
       CopyIsPrefix, At
  <2>2. ASSUME NEW t \in Threads, Enter(t) \/ Continue(t) PROVE IInv'
    BY <2>2, ControlStep, DataStep DEF Continue
  <2> QED
    BY <2>1, <2>2 DEF Next
<1> QED
  BY <1>1, <1>2, PTL DEF Spec

-------------------------------------------------------------------------
(* What follows from it.                                                   *)

\* Guarded: the critical sections exclude each other.
THEOREM MutualExclusion == Spec => []Guarded
  BY InvariantHolds, PTL DEF IInv

\* TopIsMine: pop() is defined and removes what it copied.
THEOREM PopIsDefined == Spec => []TopIsMine
  BY InvariantHolds, PTL DEF IInv

\* Linearizable: the step under the lock that decides the result is the
\* instant of the abstract operation, every other step is invisible.
THEOREM StackIsAtomic == Spec => Linearizable
<1>1. Init => Abstract!Init
  BY DEF Init, Abstract!Init, Abstract!Result
<1>2. IInv /\ [Next]_vars => [Abstract!Next]_<<data, result>>
  <2> SUFFICES ASSUME IInv, NEW t \in Threads, Enter(t) \/ Continue(t)
               PROVE  Abstract!Next \/ UNCHANGED <<data, result>>
    BY DEF Next, vars
  <2> USE DEF IInv, Returns, Abstract!Returns, Abstract!Result
  <2>1. CASE push_value(t)
    <3>1. val[t] \in Values
      BY <2>1 DEF push_value, ArgumentIsValue
    <3>2. Abstract!Push(t, val[t])
      BY <2>1 DEF push_value, Abstract!Push
    <3> QED
      BY <3>1, <3>2 DEF Abstract!Next
  <2>2. CASE pop_removes(t)
    <3>1. data # <<>> /\ val[t] = data[Len(data)]
      BY <2>2 DEF pop_removes, TopIsMine, At
    <3>2. Abstract!Pop(t)
      BY <2>2, <3>1 DEF pop_removes, Abstract!Pop, Abstract!Top
    <3> QED
      BY <3>2 DEF Abstract!Next
  <2>3. CASE pop_underflows(t)
    <3>1. Abstract!Underflow(t)
      BY <2>3 DEF pop_underflows, Abstract!Underflow
    <3> QED
      BY <3>1 DEF Abstract!Next
  <2>4. CASE empty_reads(t)
    <3>1. Abstract!IsEmpty(t)
      BY <2>4 DEF empty_reads, Abstract!IsEmpty
    <3> QED
      BY <3>1 DEF Abstract!Next
  <2>5. CASE copy_returns(t)
    <3>1. /\ Len(copied[t]) = Len(data) /\ copied[t] = SubSeq(data, 1, Len(copied[t]))
          /\ data \in Seq(Values)
      BY <2>5 DEF copy_returns, CopyIsPrefix, At, TypeOK
    <3>2. copied[t] = data
      BY <3>1
    <3>3. Abstract!Copy(t)
      BY <2>5, <3>2 DEF copy_returns, Abstract!Copy
    <3> QED
      BY <3>3 DEF Abstract!Next
  <2>6. CASE operation_throws(t)
    <3>1. Abstract!Fail(t)
      BY <2>6 DEF operation_throws, Abstract!Fail
    <3> QED
      BY <3>1 DEF Abstract!Next
  <2>7. CASE Enter(t) \/ lock(t) \/ unlock(t) \/ pop_tests(t) \/ pop_copies(t)
             \/ copy_element(t)
    BY <2>7 DEF Enter, push, pop, empty, copy, Call, lock, unlock, pop_tests,
       pop_copies, copy_element
  <2> QED
    BY <2>1, <2>2, <2>3, <2>4, <2>5, <2>6, <2>7 DEF Continue
<1> QED
  BY <1>1, <1>2, InvariantHolds, PTL DEF Spec, Linearizable, Abstract!Spec

=========================================================================
