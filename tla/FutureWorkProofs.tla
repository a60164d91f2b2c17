-------------------------- MODULE FutureWorkProofs --------------------------
(***************************************************************************)
(* Machine-checked proofs about FutureWork:                                *)
(*   - Busy, for every word size, every range of operands and every number *)
(*     of draws: what is counted (CountsBelowRoot);                       *)
(*   - the quick sort, for every list of natural numbers of every length:  *)
(*     what is returned is in order and complete (ReturnsSorted);          *)
(*   - the programs of Future/, for every number of pushed values: what    *)
(*     they show, and which of them fail (SameResults, OnlyTheRaceFails).  *)
(***************************************************************************)
EXTENDS FutureWork, FiniteSetTheorems, SequenceTheorems, WellFoundedInduction, TLAPS

-------------------------------------------------------------------------
(* Numbers.                                                                *)

\* Every non-empty set of natural numbers has a least one.
LEMMA LeastExists ==
  ASSUME NEW D \in SUBSET Nat, D # {}
  PROVE  \E d \in D : \A e \in D : d <= e
<1>1. PICK d \in D : \A e \in D : ~(<<e, d>> \in OpToRel(<, Nat))
  BY NatLessThanWellFounded, WFMin
<1>2. \A e \in D : ~(e < d)
  BY <1>1 DEF OpToRel
<1> QED
  BY <1>2

\* Every number has an integer square root, and W!Root is it.
LEMMA RootOf ==
  ASSUME NEW m \in Nat
  PROVE  /\ W!Root(m) \in 0 .. m
         /\ W!Root(m) * W!Root(m) <= m /\ (W!Root(m) + 1) * (W!Root(m) + 1) > m
<1> DEFINE D == {r \in 0 .. m : (r + 1) * (r + 1) > m}
<1>1. m \in D /\ D \subseteq Nat
  OBVIOUS
<1>2. PICK d \in D : \A e \in D : d <= e
  BY <1>1, LeastExists, Zenon
<1>3. d \in 0 .. m /\ (d + 1) * (d + 1) > m
  BY <1>1, <1>2
<1>4. d * d <= m
  <2>1. CASE d = 0
    BY <2>1
  <2>2. CASE d # 0
    <3>1. d - 1 \in 0 .. m /\ d - 1 \notin D /\ (d - 1) + 1 = d
      BY <1>2, <1>3, <2>2
    <3>2. ~(d * d > m)
      BY <3>1
    <3> QED
      BY <1>3, <3>2
  <2> QED
    BY <2>1, <2>2
<1> HIDE DEF D
<1>5. \E r \in 0 .. m : r * r <= m /\ (r + 1) * (r + 1) > m
  BY <1>3, <1>4
<1> QED
  BY <1>5 DEF W!Root

\* The remainder tells a divisor.
LEMMA Divides ==
  ASSUME NEW m \in Nat, NEW k \in Nat, k > 0
  PROVE  /\ m % k = 0 => m \div k \in Nat /\ m = k * (m \div k)
         /\ \A q \in Nat : m = k * q => m % k = 0
<1>1. m = k * (m \div k) + (m % k) /\ m \div k \in Nat /\ m % k \in 0 .. k - 1
  OBVIOUS
<1>2. ASSUME NEW q \in Nat, m = k * q PROVE m % k = 0
  BY <1>2
<1> QED
  BY <1>1, <1>2

\* A divisor beyond the root comes with one that is not.
LEMMA SmallDivisor ==
  ASSUME NEW m \in Nat, NEW s \in Nat, m < (s + 1) * (s + 1),
         NEW k \in 2 .. m - 1, m % k = 0, k > s
  PROVE  \E q \in 2 .. s : m % q = 0
<1> DEFINE q == m \div k
<1>1. q \in Nat /\ m = k * q
  BY Divides
<1> HIDE DEF q
<1>2. q # 0 /\ q # 1
  BY <1>1
<1>3. q <= s
  <2> SUFFICES ASSUME q >= s + 1 PROVE FALSE
    BY <1>1
  <2>1. k * q >= (s + 1) * (s + 1)
    BY <1>1
  <2> QED
    BY <1>1, <2>1
<1>4. m = q * k /\ q > 0 /\ q \in 2 .. s
  BY <1>1, <1>2, <1>3
<1>5. \A r \in Nat : m = q * r => m % q = 0
  BY <1>1, <1>4, Divides
<1>6. m % q = 0
  BY <1>4, <1>5
<1> QED
  BY <1>4, <1>6

\* Every number from 2 on has a least divisor, and a divisor below which there is none is it.
LEMMA LeastDivisorIs ==
  ASSUME NEW m \in Nat, NEW d \in 2 .. m, m % d = 0, \A l \in 2 .. d - 1 : m % l # 0
  PROVE  W!LeastDivisor(m) = d
<1> DEFINE x == W!LeastDivisor(m)
<1>1. x \in 2 .. m /\ m % x = 0 /\ \A l \in 2 .. x - 1 : m % l # 0
  BY DEF W!LeastDivisor
<1> HIDE DEF x
<1>2. ASSUME x < d PROVE FALSE
  <2>1. x \in 2 .. d - 1
    BY <1>1, <1>2
  <2> QED
    BY <1>1, <2>1
<1>4. ASSUME d < x PROVE FALSE
  <2>1. d \in 2 .. x - 1
    BY <1>1, <1>4
  <2> QED
    BY <1>1, <2>1
<1>3. x = d
  BY <1>1, <1>2, <1>4
<1> QED
  BY <1>3 DEF x

-------------------------------------------------------------------------
(* Busy.                                                                   *)

\* In the loop of isPrime(): nothing that was tried divides n, and i has not wrapped.
Dividing ==
  /\ n \in 2 .. 2 * MaxOperand /\ i \in 2 .. n
  /\ sqroot \in 0 .. n /\ sqroot * sqroot <= n /\ (sqroot + 1) * (sqroot + 1) > n
  /\ \A k \in 2 .. i - 1 : n % k # 0
  /\ sqroot >= 2 => i <= sqroot

\* The loop of isPrime() is on its way.
CountInv == counter \in Nat /\ drawn \in Nat /\ (pc = "loop" => Dividing)

\* What isPrime() counts.
LEMMA Counted ==
  ASSUME WorkAssumption, CountInv, W!count
  PROVE  counter' - counter = IF n > 3 /\ W!LeastDivisor(n) \in {n, sqroot} THEN 1 ELSE 0
<1>1. /\ n \in Nat /\ i \in 2 .. n /\ sqroot \in Nat /\ n >= 2
      /\ sqroot * sqroot <= n /\ (sqroot + 1) * (sqroot + 1) > n
      /\ \A k \in 2 .. i - 1 : n % k # 0
      /\ sqroot >= 2 => i <= sqroot
      /\ counter \in Nat /\ counter' = IF i = sqroot THEN counter + 1 ELSE counter
      /\ i = sqroot \/ n % i = 0
  BY DEF WorkAssumption, W!BusyAssumption, CountInv, Dividing, W!count, W!loops
<1>2. n % n = 0
  BY <1>1, Divides
<1>3. CASE i = sqroot
  <2>1. n > 3
    <3>1. sqroot * sqroot >= 4
      BY <1>1, <1>3
    <3> QED
      BY <1>1, <3>1
  <2>2. W!LeastDivisor(n) \in {n, sqroot}
    <3>1. CASE n % i = 0
      BY <1>1, <1>3, <3>1, LeastDivisorIs
    <3>2. CASE n % i # 0
      <4>1. \A k \in 2 .. sqroot : n % k # 0
        BY <1>1, <1>3, <3>2
      <4>2. \A k \in 2 .. n - 1 : n % k # 0
        <5> SUFFICES ASSUME NEW k \in 2 .. n - 1, n % k = 0 PROVE FALSE
          OBVIOUS
        <5>1. k > sqroot
          <6> SUFFICES ASSUME ~(k > sqroot) PROVE FALSE
            OBVIOUS
          <6>1. k \in 2 .. sqroot
            BY <1>1
          <6> QED
            BY <4>1, <6>1
        <5>2. \E q \in 2 .. sqroot : n % q = 0
          BY <1>1, <5>1, SmallDivisor
        <5> QED
          BY <4>1, <5>2
      <4>3. n \in Nat /\ n \in 2 .. n /\ n % n = 0
        BY <1>1, <1>2
      <4> QED
        BY <4>2, <4>3, LeastDivisorIs
    <3> QED
      BY <3>1, <3>2
  <2> QED
    BY <1>1, <1>3, <2>1, <2>2
<1>4. CASE i # sqroot
  <2>1. W!LeastDivisor(n) = i
    BY <1>1, <1>4, LeastDivisorIs
  <2>2. n > 3 => i # n
    <3> SUFFICES ASSUME n > 3 PROVE i # n
      OBVIOUS
    <3>1. sqroot >= 2
      <4> SUFFICES ASSUME sqroot <= 1 PROVE FALSE
        BY <1>1
      <4>1. sqroot = 0 \/ sqroot = 1
        BY <1>1
      <4> QED
        BY <1>1, <4>1
    <3>2. sqroot < n
      <4> SUFFICES ASSUME sqroot >= n PROVE FALSE
        BY <1>1
      <4>1. sqroot * sqroot >= 2 * n
        BY <1>1, <3>1
      <4> QED
        BY <1>1, <4>1
    <3> QED
      BY <1>1, <3>1, <3>2
  <2> QED
    BY <1>1, <1>4, <2>1, <2>2
<1> QED
  BY <1>3, <1>4

\* Every step of Busy preserves its invariant.
LEMMA CountStep ==
  ASSUME WorkAssumption, CountInv, [W!Next]_busyVars
  PROVE  CountInv'
<1>1. /\ WordSize \in Nat /\ MaxOperand \in Nat /\ MaxOperand # 0 /\ Draws \in Nat
      /\ 2 * MaxOperand < WordSize
  BY DEF WorkAssumption, W!BusyAssumption
<1>2. CASE W!draw
  <2>1. PICK a \in W!Operands, b \in W!Operands : n' = a + b /\ sqroot' = W!Root(a + b)
    BY <1>2 DEF W!draw
  <2>2. n' \in 2 .. 2 * MaxOperand /\ n' \in Nat
    BY <1>1, <2>1 DEF W!Operands
  <2>3. i' = 2 /\ UNCHANGED <<counter, drawn>>
    BY <1>2 DEF W!draw
  <2>4. /\ sqroot' \in 0 .. n' /\ sqroot' * sqroot' <= n'
        /\ (sqroot' + 1) * (sqroot' + 1) > n'
    BY <2>1, <2>2, RootOf
  <2>5. 2 .. i' - 1 = {} /\ i' \in 2 .. n' /\ (sqroot' >= 2 => i' <= sqroot')
    BY <2>2, <2>3, <2>4
  <2>6. Dividing'
    BY <2>2, <2>4, <2>5 DEF Dividing
  <2> QED
    BY <2>3, <2>6 DEF CountInv
<1>3. CASE W!next
  <2>1. /\ pc = "loop" /\ i # sqroot /\ n % i # 0 /\ i' = (i + 1) % WordSize
        /\ UNCHANGED <<n, sqroot, counter, drawn, pc>>
    BY <1>3 DEF W!next, W!loops
  <2>2. Dividing
    BY <2>1 DEF CountInv
  <2>3. n % n = 0
    BY <1>1, <2>2, Divides DEF Dividing
  <2>4. i \in 2 .. n - 1
    BY <1>1, <2>1, <2>2, <2>3 DEF Dividing
  <2>5. i' = i + 1
    BY <1>1, <2>1, <2>2, <2>4 DEF Dividing
  <2>6. ASSUME NEW k \in 2 .. i' - 1 PROVE n' % k # 0
    <3>1. k = i \/ k \in 2 .. i - 1
      BY <2>4, <2>5
    <3> QED
      BY <2>1, <2>2, <3>1 DEF Dividing
  <2>7. i' \in 2 .. n' /\ (sqroot' >= 2 => i' <= sqroot')
    BY <2>1, <2>2, <2>4, <2>5 DEF Dividing
  <2>8. Dividing'
    BY <2>1, <2>2, <2>6, <2>7 DEF Dividing
  <2> QED
    BY <2>1, <2>8 DEF CountInv
<1>4. CASE W!count
  BY <1>4 DEF W!count, CountInv
<1>5. CASE W!Finished \/ UNCHANGED busyVars
  BY <1>5 DEF W!Finished, W!vars, busyVars, CountInv, Dividing
<1> QED
  BY <1>2, <1>3, <1>4, <1>5 DEF W!Next

\* CountInv while a count runs.
BusyInv == chosen = "busy" => CountInv

\* CountsBelowRoot: isPrime() tries every divisor below the root, so that what it counts has none
\* there, and a number without one has its root or itself as its least divisor.
THEOREM CountIsRight == Spec => CountsBelowRoot
<1>1. Init => BusyInv
  BY DEF Init, BusyInv, W!Init, CountInv
<1>2. BusyInv /\ [Next]_vars => BusyInv'
  <2> SUFFICES ASSUME BusyInv, [Next]_vars, chosen' = "busy" PROVE CountInv'
    BY DEF BusyInv
  <2>1. chosen = "busy" /\ [W!Next]_busyVars
    BY DEF Next, vars
  <2> QED
    BY <2>1, CountStep, WorkAssumption DEF BusyInv
<1>3. BusyInv /\ [Next]_vars => [chosen = "busy" => W!CountsBelowRoot]_vars
  <2> SUFFICES ASSUME BusyInv, chosen = "busy", W!count
               PROVE  counter' - counter
                        = IF n > 3 /\ W!LeastDivisor(n) \in {n, sqroot} THEN 1 ELSE 0
    BY DEF W!CountsBelowRoot
  <2> QED
    BY Counted, WorkAssumption DEF BusyInv
<1> QED
  BY <1>1, <1>2, <1>3, PTL DEF Spec, CountsBelowRoot

-------------------------------------------------------------------------
(* The quick sort: its inductive invariant.                                *)
(* What depends on the values of the nodes is given them as v.             *)

\* The calls of a sort of the values v.
Frames(v) == [at : {"enter", "partition", "lower", "higher", "piece"},
              input : Seq(DOMAIN v), result : Seq(DOMAIN v),
              lower_part : Seq(DOMAIN v), new_lower : Seq(DOMAIN v)]

\* A list has no node twice.
Once(list) == \A j, k \in 1 .. Len(list) : list[j] = list[k] => j = k

\* A list is in order.
Sorted(v, list) == \A k \in 1 .. Len(list) - 1 : v[list[k]] <= v[list[k + 1]]

\* The nodes that the lists of a call hold.
Own(c) == Q!ToSet(c.input) \cup Q!ToSet(c.result)
            \cup Q!ToSet(c.lower_part) \cup Q!ToSet(c.new_lower)

\* No node is in two lists of a call, or in one of them twice.
Unshared(c) ==
  /\ Once(c.input) /\ Once(c.lower_part) /\ Once(c.new_lower)
  /\ Q!ToSet(c.input) \cap Q!ToSet(c.lower_part) = {}
  /\ Q!ToSet(c.input) \cap Q!ToSet(c.result) = {}
  /\ Q!ToSet(c.lower_part) \cap Q!ToSet(c.result) = {}
  /\ Q!ToSet(c.new_lower) \cap Q!ToSet(c.result) = {}

\* Which lists are empty where.
Filled(c) ==
  /\ IF c.at = "enter" THEN c.result = <<>> ELSE Len(c.result) = 1
  /\ c.at # "lower" => c.lower_part = <<>>
  /\ c.at # "piece" => c.new_lower = <<>>
  /\ c.at = "piece" => c.input = <<>>

\* On which side of the pivot the nodes of a list belong.
Sided(v, c) ==
  /\ \A x \in Q!ToSet(c.lower_part) : v[x] < v[c.result[1]]
  /\ \A x \in Q!ToSet(c.new_lower) : v[x] < v[c.result[1]]
  /\ c.at \in {"lower", "higher"} => \A x \in Q!ToSet(c.input) : v[x] >= v[c.result[1]]
  /\ Sorted(v, c.new_lower)

\* On which side of the pivot of a call the nodes belong that it has passed to another one.
Belongs(v, c, x) ==
  /\ c.at = "higher" => v[x] < v[c.result[1]]
  /\ c.at = "piece" => v[x] >= v[c.result[1]]

\* What holds of each call by itself.
FrameOK(v, c) == Unshared(c) /\ Filled(c) /\ Sided(v, c)

\* A call that waits for one of its two calls to return.
Waits(c) == c.at \in {"higher", "piece"}

\* Every call but the innermost waits for the one that it has made; what a call has returned is
\* still there only when the innermost one has waited for it.
Waiting ==
  /\ \A k \in 1 .. Len(calls) - 1 : Waits(calls[k])
  /\ Len(calls) # 0 /\ ~Waits(calls[Len(calls)]) => returned = <<>>

\* Every node is somewhere.
Placed ==
  \A x \in DOMAIN Value : x \in Q!ToSet(returned) \/ \E k \in 1 .. Len(calls) : x \in Own(calls[k])

\* No node is in two calls, or in one that has not returned and in what was returned.
Apart ==
  /\ \A j, k \in 1 .. Len(calls) : j < k => Own(calls[j]) \cap Own(calls[k]) = {}
  /\ \A k \in 1 .. Len(calls) : Own(calls[k]) \cap Q!ToSet(returned) = {}

\* The nodes of a call, and of what was returned, are on the right side of the pivots of all
\* the calls around it.
Nested ==
  /\ \A j, k \in 1 .. Len(calls) : j < k => \A x \in Own(calls[k]) : Belongs(Value, calls[j], x)
  /\ \A k \in 1 .. Len(calls) : \A x \in Q!ToSet(returned) : Belongs(Value, calls[k], x)

\* The types.
SortTypeOK ==
  /\ Value \in Seq(Nat)
  /\ calls \in Seq(Frames(Value)) /\ returned \in Seq(DOMAIN Value)

\* The inductive invariant: of each call, of two calls, and of what was returned.
SortInv ==
  /\ SortTypeOK
  /\ \A k \in 1 .. Len(calls) : FrameOK(Value, calls[k])
  /\ Once(returned) /\ Sorted(Value, returned)
  /\ Waiting /\ Placed /\ Apart /\ Nested

-------------------------------------------------------------------------
(* The quick sort: calls and returns.                                      *)

\* What a prefix of a list is.
LEMMA Prefix ==
  ASSUME NEW S, NEW q \in Seq(S), NEW p \in Nat, p <= Len(q)
  PROVE  /\ SubSeq(q, 1, p) \in Seq(S) /\ Len(SubSeq(q, 1, p)) = p
         /\ \A k \in 1 .. p : SubSeq(q, 1, p)[k] = q[k]
OBVIOUS

\* The innermost call goes on and keeps its nodes.
LEMMA ContinueKeeps ==
  ASSUME SortInv, Len(calls) # 0, returned = <<>>, UNCHANGED <<Value, returned>>,
         NEW c \in Frames(Value), Q!Continue(c), FrameOK(Value, c), ~Waits(c),
         Own(c) = Own(Q!top)
  PROVE  SortInv'
<1> DEFINE L == Len(calls)
<1>1. /\ L \in Nat /\ L # 0 /\ Len(calls') = L /\ calls' \in Seq(Frames(Value))
      /\ \A k \in 1 .. L - 1 : calls'[k] = calls[k]
      /\ calls'[L] = c /\ Q!top = calls[L]
      /\ Value' = Value /\ returned' = returned
  BY DEF SortInv, SortTypeOK, Q!Continue, Q!ReplaceAt, Q!top
<1> HIDE DEF L
<1>2. \A k \in 1 .. L : Own(calls'[k]) = Own(calls[k])
  BY <1>1
<1>3. /\ Len(calls) = L
      /\ \A k \in 1 .. L : FrameOK(Value, calls[k])
      /\ Once(returned) /\ Sorted(Value, returned)
      /\ Waiting /\ Placed /\ Apart /\ Nested /\ SortTypeOK
  BY DEF SortInv, L
<1>4. SortTypeOK'
  BY <1>1, <1>3 DEF SortTypeOK
<1>5. \A k \in 1 .. Len(calls') : FrameOK(Value', calls'[k])
  BY <1>1, <1>3
<1>6. Waiting'
  BY <1>1, <1>3 DEF Waiting
<1>7. Placed'
  BY <1>1, <1>2, <1>3 DEF Placed
<1>8. Apart'
  BY <1>1, <1>2, <1>3 DEF Apart
<1>9. Q!ToSet(<<>>) = {}
  BY DEF Q!ToSet
<1>10. Nested'
  <2>1. ASSUME NEW j \in 1 .. L, NEW k \in 1 .. L, j < k, NEW x \in Own(calls'[k])
        PROVE  Belongs(Value', calls'[j], x)
    BY <1>1, <1>2, <1>3, <2>1 DEF Nested
  <2> QED
    BY <1>1, <1>9, <2>1 DEF Nested
<1> QED
  BY <1>1, <1>3, <1>4, <1>5, <1>6, <1>7, <1>8, <1>10 DEF SortInv

\* The innermost call passes some of its nodes, or of those that were returned to it, to
\* another one.
LEMMA RecurseKeeps ==
  ASSUME SortInv, Len(calls) # 0, returned' = <<>>, Value' = Value,
         NEW c \in Frames(Value), NEW list \in Seq(DOMAIN Value),
         Q!Recurse(c, list), FrameOK(Value, c), Waits(c), Once(list),
         Own(c) \cup Q!ToSet(list) = Own(Q!top) \cup Q!ToSet(returned),
         Own(c) \cap Q!ToSet(list) = {},
         \A x \in Q!ToSet(list) : Belongs(Value, c, x)
  PROVE  SortInv'
<1> DEFINE L == Len(calls)
           d == Q!Call(list)
<1>0. d \in Frames(Value)
  BY DEF Q!Call, Frames
<1>1. /\ L \in Nat /\ L # 0 /\ Len(calls') = L + 1 /\ calls' \in Seq(Frames(Value))
      /\ \A k \in 1 .. L - 1 : calls'[k] = calls[k]
      /\ calls'[L] = c /\ calls'[L + 1] = d /\ Q!top = calls[L]
  <2> HIDE DEF d
  <2> DEFINE front == [calls EXCEPT ![L] = c]
  <2>1. /\ L \in Nat /\ L # 0 /\ L \in 1 .. L /\ front \in Seq(Frames(Value)) /\ Len(front) = L
        /\ front[L] = c /\ \A k \in 1 .. L - 1 : front[k] = calls[k]
    BY DEF SortInv, SortTypeOK
  <2>2. calls' = Append(front, d)
    BY DEF Q!Recurse, Q!ReplaceAt, d
  <2> HIDE DEF front, L
  <2>3. Q!top = calls[L]
    BY DEF Q!top, L
  <2> QED
    BY <1>0, <2>1, <2>2, <2>3
<1>2. /\ Own(d) = Q!ToSet(list) /\ FrameOK(Value, d) /\ ~Waits(d)
  <2>1. d = [at |-> "enter", input |-> list, result |-> <<>>, lower_part |-> <<>>,
             new_lower |-> <<>>]
    BY DEF Q!Call
  <2> HIDE DEF d
  <2>2. Q!ToSet(<<>>) = {} /\ Once(<<>>) /\ Sorted(Value, <<>>)
    BY DEF Q!ToSet, Once, Sorted
  <2>3. Own(d) = Q!ToSet(list) /\ Unshared(d) /\ Filled(d) /\ ~Waits(d)
    BY <2>1, <2>2 DEF Own, Unshared, Filled, Waits
  <2>4. Sided(Value, d)
    BY <2>1, <2>2 DEF Sided
  <2> QED
    BY <2>3, <2>4 DEF FrameOK
<1> HIDE DEF L, d
<1>3. /\ Len(calls) = L
      /\ \A k \in 1 .. L : FrameOK(Value, calls[k])
      /\ Waiting /\ Placed /\ Apart /\ Nested /\ SortTypeOK
  BY DEF SortInv, L
<1>4. /\ SortTypeOK'
      /\ Once(returned') /\ Sorted(Value', returned') /\ Q!ToSet(returned') = {}
  BY <1>1, <1>3 DEF SortTypeOK, Once, Sorted, Q!ToSet
<1>5. \A k \in 1 .. Len(calls') : FrameOK(Value', calls'[k])
  BY <1>1, <1>2, <1>3
<1>6. Waiting'
  BY <1>1, <1>2, <1>3 DEF Waiting
<1>7. Placed'
  BY <1>1, <1>2, <1>3, <1>4 DEF Placed
<1>8. Apart'
  <2>1. ASSUME NEW j \in 1 .. L + 1, NEW k \in 1 .. L + 1, j < k
        PROVE  Own(calls'[j]) \cap Own(calls'[k]) = {}
    <3>1. CASE k < L
      BY <1>1, <1>3, <2>1, <3>1 DEF Apart
    <3>2. CASE k = L + 1 /\ j = L
      BY <1>1, <1>2, <3>2
    <3>3. CASE k \in {L, L + 1} /\ j < L
      <4>1. Own(calls'[k]) \subseteq Own(calls[L]) \cup Q!ToSet(returned)
        BY <1>1, <1>2, <3>3
      <4>2. /\ Own(calls[j]) \cap Own(calls[L]) = {} /\ Own(calls[j]) \cap Q!ToSet(returned) = {}
            /\ calls'[j] = calls[j]
        BY <1>1, <1>3, <3>3 DEF Apart
      <4> QED
        BY <4>1, <4>2
    <3> QED
      BY <1>1, <2>1, <3>1, <3>2, <3>3
  <2> QED
    BY <1>1, <1>4, <2>1 DEF Apart
<1>9. Nested'
  <2>1. ASSUME NEW j \in 1 .. L + 1, NEW k \in 1 .. L + 1, j < k, NEW x \in Own(calls'[k])
        PROVE  Belongs(Value', calls'[j], x)
    <3>1. CASE k < L
      BY <1>1, <1>3, <2>1, <3>1 DEF Nested
    <3>2. CASE k = L + 1 /\ j = L
      BY <1>1, <1>2, <2>1, <3>2
    <3>3. CASE k \in {L, L + 1} /\ j < L
      <4>1. x \in Own(calls[L]) \cup Q!ToSet(returned)
        BY <1>1, <1>2, <2>1, <3>3
      <4>2. calls'[j] = calls[j] /\ j \in 1 .. L /\ L \in 1 .. L
        BY <1>1, <3>3
      <4> QED
        BY <1>3, <3>3, <4>1, <4>2 DEF Nested
    <3> QED
      BY <1>1, <2>1, <3>1, <3>2, <3>3
  <2> QED
    BY <1>1, <1>4, <2>1 DEF Nested
<1> QED
  BY <1>4, <1>5, <1>6, <1>7, <1>8, <1>9 DEF SortInv

\* The innermost call returns its nodes and those that were returned to it.
LEMMA ReturnKeeps ==
  ASSUME SortInv, Len(calls) # 0, Value' = Value,
         NEW list \in Seq(DOMAIN Value), Q!Return(list), Once(list), Sorted(Value, list),
         Q!ToSet(list) = Own(Q!top) \cup Q!ToSet(returned)
  PROVE  SortInv'
<1> DEFINE L == Len(calls)
<1>1. /\ L \in Nat /\ L # 0 /\ Len(calls') = L - 1 /\ calls' \in Seq(Frames(Value))
      /\ \A k \in 1 .. L - 1 : calls'[k] = calls[k]
      /\ Q!top = calls[L] /\ returned' = list
  <2>1. calls \in Seq(Frames(Value)) /\ L \in Nat /\ L # 0 /\ L - 1 \in Nat /\ L - 1 <= Len(calls)
    BY DEF SortInv, SortTypeOK
  <2>2. calls' = SubSeq(calls, 1, L - 1) /\ Q!top = calls[L] /\ returned' = list
    BY DEF Q!Return, Q!Front, Q!top
  <2> HIDE DEF L
  <2>3. /\ SubSeq(calls, 1, L - 1) \in Seq(Frames(Value)) /\ Len(SubSeq(calls, 1, L - 1)) = L - 1
        /\ \A k \in 1 .. L - 1 : SubSeq(calls, 1, L - 1)[k] = calls[k]
    BY <2>1, Prefix
  <2> QED
    BY <2>1, <2>2, <2>3
<1> HIDE DEF L
<1>2. /\ Len(calls) = L
      /\ \A k \in 1 .. L : FrameOK(Value, calls[k])
      /\ Waiting /\ Placed /\ Apart /\ Nested /\ SortTypeOK
  BY DEF SortInv, L
<1>3. SortTypeOK'
  BY <1>1, <1>2 DEF SortTypeOK
<1>4. \A k \in 1 .. Len(calls') : FrameOK(Value', calls'[k])
  BY <1>1, <1>2
<1>5. Waiting'
  BY <1>1, <1>2 DEF Waiting
<1>6. Placed'
  <2> SUFFICES ASSUME NEW x \in DOMAIN Value, x \notin Q!ToSet(list)
               PROVE  \E k \in 1 .. L - 1 : x \in Own(calls'[k])
    BY <1>1 DEF Placed
  <2>1. PICK k \in 1 .. L : x \in Own(calls[k])
    BY <1>2 DEF Placed
  <2>2. k # L
    BY <1>1, <2>1
  <2> QED
    BY <1>1, <2>1, <2>2
<1>7. Apart'
  <2>1. \A k \in 1 .. L - 1 : k \in 1 .. L /\ k < L /\ L \in 1 .. L
    BY <1>1
  <2>2. ASSUME NEW k \in 1 .. L - 1 PROVE Own(calls'[k]) \cap Q!ToSet(list) = {}
    BY <1>1, <1>2, <2>1 DEF Apart
  <2>3. ASSUME NEW j \in 1 .. L - 1, NEW k \in 1 .. L - 1, j < k
        PROVE  Own(calls'[j]) \cap Own(calls'[k]) = {}
    BY <1>1, <1>2, <2>1, <2>3 DEF Apart
  <2> QED
    BY <1>1, <2>2, <2>3 DEF Apart
<1>8. Nested'
  <2>1. \A k \in 1 .. L - 1 : k \in 1 .. L /\ k < L /\ L \in 1 .. L
    BY <1>1
  <2>2. ASSUME NEW k \in 1 .. L - 1, NEW x \in Q!ToSet(list) PROVE Belongs(Value', calls'[k], x)
    BY <1>1, <1>2, <2>1 DEF Nested
  <2>3. ASSUME NEW j \in 1 .. L - 1, NEW k \in 1 .. L - 1, j < k, NEW x \in Own(calls'[k])
        PROVE  Belongs(Value', calls'[j], x)
    BY <1>1, <1>2, <2>1, <2>3 DEF Nested
  <2> QED
    BY <1>1, <2>2, <2>3 DEF Nested
<1> QED
  BY <1>1, <1>3, <1>4, <1>5, <1>6, <1>7, <1>8 DEF SortInv

-------------------------------------------------------------------------
(* The quick sort: its lists.                                              *)

\* The nodes of a list.
LEMMA InList ==
  ASSUME NEW S, NEW q \in Seq(S)
  PROVE  /\ \A x : x \in Q!ToSet(q) <=> \E k \in 1 .. Len(q) : x = q[k]
         /\ Q!ToSet(q) \subseteq S
<1>1. DOMAIN q = 1 .. Len(q) /\ \A k \in 1 .. Len(q) : q[k] \in S
  OBVIOUS
<1>2. \A x : x \in Q!ToSet(q) <=> \E k \in 1 .. Len(q) : x = q[k]
  BY <1>1, Zenon DEF Q!ToSet
<1>3. Q!ToSet(q) \subseteq S
  BY <1>1, <1>2, Zenon
<1> QED
  BY <1>2, <1>3

\* The lists of no node and of one.
LEMMA ShortLists ==
  /\ Q!ToSet(<<>>) = {} /\ Once(<<>>) /\ \A v : Sorted(v, <<>>)
  /\ \A x : Q!ToSet(<<x>>) = {x} /\ Once(<<x>>) /\ \A v : Sorted(v, <<x>>)
<1>1. Q!ToSet(<<>>) = {} /\ \A x : Q!ToSet(<<x>>) = {x}
  BY DEF Q!ToSet
<1>2. Once(<<>>) /\ \A v : Sorted(v, <<>>)
  BY DEF Once, Sorted
<1>3. \A x : Once(<<x>>) /\ \A v : Sorted(v, <<x>>)
  BY DEF Once, Sorted
<1> QED
  BY <1>1, <1>2, <1>3

\* A list without its first node.
LEMMA HeadAndTail ==
  ASSUME NEW S, NEW q \in Seq(S), q # <<>>, Once(q)
  PROVE  /\ Head(q) \in S /\ Tail(q) \in Seq(S) /\ Once(Tail(q))
         /\ Q!ToSet(q) = {Head(q)} \cup Q!ToSet(Tail(q)) /\ Head(q) \notin Q!ToSet(Tail(q))
<1>1. /\ Len(q) \in Nat /\ Len(q) # 0 /\ Head(q) = q[1] /\ Tail(q) \in Seq(S)
      /\ Len(Tail(q)) = Len(q) - 1
      /\ \A k \in 1 .. Len(q) - 1 : Tail(q)[k] = q[k + 1]
      /\ \A k \in 1 .. Len(q) : q[k] \in S
  BY HeadTailProperties
<1>2. Once(Tail(q))
  BY <1>1 DEF Once
<1>3. /\ \A x : x \in Q!ToSet(q) <=> \E k \in 1 .. Len(q) : x = q[k]
      /\ \A x : x \in Q!ToSet(Tail(q)) <=> \E k \in 1 .. Len(Tail(q)) : x = Tail(q)[k]
  BY <1>1, InList
<1>4. ASSUME NEW x \in Q!ToSet(q), x # Head(q) PROVE x \in Q!ToSet(Tail(q))
  <2>1. PICK k \in 1 .. Len(q) : x = q[k]
    BY <1>3
  <2>2. k # 1
    BY <1>1, <1>4, <2>1
  <2>3. k - 1 \in 1 .. Len(Tail(q)) /\ (k - 1) + 1 = k /\ k - 1 \in 1 .. Len(q) - 1
    BY <1>1, <2>2
  <2>4. x = Tail(q)[k - 1]
    BY <1>1, <2>1, <2>3
  <2> QED
    BY <1>3, <2>3, <2>4
<1>5. ASSUME NEW x \in Q!ToSet(Tail(q)) PROVE x \in Q!ToSet(q) /\ x # Head(q)
  <2>1. PICK k \in 1 .. Len(Tail(q)) : x = Tail(q)[k]
    BY <1>3
  <2>2. k + 1 \in 1 .. Len(q) /\ k + 1 # 1 /\ 1 \in 1 .. Len(q) /\ k \in 1 .. Len(q) - 1
    BY <1>1
  <2>3. x = q[k + 1]
    BY <1>1, <2>1, <2>2
  <2>4. q[k + 1] # q[1]
    BY <2>2 DEF Once
  <2> QED
    BY <1>1, <1>3, <2>2, <2>3, <2>4
<1>6. Head(q) \in Q!ToSet(q)
  <2>1. 1 \in 1 .. Len(q)
    BY <1>1
  <2> QED
    BY <1>1, <1>3, <2>1
<1> QED
  BY <1>1, <1>2, <1>4, <1>5, <1>6

\* The nodes of two lists that are put together.
LEMMA Spliced ==
  ASSUME NEW S, NEW p \in Seq(S), NEW q \in Seq(S), Once(p), Once(q),
         Q!ToSet(p) \cap Q!ToSet(q) = {}
  PROVE  /\ p \o q \in Seq(S) /\ Once(p \o q) /\ Q!ToSet(p \o q) = Q!ToSet(p) \cup Q!ToSet(q)
         /\ Len(p \o q) = Len(p) + Len(q)
         /\ \A k \in 1 .. Len(p) : (p \o q)[k] = p[k]
         /\ \A k \in 1 .. Len(q) : (p \o q)[Len(p) + k] = q[k]
<1> DEFINE r == p \o q
<1>1. /\ Len(p) \in Nat /\ Len(q) \in Nat /\ r \in Seq(S) /\ Len(r) = Len(p) + Len(q)
      /\ \A k \in 1 .. Len(p) + Len(q) : r[k] = IF k <= Len(p) THEN p[k] ELSE q[k - Len(p)]
  BY ConcatProperties
<1> HIDE DEF r
<1>2. \A k \in 1 .. Len(p) : k \in 1 .. Len(r) /\ r[k] = p[k]
  BY <1>1
<1>3. ASSUME NEW k \in 1 .. Len(q)
      PROVE  Len(p) + k \in 1 .. Len(r) /\ r[Len(p) + k] = q[k]
  <2>1. Len(p) + k \in 1 .. Len(p) + Len(q) /\ ~(Len(p) + k <= Len(p)) /\ (Len(p) + k) - Len(p) = k
    BY <1>1
  <2> QED
    BY <1>1, <2>1
<1>4. \A k \in 1 .. Len(r) : k \in 1 .. Len(p) \/ \E j \in 1 .. Len(q) : k = Len(p) + j
  <2> SUFFICES ASSUME NEW k \in 1 .. Len(r), ~(k <= Len(p))
               PROVE  \E j \in 1 .. Len(q) : k = Len(p) + j
    BY <1>1
  <2>1. k - Len(p) \in 1 .. Len(q) /\ k = Len(p) + (k - Len(p))
    BY <1>1
  <2> QED
    BY <2>1
<1>5. /\ \A k \in 1 .. Len(p) : p[k] \in Q!ToSet(p)
      /\ \A k \in 1 .. Len(q) : q[k] \in Q!ToSet(q)
  BY InList
<1>6. Once(r)
  <2> SUFFICES ASSUME NEW j \in 1 .. Len(r), NEW k \in 1 .. Len(r), r[j] = r[k] PROVE j = k
    BY DEF Once
  <2>1. CASE j \in 1 .. Len(p) /\ k \in 1 .. Len(p)
    BY <1>2, <2>1 DEF Once
  <2>2. CASE j \in 1 .. Len(p) /\ k \notin 1 .. Len(p)
    BY <1>2, <1>3, <1>4, <1>5, <2>2
  <2>3. CASE j \notin 1 .. Len(p) /\ k \in 1 .. Len(p)
    BY <1>2, <1>3, <1>4, <1>5, <2>3
  <2>4. CASE j \notin 1 .. Len(p) /\ k \notin 1 .. Len(p)
    <3>1. PICK a \in 1 .. Len(q), b \in 1 .. Len(q) : j = Len(p) + a /\ k = Len(p) + b
      BY <1>4, <2>4
    <3>2. q[a] = q[b]
      BY <1>3, <3>1
    <3> QED
      BY <3>1, <3>2 DEF Once
  <2> QED
    BY <2>1, <2>2, <2>3, <2>4
<1>7. Q!ToSet(r) = Q!ToSet(p) \cup Q!ToSet(q)
  <2>1. /\ \A x : x \in Q!ToSet(r) <=> \E k \in 1 .. Len(r) : x = r[k]
        /\ \A x : x \in Q!ToSet(p) <=> \E k \in 1 .. Len(p) : x = p[k]
        /\ \A x : x \in Q!ToSet(q) <=> \E k \in 1 .. Len(q) : x = q[k]
    BY <1>1, InList
  <2>2. ASSUME NEW x \in Q!ToSet(r) PROVE x \in Q!ToSet(p) \cup Q!ToSet(q)
    <3>1. PICK k \in 1 .. Len(r) : x = r[k]
      BY <2>1
    <3>2. CASE k \in 1 .. Len(p)
      BY <1>2, <1>5, <3>1, <3>2
    <3>3. ASSUME NEW j \in 1 .. Len(q), k = Len(p) + j PROVE x \in Q!ToSet(q)
      BY <1>3, <1>5, <3>1, <3>3
    <3> QED
      BY <1>4, <3>2, <3>3
  <2>3. ASSUME NEW x \in Q!ToSet(p) PROVE x \in Q!ToSet(r)
    BY <1>2, <2>1
  <2>4. ASSUME NEW x \in Q!ToSet(q) PROVE x \in Q!ToSet(r)
    BY <1>3, <2>1
  <2> QED
    BY <2>2, <2>3, <2>4
<1> QED
  BY <1>1, <1>2, <1>3, <1>6, <1>7 DEF r

\* Two lists in order, none of the first beyond any of the second, are one in order.
LEMMA SplicedInOrder ==
  ASSUME NEW v \in Seq(Nat), NEW p \in Seq(DOMAIN v), NEW q \in Seq(DOMAIN v),
         Once(p), Once(q), Q!ToSet(p) \cap Q!ToSet(q) = {},
         Sorted(v, p), Sorted(v, q),
         \A x \in Q!ToSet(p), y \in Q!ToSet(q) : v[x] <= v[y]
  PROVE  Sorted(v, p \o q)
<1> DEFINE r == p \o q
<1>1. /\ Len(p) \in Nat /\ Len(q) \in Nat /\ Len(r) = Len(p) + Len(q)
      /\ \A k \in 1 .. Len(p) : r[k] = p[k]
      /\ \A k \in 1 .. Len(q) : r[Len(p) + k] = q[k]
      /\ \A k \in 1 .. Len(p) : p[k] \in Q!ToSet(p)
      /\ \A k \in 1 .. Len(q) : q[k] \in Q!ToSet(q)
  BY Spliced, InList
<1> HIDE DEF r
<1> SUFFICES ASSUME NEW k \in 1 .. Len(r) - 1 PROVE v[r[k]] <= v[r[k + 1]]
  BY DEF Sorted, r
<1>2. CASE k + 1 <= Len(p)
  <2>1. k \in 1 .. Len(p) - 1 /\ k \in 1 .. Len(p) /\ k + 1 \in 1 .. Len(p)
    BY <1>1, <1>2
  <2> QED
    BY <1>1, <2>1 DEF Sorted
<1>3. CASE k = Len(p)
  <2>1. k \in 1 .. Len(p) /\ 1 \in 1 .. Len(q)
    BY <1>1, <1>3
  <2>2. r[k] = p[k] /\ r[k + 1] = q[1]
    BY <1>1, <1>3, <2>1
  <2> QED
    BY <1>1, <2>1, <2>2
<1>4. CASE k > Len(p)
  <2> DEFINE j == k - Len(p)
  <2>1. /\ j \in 1 .. Len(q) - 1 /\ j \in 1 .. Len(q) /\ j + 1 \in 1 .. Len(q)
        /\ k = Len(p) + j /\ k + 1 = Len(p) + (j + 1)
    BY <1>1, <1>4
  <2> HIDE DEF j
  <2>2. r[k] = q[j] /\ r[k + 1] = q[j + 1]
    BY <1>1, <2>1
  <2> QED
    BY <2>1, <2>2 DEF Sorted
<1> QED
  BY <1>1, <1>2, <1>3, <1>4

\* A list of a set has every element of it once.
LEMMA Listed ==
  ASSUME NEW len \in Nat, NEW S \in SUBSET (1 .. len), NEW list \in Q!SetToSeqs(S)
  PROVE  list \in Seq(S) /\ Once(list) /\ Q!ToSet(list) = S
<1> DEFINE size == Cardinality(S)
<1>1. Q!Cardinality(S) = size
  BY DEF Q!Cardinality, Cardinality
<1>2. IsFiniteSet(S) /\ size \in Nat /\ IsFiniteSet(1 .. size) /\ Cardinality(1 .. size) = size
  <2>1. IsFiniteSet(1 .. len)
    BY FS_Interval
  <2>2. IsFiniteSet(S)
    BY <2>1, FS_Subset
  <2>3. size \in Nat
    BY <2>2, FS_CardinalityType
  <2> HIDE DEF size
  <2>4. IsFiniteSet(1 .. size) /\ Cardinality(1 .. size) = size
    BY <2>3, FS_Interval
  <2> QED
    BY <2>2, <2>3, <2>4
<1>3. list \in [1 .. size -> S] /\ \A i_, j \in 1 .. size : i_ # j => list[i_] # list[j]
  BY <1>1 DEF Q!SetToSeqs
<1> HIDE DEF size
<1>4. list \in Seq(S) /\ Len(list) = size /\ Once(list)
  BY <1>2, <1>3 DEF Once
<1>5. list \in Injection(1 .. size, S)
  BY <1>3 DEF Injection, IsInjective
<1>6. list \in Surjection(1 .. size, S)
  BY <1>2, <1>5, FS_Injection DEF size
<1>7. \A x \in S : \E k \in 1 .. size : list[k] = x
  BY <1>6 DEF Surjection
<1>8. Q!ToSet(list) = S
  <2>1. /\ \A x : x \in Q!ToSet(list) <=> \E k \in 1 .. Len(list) : x = list[k]
        /\ Q!ToSet(list) \subseteq S
    BY <1>4, InList
  <2>2. \A x \in S : \E k \in 1 .. Len(list) : x = list[k]
    BY <1>4, <1>7
  <2> QED
    BY <2>1, <2>2
<1> QED
  BY <1>4, <1>8

\* A list that has each of the first len nodes once has len nodes.
LEMMA Complete ==
  ASSUME NEW len \in Nat, NEW list \in Seq(1 .. len), Once(list), Q!ToSet(list) = 1 .. len
  PROVE  Len(list) = len
<1>1. Len(list) \in Nat /\ list \in [1 .. Len(list) -> 1 .. len]
  OBVIOUS
<1>2. list \in Injection(1 .. Len(list), 1 .. len)
  BY <1>1 DEF Once, Injection, IsInjective
<1>3. list \in Surjection(1 .. Len(list), 1 .. len)
  <2>1. \A x \in 1 .. len : \E k \in 1 .. Len(list) : x = list[k]
    BY InList
  <2> QED
    BY <1>1, <2>1 DEF Surjection
<1>4. \A s \in Nat : IsFiniteSet(1 .. s) /\ Cardinality(1 .. s) = s
  <2> SUFFICES ASSUME NEW s \in Nat PROVE IsFiniteSet(1 .. s) /\ Cardinality(1 .. s) = s
    OBVIOUS
  <2>1. IsFiniteSet(1 .. s) /\ Cardinality(1 .. s) = IF 1 > s THEN 0 ELSE s - 1 + 1
    BY FS_Interval
  <2> QED
    BY <2>1
<1> QED
  BY <1>2, <1>3, <1>4, FS_Injection

-------------------------------------------------------------------------
(* The quick sort: its steps.                                              *)

\* What the invariant says of the innermost call.
LEMMA Innermost ==
  ASSUME SortInv, calls # <<>>
  PROVE  /\ Len(calls) # 0 /\ Q!top \in Frames(Value) /\ FrameOK(Value, Q!top)
         /\ Own(Q!top) \cap Q!ToSet(returned) = {}
         /\ \A x \in Q!ToSet(returned) : Belongs(Value, Q!top, x)
         /\ ~Waits(Q!top) => returned = <<>>
         /\ Value \in Seq(Nat) /\ returned \in Seq(DOMAIN Value)
         /\ Once(returned) /\ Sorted(Value, returned)
<1>1. calls \in Seq(Frames(Value)) /\ Len(calls) # 0 /\ Len(calls) \in 1 .. Len(calls)
  BY DEF SortInv, SortTypeOK
<1> QED
  BY <1>1 DEF SortInv, SortTypeOK, Waiting, Apart, Nested, Q!top

\* An empty list is returned as it is.
LEMMA EmptyReturns ==
  ASSUME SortInv, Q!return_empty
  PROVE  SortInv'
<1>1. calls # <<>> /\ Q!top.at = "enter" /\ Q!top.input = <<>> /\ Q!Return(<<>>) /\ Value' = Value
  BY DEF Q!return_empty, Q!At
<1>2. returned = <<>>
  BY <1>1, Innermost DEF Waits
<1>3. Own(Q!top) = {}
  BY <1>1, Innermost, ShortLists DEF Own, FrameOK, Filled
<1>4. <<>> \in Seq(DOMAIN Value)
  OBVIOUS
<1> QED
  BY <1>1, <1>2, <1>3, <1>4, Innermost, ShortLists, ReturnKeeps

\* The first node goes to the front of the result and is the pivot from then on.
LEMMA PivotTaken ==
  ASSUME SortInv, Q!take_pivot
  PROVE  SortInv'
<1> DEFINE top == Q!top
           c == [top EXCEPT !.at = "partition",
                            !.result = <<Head(top.input)>>, !.input = Tail(top.input)]
<1>1. /\ calls # <<>> /\ top.at = "enter" /\ top.input # <<>> /\ Q!Continue(c)
      /\ UNCHANGED <<Value, returned>>
  BY DEF Q!take_pivot, Q!At
<1>2. /\ Len(calls) # 0 /\ top \in Frames(Value) /\ FrameOK(Value, top) /\ returned = <<>>
  BY <1>1, Innermost DEF Waits
<1> HIDE DEF top
<1>3. /\ top.input \in Seq(DOMAIN Value) /\ Once(top.input)
      /\ top.result = <<>> /\ top.lower_part = <<>> /\ top.new_lower = <<>>
  BY <1>1, <1>2 DEF Frames, FrameOK, Unshared, Filled
<1> DEFINE p == Head(top.input)
           q == Tail(top.input)
<1>4. /\ p \in DOMAIN Value /\ q \in Seq(DOMAIN Value) /\ Once(q)
      /\ Q!ToSet(top.input) = {p} \cup Q!ToSet(q) /\ p \notin Q!ToSet(q)
  BY <1>1, <1>3, HeadAndTail
<1>5. <<p>> \in Seq(DOMAIN Value) /\ Len(<<p>>) = 1
  BY <1>4
<1>6. /\ c.at = "partition" /\ c.input = q /\ c.result = <<p>>
      /\ c.lower_part = <<>> /\ c.new_lower = <<>> /\ c \in Frames(Value)
  BY <1>2, <1>3, <1>4, <1>5 DEF Frames
<1> HIDE DEF c, p, q
<1>7. Unshared(c)
  BY <1>4, <1>6, ShortLists DEF Unshared
<1>8. Filled(c)
  BY <1>5, <1>6 DEF Filled
<1>9. Sided(Value, c)
  BY <1>6, ShortLists DEF Sided
<1>10. Own(c) = Own(top)
  BY <1>3, <1>4, <1>6, ShortLists DEF Own
<1>11. FrameOK(Value, c) /\ ~Waits(c)
  BY <1>6, <1>7, <1>8, <1>9 DEF FrameOK, Waits
<1> QED
  BY <1>1, <1>2, <1>6, <1>10, <1>11, ContinueKeeps DEF top

\* The nodes below the pivot go to a list of their own; the others stay.
LEMMA Partitioned ==
  ASSUME SortInv, Q!partition
  PROVE  SortInv'
<1> DEFINE top == Q!top
<1>1. calls # <<>> /\ top.at = "partition" /\ UNCHANGED <<Value, returned>>
  BY DEF Q!partition, Q!At
<1>2. /\ Len(calls) # 0 /\ top \in Frames(Value) /\ FrameOK(Value, top) /\ returned = <<>>
      /\ Value \in Seq(Nat)
  BY <1>1, Innermost DEF Waits
<1>3. PICK low \in Q!SetToSeqs(Q!BelowPivot),
           rest \in Q!SetToSeqs(Q!ToSet(top.input) \ Q!BelowPivot) :
        Q!Continue([top EXCEPT !.at = "lower", !.lower_part = low, !.input = rest])
  BY DEF Q!partition
<1> DEFINE c == [top EXCEPT !.at = "lower", !.lower_part = low, !.input = rest]
           p == top.result[1]
           below == {x \in Q!ToSet(top.input) : Value[x] < Value[p]}
<1>4. /\ top.input \in Seq(DOMAIN Value) /\ top.result \in Seq(DOMAIN Value)
      /\ Len(top.result) = 1 /\ top.lower_part = <<>> /\ top.new_lower = <<>>
      /\ Q!ToSet(top.input) \cap Q!ToSet(top.result) = {}
  <2> HIDE DEF top
  <2> QED
    BY <1>1, <1>2 DEF Frames, FrameOK, Unshared, Filled
<1>5. Q!BelowPivot = below
  <2>1. Head(top.result) = p
    BY <1>4
  <2> QED
    BY <2>1 DEF Q!BelowPivot, Q!pivot
<1> HIDE DEF top
<1>6. /\ Q!ToSet(top.input) \subseteq 1 .. Len(Value) /\ Len(Value) \in Nat
      /\ DOMAIN Value = 1 .. Len(Value)
  BY <1>2, <1>4, InList
<1>7. /\ low \in Seq(below) /\ Once(low) /\ Q!ToSet(low) = below
      /\ rest \in Seq(Q!ToSet(top.input) \ below) /\ Once(rest)
      /\ Q!ToSet(rest) = Q!ToSet(top.input) \ below
  <2>1. /\ below \in SUBSET (1 .. Len(Value))
        /\ Q!ToSet(top.input) \ below \in SUBSET (1 .. Len(Value))
    BY <1>6
  <2>2. low \in Q!SetToSeqs(below) /\ rest \in Q!SetToSeqs(Q!ToSet(top.input) \ below)
    BY <1>3, <1>5
  <2> HIDE DEF below
  <2> QED
    BY <1>6, <2>1, <2>2, Listed
<1>8. low \in Seq(DOMAIN Value) /\ rest \in Seq(DOMAIN Value)
  <2>1. below \subseteq DOMAIN Value /\ Q!ToSet(top.input) \ below \subseteq DOMAIN Value
    BY <1>6
  <2> HIDE DEF below
  <2> QED
    BY <1>7, <2>1
<1>9. /\ c.at = "lower" /\ c.input = rest /\ c.result = top.result
      /\ c.lower_part = low /\ c.new_lower = <<>> /\ c \in Frames(Value)
  BY <1>2, <1>4, <1>8 DEF Frames
<1>10. Q!Continue(c)
  BY <1>3
<1> HIDE DEF c, below
<1>11. Q!ToSet(low) \cup Q!ToSet(rest) = Q!ToSet(top.input) /\ Q!ToSet(low) \cap Q!ToSet(rest) = {}
  BY <1>7 DEF below
<1>12. Unshared(c)
  BY <1>4, <1>7, <1>9, <1>11, ShortLists DEF Unshared
<1>13. Filled(c)
  BY <1>4, <1>9 DEF Filled
<1>14. Sided(Value, c)
  <2>1. \A x \in Q!ToSet(low) : Value[x] < Value[p]
    BY <1>7 DEF below
  <2>2. ASSUME NEW x \in Q!ToSet(rest) PROVE Value[x] >= Value[p]
    <3>1. ~(Value[x] < Value[p]) /\ x \in DOMAIN Value
      BY <1>6, <1>7 DEF below
    <3>2. p \in DOMAIN Value
      BY <1>4
    <3>3. Value[x] \in Nat /\ Value[p] \in Nat
      BY <1>2, <3>1, <3>2
    <3> QED
      BY <3>1, <3>3
  <2> QED
    BY <1>9, <2>1, <2>2, ShortLists DEF Sided
<1>15. Own(c) = Own(top)
  BY <1>4, <1>9, <1>11, ShortLists DEF Own
<1>16. FrameOK(Value, c) /\ ~Waits(c)
  BY <1>9, <1>12, <1>13, <1>14 DEF FrameOK, Waits
<1> QED
  BY <1>1, <1>2, <1>9, <1>10, <1>15, <1>16, ContinueKeeps DEF top

\* The nodes below the pivot go to the call that sorts them.
LEMMA LowerCalled ==
  ASSUME SortInv, Q!sort_lower
  PROVE  SortInv'
<1> DEFINE top == Q!top
           c == [top EXCEPT !.at = "higher", !.lower_part = <<>>]
           list == top.lower_part
<1>1. /\ calls # <<>> /\ top.at = "lower" /\ Q!Recurse(c, list) /\ UNCHANGED <<Value, returned>>
  BY DEF Q!sort_lower, Q!At
<1>2. /\ Len(calls) # 0 /\ top \in Frames(Value) /\ FrameOK(Value, top) /\ returned = <<>>
  BY <1>1, Innermost DEF Waits
<1> HIDE DEF top
<1>3. /\ list \in Seq(DOMAIN Value) /\ Once(list) /\ Once(top.input) /\ Len(top.result) = 1
      /\ top.new_lower = <<>>
      /\ Q!ToSet(top.input) \cap Q!ToSet(list) = {}
      /\ Q!ToSet(top.input) \cap Q!ToSet(top.result) = {}
      /\ Q!ToSet(list) \cap Q!ToSet(top.result) = {}
      /\ \A x \in Q!ToSet(list) : Value[x] < Value[top.result[1]]
      /\ \A x \in Q!ToSet(top.input) : Value[x] >= Value[top.result[1]]
  BY <1>1, <1>2 DEF Frames, FrameOK, Unshared, Filled, Sided
<1>4. <<>> \in Seq(DOMAIN Value)
  OBVIOUS
<1>5. /\ c.at = "higher" /\ c.input = top.input /\ c.result = top.result
      /\ c.lower_part = <<>> /\ c.new_lower = <<>> /\ c \in Frames(Value)
  BY <1>2, <1>3, <1>4 DEF Frames
<1>6. Own(top) = Q!ToSet(top.input) \cup Q!ToSet(top.result) \cup Q!ToSet(list)
  BY <1>3, ShortLists DEF Own
<1> HIDE DEF c, list
<1>7. Unshared(c) /\ Filled(c)
  BY <1>3, <1>5, ShortLists DEF Unshared, Filled
<1>8. Sided(Value, c)
  BY <1>3, <1>5, ShortLists DEF Sided
<1>9. Own(c) = Q!ToSet(top.input) \cup Q!ToSet(top.result)
  BY <1>5, ShortLists DEF Own
<1>10. Own(c) \cap Q!ToSet(list) = {}
  BY <1>3, <1>9
<1>11. Own(c) \cup Q!ToSet(list) = Own(top) \cup Q!ToSet(returned)
  BY <1>2, <1>6, <1>9, ShortLists
<1>12. \A x \in Q!ToSet(list) : Belongs(Value, c, x)
  BY <1>3, <1>5 DEF Belongs
<1>13. FrameOK(Value, c) /\ Waits(c)
  BY <1>5, <1>7, <1>8 DEF FrameOK, Waits
<1> QED
  BY <1>1, <1>2, <1>3, <1>5, <1>10, <1>11, <1>12, <1>13, RecurseKeeps DEF top

\* What that call returned is kept, and the other nodes go to the second call.
LEMMA HigherCalled ==
  ASSUME SortInv, Q!sort_higher
  PROVE  SortInv'
<1> DEFINE top == Q!top
           c == [top EXCEPT !.at = "piece", !.new_lower = returned, !.input = <<>>]
           list == top.input
<1>1. /\ calls # <<>> /\ top.at = "higher" /\ Q!Recurse(c, list) /\ Value' = Value
      /\ returned' = <<>>
  BY DEF Q!sort_higher, Q!At
<1>2. /\ Len(calls) # 0 /\ top \in Frames(Value) /\ FrameOK(Value, top)
      /\ returned \in Seq(DOMAIN Value) /\ Once(returned) /\ Sorted(Value, returned)
      /\ Own(top) \cap Q!ToSet(returned) = {}
      /\ \A x \in Q!ToSet(returned) : Belongs(Value, top, x)
  BY <1>1, Innermost
<1> HIDE DEF top
<1>3. /\ list \in Seq(DOMAIN Value) /\ Once(list) /\ Len(top.result) = 1
      /\ top.new_lower = <<>> /\ top.lower_part = <<>>
      /\ Q!ToSet(list) \cap Q!ToSet(top.result) = {}
      /\ \A x \in Q!ToSet(list) : Value[x] >= Value[top.result[1]]
      /\ \A x \in Q!ToSet(returned) : Value[x] < Value[top.result[1]]
  BY <1>1, <1>2 DEF Frames, FrameOK, Unshared, Filled, Sided, Belongs
<1>4. <<>> \in Seq(DOMAIN Value)
  OBVIOUS
<1>5. /\ c.at = "piece" /\ c.input = <<>> /\ c.result = top.result
      /\ c.lower_part = <<>> /\ c.new_lower = returned /\ c \in Frames(Value)
  BY <1>2, <1>3, <1>4 DEF Frames
<1>6. Own(top) = Q!ToSet(list) \cup Q!ToSet(top.result)
  BY <1>3, ShortLists DEF Own
<1> HIDE DEF c, list
<1>7. Unshared(c) /\ Filled(c)
  BY <1>2, <1>3, <1>5, <1>6, ShortLists DEF Unshared, Filled
<1>8. Sided(Value, c)
  BY <1>2, <1>3, <1>5, ShortLists DEF Sided
<1>9. Own(c) = Q!ToSet(returned) \cup Q!ToSet(top.result)
  BY <1>5, ShortLists DEF Own
<1>10. Own(c) \cap Q!ToSet(list) = {}
  BY <1>2, <1>3, <1>6, <1>9
<1>11. Own(c) \cup Q!ToSet(list) = Own(top) \cup Q!ToSet(returned)
  BY <1>6, <1>9
<1>12. \A x \in Q!ToSet(list) : Belongs(Value, c, x)
  BY <1>3, <1>5 DEF Belongs
<1>13. FrameOK(Value, c) /\ Waits(c)
  BY <1>5, <1>7, <1>8 DEF FrameOK, Waits
<1> QED
  BY <1>1, <1>2, <1>3, <1>5, <1>10, <1>11, <1>12, <1>13, RecurseKeeps DEF top

\* What both calls returned goes before and after the pivot, and is returned.
LEMMA PiecedTogether ==
  ASSUME SortInv, Q!piece_together
  PROVE  SortInv'
<1> DEFINE top == Q!top
           low == top.new_lower
           mid == top.result
           p == top.result[1]
<1>1. /\ calls # <<>> /\ top.at = "piece" /\ Q!Return(low \o mid \o returned) /\ Value' = Value
  BY DEF Q!piece_together, Q!At
<1>2. /\ Len(calls) # 0 /\ top \in Frames(Value) /\ FrameOK(Value, top) /\ Value \in Seq(Nat)
      /\ returned \in Seq(DOMAIN Value) /\ Once(returned) /\ Sorted(Value, returned)
      /\ Own(top) \cap Q!ToSet(returned) = {}
      /\ \A x \in Q!ToSet(returned) : Belongs(Value, top, x)
  BY <1>1, Innermost
<1> HIDE DEF top
<1>3. /\ low \in Seq(DOMAIN Value) /\ Once(low) /\ Sorted(Value, low)
      /\ mid \in Seq(DOMAIN Value) /\ Len(mid) = 1
      /\ top.lower_part = <<>> /\ top.input = <<>>
      /\ Q!ToSet(low) \cap Q!ToSet(mid) = {}
      /\ \A x \in Q!ToSet(low) : Value[x] < Value[p]
      /\ \A x \in Q!ToSet(returned) : Value[x] >= Value[p]
  BY <1>1, <1>2 DEF Frames, FrameOK, Unshared, Filled, Sided, Belongs
<1>4. mid = <<p>> /\ p \in DOMAIN Value /\ Value[p] \in Nat
  BY <1>2, <1>3
<1>5. Own(top) = Q!ToSet(low) \cup Q!ToSet(mid)
  BY <1>3, ShortLists DEF Own
<1>6. Q!ToSet(mid) = {p} /\ Once(mid) /\ Sorted(Value, mid)
  BY <1>4, ShortLists
<1>7. \A x \in DOMAIN Value : Value[x] \in Nat
  BY <1>2
<1>8. Q!ToSet(low) \subseteq DOMAIN Value /\ Q!ToSet(returned) \subseteq DOMAIN Value
  BY <1>2, <1>3, InList
<1> HIDE DEF low, mid, p
<1>9. \A x \in Q!ToSet(low), y \in Q!ToSet(mid) : Value[x] <= Value[y]
  BY <1>3, <1>4, <1>6, <1>7, <1>8
<1>10. /\ low \o mid \in Seq(DOMAIN Value) /\ Once(low \o mid)
       /\ Q!ToSet(low \o mid) = Q!ToSet(low) \cup Q!ToSet(mid)
  BY <1>3, <1>6, Spliced
<1>11. Sorted(Value, low \o mid)
  BY <1>2, <1>3, <1>6, <1>9, SplicedInOrder
<1> DEFINE half == low \o mid
<1>12. \A x \in Q!ToSet(half), y \in Q!ToSet(returned) : Value[x] <= Value[y]
  <2> SUFFICES ASSUME NEW x \in Q!ToSet(low) \cup Q!ToSet(mid), NEW y \in Q!ToSet(returned)
               PROVE  Value[x] <= Value[y]
    BY <1>10
  <2>1. Value[x] \in Nat /\ Value[y] \in Nat
    BY <1>4, <1>6, <1>7, <1>8
  <2>2. Value[x] <= Value[p] /\ Value[p] <= Value[y]
    BY <1>3, <1>4, <1>6, <2>1
  <2> QED
    BY <1>4, <2>1, <2>2
<1>13. /\ half \in Seq(DOMAIN Value) /\ Once(half) /\ Sorted(Value, half)
       /\ Q!ToSet(half) = Own(top) /\ Q!ToSet(half) \cap Q!ToSet(returned) = {}
       /\ Q!Return(half \o returned)
  BY <1>1, <1>2, <1>5, <1>10, <1>11
<1> HIDE DEF half
<1>14. /\ half \o returned \in Seq(DOMAIN Value) /\ Once(half \o returned)
       /\ Q!ToSet(half \o returned) = Own(top) \cup Q!ToSet(returned)
  BY <1>2, <1>13, Spliced
<1>15. Sorted(Value, half \o returned)
  BY <1>2, <1>12, <1>13, SplicedInOrder
<1> QED
  BY <1>1, <1>2, <1>13, <1>14, <1>15, ReturnKeeps DEF top

\* Every step of the quick sort preserves its invariant.
LEMMA SortStep ==
  ASSUME SortInv, [Q!Next]_sortVars
  PROVE  SortInv'
<1>1. CASE Q!Finished \/ UNCHANGED sortVars
  <2>1. Value' = Value /\ calls' = calls /\ returned' = returned
    BY <1>1 DEF Q!Finished, Q!vars, sortVars
  <2>2. SortTypeOK' /\ Waiting' /\ Placed'
    BY <2>1 DEF SortInv, SortTypeOK, Waiting, Placed
  <2>3. Apart' /\ Nested'
    BY <2>1 DEF SortInv, Apart, Nested
  <2> QED
    BY <2>1, <2>2, <2>3 DEF SortInv
<1> QED
  BY <1>1, EmptyReturns, PivotTaken, Partitioned, LowerCalled, HigherCalled, PiecedTogether
     DEF Q!Next

\* One call with the whole list is there at first.
LEMMA SortStarts ==
  ASSUME WorkAssumption, Q!Init
  PROVE  SortInv
<1> DEFINE whole == [k \in DOMAIN Value |-> k]
           d == Q!Call(whole)
<1>1. PICK len \in 0 .. MaxLen : Value \in [1 .. len -> Values]
  BY DEF Q!Init
<1>2. /\ len \in Nat /\ Values \subseteq Nat
  BY DEF WorkAssumption, Q!QuickSortAssumption
<1>3. Value \in Seq(Nat) /\ DOMAIN Value = 1 .. len /\ Len(Value) = len
  <2>1. Value \in [1 .. len -> Nat]
    BY <1>1, <1>2
  <2> QED
    BY <1>2, <2>1
<1>4. /\ whole \in Seq(DOMAIN Value) /\ Len(whole) = len /\ \A k \in 1 .. len : whole[k] = k
  BY <1>2, <1>3
<1>5. Once(whole) /\ Q!ToSet(whole) = DOMAIN Value
  <2> HIDE DEF whole
  <2>1. Once(whole)
    BY <1>4 DEF Once
  <2>2. /\ Q!ToSet(whole) \subseteq DOMAIN Value
        /\ \A x : x \in Q!ToSet(whole) <=> \E k \in 1 .. Len(whole) : x = whole[k]
    BY <1>4, InList
  <2> QED
    BY <1>3, <1>4, <2>1, <2>2
<1>6. calls = <<d>> /\ returned = <<>>
  BY DEF Q!Init, Q!Nodes
<1> HIDE DEF whole
<1>7. /\ d.at = "enter" /\ d.input = whole /\ d.result = <<>> /\ d.lower_part = <<>>
      /\ d.new_lower = <<>> /\ d \in Frames(Value)
  BY <1>4 DEF Q!Call, Frames
<1> HIDE DEF d
<1>8. Unshared(d) /\ Filled(d) /\ Own(d) = DOMAIN Value
  BY <1>5, <1>7, ShortLists DEF Unshared, Filled, Own
<1>9. Sided(Value, d)
  BY <1>7, ShortLists DEF Sided
<1>10. /\ Len(calls) = 1 /\ calls[1] = d /\ 1 .. 1 = {1} /\ calls \in Seq(Frames(Value))
       /\ returned \in Seq(DOMAIN Value) /\ 1 .. 1 - 1 = {}
  BY <1>6, <1>7
<1>11. SortTypeOK /\ \A k \in 1 .. Len(calls) : FrameOK(Value, calls[k])
  BY <1>3, <1>8, <1>9, <1>10 DEF SortTypeOK, FrameOK
<1>12. Waiting /\ Placed
  BY <1>6, <1>8, <1>10 DEF Waiting, Placed
<1>13. Apart /\ Nested
  BY <1>6, <1>10, ShortLists DEF Apart, Nested
<1> QED
  BY <1>6, <1>11, <1>12, <1>13, ShortLists DEF SortInv

\* SortInv while a sort runs.
SorterInv == chosen = "sort" => SortInv

\* ReturnsSorted: every node is in one place all the time, and what a call returns is on its side
\* of the pivots of all the calls around it.
THEOREM SortIsRight == Spec => []ReturnsSorted
<1>1. Init => SorterInv
  BY SortStarts, WorkAssumption DEF Init, SorterInv
<1>2. SorterInv /\ [Next]_vars => SorterInv'
  <2> SUFFICES ASSUME SorterInv, [Next]_vars, chosen' = "sort" PROVE SortInv'
    BY DEF SorterInv
  <2>1. chosen = "sort" /\ [Q!Next]_sortVars
    BY DEF Next, vars
  <2> QED
    BY <2>1, SortStep DEF SorterInv
<1>3. SorterInv => ReturnsSorted
  <2> SUFFICES ASSUME SortInv, calls = <<>>
               PROVE  /\ Q!Ordered(returned) /\ Len(returned) = Len(Value)
                      /\ Q!ToSet(returned) = Q!Nodes
    BY DEF SorterInv, ReturnsSorted, Q!ReturnsSorted
  <2>1. /\ Value \in Seq(Nat) /\ Len(Value) \in Nat /\ DOMAIN Value = 1 .. Len(Value)
        /\ returned \in Seq(1 .. Len(Value)) /\ Once(returned) /\ Sorted(Value, returned)
    BY DEF SortInv, SortTypeOK
  <2>2. Q!ToSet(returned) \subseteq DOMAIN Value
    BY <2>1, InList
  <2>3. Len(calls) = 0 /\ 1 .. 0 = {}
    OBVIOUS
  <2>4. Q!ToSet(returned) = 1 .. Len(Value)
    BY <2>1, <2>2, <2>3 DEF SortInv, Placed
  <2> QED
    BY <2>1, <2>4, Complete DEF Q!Ordered, Sorted, Q!Nodes
<1> QED
  BY <1>1, <1>2, <1>3, PTL DEF Spec

-------------------------------------------------------------------------
(* The programs of Future/: what a step does.                              *)

\* The types of what the threads have to themselves.
ProgramTypeOK ==
  /\ at \in [F!Threads -> Nat \ {0}]
  /\ inside = [t \in F!Threads |-> inside[t]]
  /\ got = [t \in F!Threads |-> got[t]]

\* t comes to its next statement, gets something, or goes on inside future.get().
Advances(t) == at'[t] = at[t] + 1 /\ \A u \in F!Threads : u # t => at'[u] = at[u]
Receives(t, what) ==
  got'[t] = Append(got[t], what) /\ \A u \in F!Threads : u # t => got'[u] = got[u]
Passes(t, how) == inside'[t] = how /\ \A u \in F!Threads : u # t => inside'[u] = inside[u]

\* What a statement of each kind does.
Executes(t, statement) ==
  LET kind == statement[1] IN
  \/ /\ kind = "start" /\ Advances(t)
     /\ UNCHANGED <<result, valid, moved, inside, vector, got, terminated>>
  \/ /\ kind = "join" /\ F!Ended(statement[2]) /\ Advances(t)
     /\ UNCHANGED <<result, valid, moved, inside, vector, got, terminated>>
  \/ /\ kind = "set" /\ result = "none" /\ result' = statement[2] /\ Advances(t)
     /\ UNCHANGED <<valid, moved, inside, vector, got, terminated>>
  \/ /\ kind = "set" /\ result # "none" /\ F!Throw(t, "satisfied", statement[3])
     /\ UNCHANGED <<result, valid, moved, inside, vector>>
  \/ /\ kind = "call" /\ result' \in {"value", "exception"} /\ Advances(t)
     /\ UNCHANGED <<valid, moved, inside, vector, got, terminated>>
  \/ /\ kind = "destroy" /\ result' = (IF result = "none" THEN "broken" ELSE result) /\ Advances(t)
     /\ UNCHANGED <<valid, moved, inside, vector, got, terminated>>
  \/ /\ kind = "get" /\ ~valid /\ F!Throw(t, "no_state", statement[2])
     /\ UNCHANGED <<result, valid, moved, inside, vector>>
  \/ /\ kind = "get" /\ valid /\ result \in F!runtime_error \cup F!future_error
     /\ F!Throw(t, result, statement[2]) /\ valid' = FALSE
     /\ UNCHANGED <<result, moved, inside, vector>>
  \/ /\ kind = "get" /\ valid /\ result # "none"
     /\ result \notin F!runtime_error \cup F!future_error /\ Passes(t, "take")
     /\ UNCHANGED <<at, result, valid, moved, vector, got, terminated>>
  \/ /\ kind = "get_shared" /\ result # "none" /\ Receives(t, result) /\ Advances(t)
     /\ UNCHANGED <<result, valid, moved, inside, vector, terminated>>
  \/ /\ kind = "wait" /\ result # "none" /\ Advances(t)
     /\ UNCHANGED <<result, valid, moved, inside, vector, got, terminated>>
  \/ /\ kind = "wait_for" /\ result = "none"
     /\ UNCHANGED <<at, result, valid, moved, inside, vector, got, terminated>>
  \/ /\ kind = "wait_for" /\ result # "none" /\ Advances(t)
     /\ UNCHANGED <<result, valid, moved, inside, vector, got, terminated>>
  \/ /\ kind = "push" /\ vector' = vector + 1 /\ Advances(t)
     /\ UNCHANGED <<result, valid, moved, inside, got, terminated>>
  \/ /\ kind = "sum" /\ Receives(t, IF vector = Pushes THEN "sum" ELSE "part") /\ Advances(t)
     /\ UNCHANGED <<result, valid, moved, inside, vector, terminated>>

\* What the two steps inside future.get() do.
Takes(t) ==
  /\ inside[t] = "take" /\ Passes(t, "reset") /\ moved' = TRUE
  /\ Receives(t, IF moved THEN "gone" ELSE result)
  /\ terminated' = (IF moved THEN t ELSE "none")
  /\ UNCHANGED <<at, result, valid, vector>>
Resets(t) ==
  /\ inside[t] = "reset" /\ Passes(t, "no") /\ valid' = FALSE /\ Advances(t)
  /\ UNCHANGED <<result, moved, vector, got, terminated>>

\* The changes of a step, for one thread at a time.
LEMMA ForOneThread ==
  ASSUME ProgramTypeOK, NEW t \in F!Threads
  PROVE  /\ F!Done(t) => Advances(t)
         /\ \A what : F!Gets(t, what) => Receives(t, what)
         /\ \A how : inside' = [inside EXCEPT ![t] = how] => Passes(t, how)
<1>1. F!Done(t) => Advances(t)
  BY DEF ProgramTypeOK, F!Done, Advances
<1>2. ASSUME NEW what, F!Gets(t, what) PROVE Receives(t, what)
  BY <1>2 DEF ProgramTypeOK, F!Gets, Receives
<1>3. ASSUME NEW how, inside' = [inside EXCEPT ![t] = how] PROVE Passes(t, how)
  BY <1>3 DEF ProgramTypeOK, Passes
<1> QED
  BY <1>1, <1>2, <1>3

\* What is thrown is caught or ends the program.
LEMMA Thrown ==
  ASSUME ProgramTypeOK, NEW t \in F!Threads, NEW what, NEW caught, F!Throw(t, what, caught)
  PROVE  /\ Receives(t, what)
         /\ what \in caught => Advances(t) /\ terminated' = terminated
         /\ what \notin caught => terminated' = t /\ at' = at
BY ForOneThread DEF F!Throw

\* A step is a statement, or one of the two steps inside future.get().
LEMMA StepIs ==
  ASSUME ProgramTypeOK, NEW t \in F!Threads, F!Step(t)
  PROVE  /\ terminated = "none" /\ program' = program /\ ~F!Ended("main")
         /\ \/ Takes(t)
            \/ Resets(t)
            \/ inside[t] = "no" /\ ~F!Ended(t) /\ Executes(t, F!Statement(t))
<1>1. CASE F!get_takes(t)
  <2>1. Takes(t)
    BY <1>1, ForOneThread DEF F!get_takes, Takes
  <2> QED
    BY <1>1, <2>1 DEF F!get_takes
<1>2. CASE F!get_resets(t)
  <2>1. Resets(t)
    BY <1>2, ForOneThread DEF F!get_resets, Resets
  <2> QED
    BY <1>2, <2>1 DEF F!get_resets
<1> DEFINE Statement(kind) ==
             /\ terminated = "none" /\ program' = program /\ ~F!Ended("main")
             /\ inside[t] = "no" /\ ~F!Ended(t) /\ F!Statement(t)[1] = kind
<1>3. CASE F!start(t)
  <2>1. Statement("start")
    BY <1>3 DEF F!start, F!About, F!Statement
  <2> QED
    BY <1>3, <2>1, ForOneThread DEF F!start, F!future, Executes
<1>4. CASE F!join(t)
  <2>1. Statement("join")
    BY <1>4 DEF F!join, F!About, F!Statement
  <2> QED
    BY <1>4, <2>1, ForOneThread DEF F!join, F!future, Executes
<1>5. CASE F!set(t)
  <2>1. Statement("set")
    BY <1>5 DEF F!set, F!About, F!Statement
  <2> QED
    BY <1>5, <2>1, ForOneThread DEF F!set, F!future, F!ready, Executes
<1>6. CASE F!call(t)
  <2>1. Statement("call")
    BY <1>6 DEF F!call, F!About, F!Statement
  <2> QED
    BY <1>6, <2>1, ForOneThread DEF F!call, F!future, Executes
<1>7. CASE F!destroy(t)
  <2>1. Statement("destroy")
    BY <1>7 DEF F!destroy, F!About, F!Statement
  <2> QED
    BY <1>7, <2>1, ForOneThread DEF F!destroy, F!future, F!ready, Executes
<1>8. CASE F!get(t)
  <2>1. Statement("get")
    BY <1>8 DEF F!get, F!About, F!Statement
  <2> QED
    BY <1>8, <2>1, ForOneThread DEF F!get, F!future, F!ready, Executes
<1>9. CASE F!get_shared(t)
  <2>1. Statement("get_shared")
    BY <1>9 DEF F!get_shared, F!About, F!Statement
  <2> QED
    BY <1>9, <2>1, ForOneThread DEF F!get_shared, F!future, F!ready, Executes
<1>10. CASE F!wait(t)
  <2>1. Statement("wait")
    BY <1>10 DEF F!wait, F!About, F!Statement
  <2> QED
    BY <1>10, <2>1, ForOneThread DEF F!wait, F!future, F!ready, Executes
<1>11. CASE F!wait_for(t)
  <2>1. Statement("wait_for")
    BY <1>11 DEF F!wait_for, F!About, F!Statement
  <2> QED
    BY <1>11, <2>1, ForOneThread DEF F!wait_for, F!future, F!ready, Executes
<1>12. CASE F!push(t)
  <2>1. Statement("push")
    BY <1>12 DEF F!push, F!About, F!Statement
  <2> QED
    BY <1>12, <2>1, ForOneThread DEF F!push, F!future, Executes
<1>13. CASE F!sum(t)
  <2>1. Statement("sum")
    BY <1>13 DEF F!sum, F!About, F!Statement
  <2> QED
    BY <1>13, <2>1, ForOneThread DEF F!sum, F!future, Executes
<1> QED
  BY <1>1, <1>2, <1>3, <1>4, <1>5, <1>6, <1>7, <1>8, <1>9, <1>10, <1>11, <1>12, <1>13
     DEF F!Step

\* A step of a thread leaves the statements and the results of the others alone.
LEMMA StepTypes ==
  ASSUME NEW t \in F!Threads, F!Step(t), ProgramTypeOK
  PROVE  ProgramTypeOK'
<1>1. \/ at' = at \/ at' = [at EXCEPT ![t] = @ + 1]
  BY DEF F!Step, F!start, F!join, F!set, F!call, F!destroy, F!get, F!get_takes, F!get_resets,
     F!get_shared, F!wait, F!wait_for, F!push, F!sum, F!Done, F!Throw, F!Gets
<1>2. \/ got' = got \/ \E what : got' = [got EXCEPT ![t] = Append(@, what)]
  BY DEF F!Step, F!start, F!join, F!set, F!call, F!destroy, F!get, F!get_takes, F!get_resets,
     F!get_shared, F!wait, F!wait_for, F!push, F!sum, F!Done, F!Throw, F!Gets
<1>3. \/ inside' = inside \/ \E how : inside' = [inside EXCEPT ![t] = how]
  BY DEF F!Step, F!start, F!join, F!set, F!call, F!destroy, F!get, F!get_takes, F!get_resets,
     F!get_shared, F!wait, F!wait_for, F!push, F!sum, F!future
<1> QED
  BY <1>1, <1>2, <1>3 DEF ProgramTypeOK

\* What is appended to a list of none, or of one.
LEMMA Appended ==
  \A x, y : <<x>> = Append(<<>>, x) /\ <<x, y>> = Append(<<x>>, y)
OBVIOUS

-------------------------------------------------------------------------
(* promise_future_basic.cpp.                                               *)

\* What main() and t1 have got follows from how far they have come.
BasicInv ==
  /\ at["main"] \in 1 .. 5 /\ at["t1"] \in 1 .. 4
  /\ inside["t1"] = "no" /\ inside["t2"] = "no" /\ terminated = "none"
  /\ inside["main"] \in {"no", "take", "reset"}
  /\ inside["main"] # "no" => at["main"] = 2 /\ at["t1"] # 1
  /\ result = IF at["t1"] = 1 THEN "none" ELSE "value"
  /\ valid <=> at["main"] <= 2
  /\ moved => inside["main"] = "reset" \/ at["main"] > 2
  /\ got["main"] = IF at["main"] <= 2 /\ inside["main"] # "reset" THEN <<>>
                   ELSE IF at["main"] <= 3 THEN <<"value">> ELSE <<"value", "no_state">>
  /\ got["t1"] = IF at["t1"] <= 2 THEN <<>> ELSE <<"satisfied">>
  /\ got["t2"] = <<>>
  /\ at["main"] = 5 => at["t1"] = 4

\* The statements of the program.
LEMMA BasicScript ==
  ASSUME program = F!promise_future_basic, NEW t \in F!Threads, at[t] \in Nat \ {0}, ~F!Ended(t)
  PROVE  \/ t = "main" /\ at[t] = 1 /\ F!Statement(t) = <<"start", "t1">>
         \/ t = "main" /\ at[t] = 2 /\ F!Statement(t) = <<"get", {}>>
         \/ t = "main" /\ at[t] = 3 /\ F!Statement(t) = <<"get", F!future_error>>
         \/ t = "main" /\ at[t] = 4 /\ F!Statement(t) = <<"join", "t1">>
         \/ t = "t1" /\ at[t] = 1 /\ F!Statement(t) = <<"set", "value", {}>>
         \/ t = "t1" /\ at[t] = 2 /\ F!Statement(t) = <<"set", "43", F!future_error>>
         \/ t = "t1" /\ at[t] = 3 /\ F!Statement(t) = <<"destroy">>
<1>1. CASE t = "main"
  <2>1. program[t] = << <<"start", "t1">>, <<"get", {}>>, <<"get", F!future_error>>,
                        <<"join", "t1">> >>
    BY <1>1 DEF F!promise_future_basic
  <2>2. at[t] \in 1 .. 4
    BY <2>1 DEF F!Ended
  <2> QED
    BY <1>1, <2>1, <2>2 DEF F!Statement
<1>2. CASE t = "t1"
  <2>1. program[t] = << <<"set", "value", {}>>, <<"set", "43", F!future_error>>, <<"destroy">> >>
    BY <1>2 DEF F!promise_future_basic
  <2>2. at[t] \in 1 .. 3
    BY <2>1 DEF F!Ended
  <2> QED
    BY <1>2, <2>1, <2>2 DEF F!Statement
<1>3. CASE t = "t2"
  <2>1. program[t] = <<>>
    BY <1>3 DEF F!promise_future_basic
  <2> QED
    BY <2>1 DEF F!Ended
<1> QED
  BY <1>1, <1>2, <1>3 DEF F!Threads

\* Only the first value counts, the second get() finds no state, and all is caught.
LEMMA BasicStep ==
  ASSUME program = F!promise_future_basic, ProgramTypeOK, BasicInv, NEW t \in F!Threads, F!Step(t)
  PROVE  BasicInv'
<1>1. /\ "main" \in F!Threads /\ "t1" \in F!Threads /\ "t2" \in F!Threads
      /\ \A u \in F!Threads : at[u] \in Nat \ {0}
  BY DEF F!Threads, ProgramTypeOK
<1>2. terminated = "none"
  BY StepIs
<1>3. CASE Takes(t)
  <2>1. t = "main"
    BY <1>3 DEF Takes, BasicInv, F!Threads
  <2> QED
    BY <1>1, <1>3, <2>1, Appended DEF Takes, Passes, Receives, BasicInv
<1>4. CASE Resets(t)
  <2>1. t = "main"
    BY <1>4 DEF Resets, BasicInv, F!Threads
  <2> QED
    BY <1>1, <1>4, <2>1 DEF Resets, Passes, Advances, BasicInv
<1>5. CASE inside[t] = "no" /\ ~F!Ended(t) /\ Executes(t, F!Statement(t))
  <2>1. CASE t = "main" /\ at[t] = 1 /\ F!Statement(t) = <<"start", "t1">>
    <3>0. t = "main" /\ at["main"] = 1
      BY <2>1
    <3>1. Advances(t) /\ UNCHANGED <<result, valid, moved, inside, got, terminated>>
      BY <1>5, <2>1 DEF Executes
    <3> QED
      BY <1>1, <3>0, <3>1 DEF Advances, BasicInv
  <2>2. CASE t = "main" /\ at[t] = 2 /\ F!Statement(t) = <<"get", {}>>
    <3>0. t = "main" /\ at["main"] = 2
      BY <2>2
    <3>1. valid /\ result \notin F!runtime_error \cup F!future_error
      BY <2>2 DEF BasicInv, F!runtime_error, F!future_error
    <3>2. F!Statement(t)[1] = "get"
      BY <2>2
    <3>3. /\ result # "none" /\ Passes(t, "take")
          /\ UNCHANGED <<at, result, valid, moved, got, terminated>>
      BY <1>5, <3>1, <3>2 DEF Executes
    <3>4. at["t1"] # 1 /\ at["main"] = 2
      BY <2>2, <3>3 DEF BasicInv
    <3> QED
      BY <1>1, <1>5, <3>0, <3>3, <3>4 DEF Passes, BasicInv
  <2>3. CASE t = "main" /\ at[t] = 3 /\ F!Statement(t) = <<"get", F!future_error>>
    <3>0. t = "main" /\ at["main"] = 3
      BY <2>3
    <3>1. ~valid
      BY <2>3 DEF BasicInv
    <3>2. UNCHANGED <<result, valid, moved, inside>> /\ F!Throw(t, "no_state", F!future_error)
      BY <1>5, <2>3, <3>1 DEF Executes
    <3>3. "no_state" \in F!future_error
      BY DEF F!future_error
    <3>4. Receives(t, "no_state") /\ Advances(t) /\ terminated' = terminated
      BY <3>2, <3>3, Thrown
    <3>5. got["main"] = <<"value">>
      BY <3>0 DEF BasicInv
    <3>6. got'["main"] = <<"value", "no_state">>
      <4>1. got'["main"] = Append(got["main"], "no_state")
        BY <3>0, <3>4 DEF Receives
      <4> QED
        BY <3>5, <4>1, Appended
    <3> QED
      BY <1>1, <3>0, <3>2, <3>4, <3>6 DEF Advances, Receives, BasicInv
  <2>4. CASE t = "main" /\ at[t] = 4 /\ F!Statement(t) = <<"join", "t1">>
    <3>0. t = "main" /\ at["main"] = 4
      BY <2>4
    <3>1. /\ F!Ended("t1") /\ Advances(t)
          /\ UNCHANGED <<result, valid, moved, inside, got, terminated>>
      BY <1>5, <2>4 DEF Executes
    <3>2. at["t1"] > 3
      BY <3>1 DEF F!Ended, F!promise_future_basic
    <3>3. at["t1"] = 4 /\ inside["main"] = "no" /\ ~valid
      BY <3>0, <3>2 DEF BasicInv
    <3>4. at'["main"] = 5 /\ at'["t1"] = 4
      BY <1>1, <3>0, <3>1, <3>3 DEF Advances
    <3>5. /\ result = "value" /\ got["main"] = <<"value", "no_state">> /\ got["t1"] = <<"satisfied">>
          /\ got["t2"] = <<>> /\ inside["t1"] = "no" /\ inside["t2"] = "no" /\ terminated = "none"
      BY <3>0, <3>3 DEF BasicInv
    <3> QED
      BY <3>1, <3>3, <3>4, <3>5 DEF BasicInv
  <2>5. CASE t = "t1" /\ at[t] = 1 /\ F!Statement(t) = <<"set", "value", {}>>
    <3>0. t = "t1" /\ at["t1"] = 1
      BY <2>5
    <3>1. result = "none"
      BY <2>5 DEF BasicInv
    <3>2. /\ result' = "value" /\ Advances(t)
          /\ UNCHANGED <<valid, moved, inside, got, terminated>>
      BY <1>5, <2>5, <3>1 DEF Executes
    <3> QED
      BY <1>1, <3>0, <3>2 DEF Advances, BasicInv
  <2>6. CASE t = "t1" /\ at[t] = 2 /\ F!Statement(t) = <<"set", "43", F!future_error>>
    <3>0. t = "t1" /\ at["t1"] = 2
      BY <2>6
    <3>1. result = "value"
      BY <2>6 DEF BasicInv
    <3>2. UNCHANGED <<result, valid, moved, inside>> /\ F!Throw(t, "satisfied", F!future_error)
      BY <1>5, <2>6, <3>1 DEF Executes
    <3>3. "satisfied" \in F!future_error
      BY DEF F!future_error
    <3>4. Receives(t, "satisfied") /\ Advances(t) /\ terminated' = terminated
      BY <3>2, <3>3, Thrown
    <3>5. got["t1"] = <<>>
      BY <3>0 DEF BasicInv
    <3>6. got'["t1"] = <<"satisfied">>
      BY <3>0, <3>4, <3>5, Appended DEF Receives
    <3> QED
      BY <1>1, <3>0, <3>1, <3>2, <3>4, <3>6 DEF Advances, Receives, BasicInv
  <2>7. CASE t = "t1" /\ at[t] = 3 /\ F!Statement(t) = <<"destroy">>
    <3>0. t = "t1" /\ at["t1"] = 3
      BY <2>7
    <3>1. Advances(t) /\ UNCHANGED <<result, valid, moved, inside, got, terminated>>
      BY <1>5, <2>7 DEF Executes, BasicInv
    <3> QED
      BY <1>1, <3>0, <3>1 DEF Advances, BasicInv
  <2> QED
    BY <1>1, <1>5, <2>1, <2>2, <2>3, <2>4, <2>5, <2>6, <2>7, BasicScript
<1> QED
  BY <1>3, <1>4, <1>5, StepIs

-------------------------------------------------------------------------
(* set_exception.cpp.                                                      *)

\* The exception is in the promise once t1 has set it, and main() gets it.
ExceptionInv ==
  /\ at["main"] \in 1 .. 4 /\ at["t1"] \in 1 .. 3
  /\ inside["main"] = "no" /\ inside["t1"] = "no" /\ inside["t2"] = "no"
  /\ terminated = "none"
  /\ result = IF at["t1"] = 1 THEN "none" ELSE "exception"
  /\ valid <=> at["main"] <= 2
  /\ got["main"] = IF at["main"] <= 2 THEN <<>> ELSE <<"exception">>
  /\ got["t1"] = <<>> /\ got["t2"] = <<>>

\* The statements of the program.
LEMMA ExceptionScript ==
  ASSUME program = F!set_exception, NEW t \in F!Threads, at[t] \in Nat \ {0}, ~F!Ended(t)
  PROVE  \/ t = "main" /\ at[t] = 1 /\ F!Statement(t) = <<"start", "t1">>
         \/ t = "main" /\ at[t] = 2 /\ F!Statement(t) = <<"get", F!runtime_error>>
         \/ t = "main" /\ at[t] = 3 /\ F!Statement(t) = <<"join", "t1">>
         \/ t = "t1" /\ at[t] = 1 /\ F!Statement(t) = <<"set", "exception", {}>>
         \/ t = "t1" /\ at[t] = 2 /\ F!Statement(t) = <<"destroy">>
<1>1. CASE t = "main"
  <2>1. program[t] = << <<"start", "t1">>, <<"get", F!runtime_error>>, <<"join", "t1">> >>
    BY <1>1 DEF F!set_exception
  <2>2. at[t] \in 1 .. 3
    BY <2>1 DEF F!Ended
  <2> QED
    BY <1>1, <2>1, <2>2 DEF F!Statement
<1>2. CASE t = "t1"
  <2>1. program[t] = << <<"set", "exception", {}>>, <<"destroy">> >>
    BY <1>2 DEF F!set_exception
  <2>2. at[t] \in 1 .. 2
    BY <2>1 DEF F!Ended
  <2> QED
    BY <1>2, <2>1, <2>2 DEF F!Statement
<1>3. CASE t = "t2"
  <2>1. program[t] = <<>>
    BY <1>3 DEF F!set_exception
  <2> QED
    BY <2>1 DEF F!Ended
<1> QED
  BY <1>1, <1>2, <1>3 DEF F!Threads

\* The exception of the other thread is thrown in main(), which catches it.
LEMMA ExceptionStep ==
  ASSUME program = F!set_exception, ProgramTypeOK, ExceptionInv, NEW t \in F!Threads, F!Step(t)
  PROVE  ExceptionInv'
<1>1. /\ "main" \in F!Threads /\ "t1" \in F!Threads /\ "t2" \in F!Threads
      /\ \A u \in F!Threads : at[u] \in Nat \ {0}
  BY DEF F!Threads, ProgramTypeOK
<1>2. terminated = "none"
  BY StepIs
<1>3. CASE inside[t] = "no" /\ ~F!Ended(t) /\ Executes(t, F!Statement(t))
  <2>1. CASE t = "main" /\ at[t] = 1 /\ F!Statement(t) = <<"start", "t1">>
    <3>1. t = "main" /\ at["main"] = 1
      BY <2>1
    <3>2. Advances(t) /\ UNCHANGED <<result, valid, moved, inside, vector, got, terminated>>
      BY <1>3, <2>1 DEF Executes
    <3> QED
      BY <1>1, <1>2, <3>1, <3>2 DEF Advances, ExceptionInv
  <2>2. CASE t = "main" /\ at[t] = 2 /\ F!Statement(t) = <<"get", F!runtime_error>>
    <3>1. t = "main" /\ at["main"] = 2
      BY <2>2
    <3>2. /\ valid /\ result \in {"none", "exception"}
          /\ "none" \notin F!runtime_error \cup F!future_error
          /\ "exception" \in F!runtime_error /\ "exception" \in F!runtime_error \cup F!future_error
      BY <3>1 DEF ExceptionInv, F!runtime_error, F!future_error
    <3>3. F!Statement(t)[1] = "get" /\ F!Statement(t)[2] = F!runtime_error
      BY <2>2
    <3>4. /\ result = "exception" /\ F!Throw(t, result, F!runtime_error) /\ valid' = FALSE
          /\ UNCHANGED <<result, inside>>
      BY <1>3, <3>2, <3>3 DEF Executes
    <3>5. Receives(t, "exception") /\ Advances(t) /\ terminated' = terminated
      BY <3>2, <3>4, Thrown
    <3>6. got["main"] = <<>>
      BY <3>1 DEF ExceptionInv
    <3>7. got'["main"] = <<"exception">>
      BY <3>1, <3>5, <3>6, Appended DEF Receives
    <3> QED
      BY <1>1, <1>2, <3>1, <3>4, <3>5, <3>7 DEF Advances, Receives, ExceptionInv
  <2>3. CASE t = "main" /\ at[t] = 3 /\ F!Statement(t) = <<"join", "t1">>
    <3>1. t = "main" /\ at["main"] = 3
      BY <2>3
    <3>2. Advances(t) /\ UNCHANGED <<result, valid, moved, inside, vector, got, terminated>>
      BY <1>3, <2>3 DEF Executes
    <3> QED
      BY <1>1, <1>2, <3>1, <3>2 DEF Advances, ExceptionInv
  <2>4. CASE t = "t1" /\ at[t] = 1 /\ F!Statement(t) = <<"set", "exception", {}>>
    <3>1. t = "t1" /\ at["t1"] = 1
      BY <2>4
    <3>2. result = "none"
      BY <3>1 DEF ExceptionInv
    <3>3. /\ result' = "exception" /\ Advances(t)
          /\ UNCHANGED <<valid, moved, inside, vector, got, terminated>>
      BY <1>3, <2>4, <3>2 DEF Executes
    <3> QED
      BY <1>1, <1>2, <3>1, <3>3 DEF Advances, ExceptionInv
  <2>5. CASE t = "t1" /\ at[t] = 2 /\ F!Statement(t) = <<"destroy">>
    <3>1. t = "t1" /\ at["t1"] = 2
      BY <2>5
    <3>2. Advances(t) /\ UNCHANGED <<result, valid, moved, inside, vector, got, terminated>>
      BY <1>3, <2>5, <3>1 DEF Executes, ExceptionInv
    <3> QED
      BY <1>1, <1>2, <3>1, <3>2 DEF Advances, ExceptionInv
  <2> QED
    BY <1>1, <1>3, <2>1, <2>2, <2>3, <2>4, <2>5, ExceptionScript
<1>4. CASE Takes(t)
  BY <1>4 DEF Takes, ExceptionInv, F!Threads
<1>5. CASE Resets(t)
  BY <1>5 DEF Resets, ExceptionInv, F!Threads
<1> QED
  BY <1>3, <1>4, <1>5, StepIs

-------------------------------------------------------------------------
(* shared_future.cpp.                                                      *)

\* The value stays where it is for the second reader.
SharedInv ==
  /\ at["main"] \in 1 .. 7 /\ at["t1"] \in 1 .. 2 /\ at["t2"] \in 1 .. 2
  /\ inside["main"] = "no" /\ inside["t1"] = "no" /\ inside["t2"] = "no"
  /\ terminated = "none"
  /\ result = IF at["main"] <= 3 THEN "none" ELSE "value"
  /\ got["main"] = <<>>
  /\ got["t1"] = IF at["t1"] = 1 THEN <<>> ELSE <<"value">>
  /\ got["t2"] = IF at["t2"] = 1 THEN <<>> ELSE <<"value">>
  /\ at["main"] >= 5 => at["t2"] = 2
  /\ at["main"] >= 6 => at["t1"] = 2

\* The statements of the program.
LEMMA SharedScript ==
  ASSUME program = F!shared_future, NEW t \in F!Threads, at[t] \in Nat \ {0}, ~F!Ended(t)
  PROVE  \/ t = "main" /\ at[t] = 1 /\ F!Statement(t) = <<"start", "t1">>
         \/ t = "main" /\ at[t] = 2 /\ F!Statement(t) = <<"start", "t2">>
         \/ t = "main" /\ at[t] = 3 /\ F!Statement(t) = <<"set", "value", {}>>
         \/ t = "main" /\ at[t] = 4 /\ F!Statement(t) = <<"join", "t2">>
         \/ t = "main" /\ at[t] = 5 /\ F!Statement(t) = <<"join", "t1">>
         \/ t = "main" /\ at[t] = 6 /\ F!Statement(t) = <<"destroy">>
         \/ t = "t1" /\ at[t] = 1 /\ F!Statement(t) = <<"get_shared", {}>>
         \/ t = "t2" /\ at[t] = 1 /\ F!Statement(t) = <<"get_shared", {}>>
<1>1. CASE t = "main"
  <2>1. program[t] = << <<"start", "t1">>, <<"start", "t2">>, <<"set", "value", {}>>,
                        <<"join", "t2">>, <<"join", "t1">>, <<"destroy">> >>
    BY <1>1 DEF F!shared_future
  <2>2. at[t] \in 1 .. 6
    BY <2>1 DEF F!Ended
  <2> QED
    BY <1>1, <2>1, <2>2 DEF F!Statement
<1>2. CASE t = "t1"
  <2>1. program[t] = << <<"get_shared", {}>> >>
    BY <1>2 DEF F!shared_future
  <2>2. at[t] \in 1 .. 1
    BY <2>1 DEF F!Ended
  <2> QED
    BY <1>2, <2>1, <2>2 DEF F!Statement
<1>3. CASE t = "t2"
  <2>1. program[t] = << <<"get_shared", {}>> >>
    BY <1>3 DEF F!shared_future
  <2>2. at[t] \in 1 .. 1
    BY <2>1 DEF F!Ended
  <2> QED
    BY <1>3, <2>1, <2>2 DEF F!Statement
<1> QED
  BY <1>1, <1>2, <1>3 DEF F!Threads

\* Both threads get the value, which stays where it is.
LEMMA SharedStep ==
  ASSUME program = F!shared_future, ProgramTypeOK, SharedInv, NEW t \in F!Threads, F!Step(t)
  PROVE  SharedInv'
<1>1. /\ "main" \in F!Threads /\ "t1" \in F!Threads /\ "t2" \in F!Threads
      /\ \A u \in F!Threads : at[u] \in Nat \ {0}
  BY DEF F!Threads, ProgramTypeOK
<1>2. terminated = "none"
  BY StepIs
<1>3. CASE inside[t] = "no" /\ ~F!Ended(t) /\ Executes(t, F!Statement(t))
  <2>1. CASE t = "main" /\ at[t] = 1 /\ F!Statement(t) = <<"start", "t1">>
    <3>1. t = "main" /\ at["main"] = 1
      BY <2>1
    <3>2. Advances(t) /\ UNCHANGED <<result, valid, moved, inside, vector, got, terminated>>
      BY <1>3, <2>1 DEF Executes
    <3> QED
      BY <1>1, <1>2, <3>1, <3>2 DEF Advances, SharedInv
  <2>2. CASE t = "main" /\ at[t] = 2 /\ F!Statement(t) = <<"start", "t2">>
    <3>1. t = "main" /\ at["main"] = 2
      BY <2>2
    <3>2. Advances(t) /\ UNCHANGED <<result, valid, moved, inside, vector, got, terminated>>
      BY <1>3, <2>2 DEF Executes
    <3> QED
      BY <1>1, <1>2, <3>1, <3>2 DEF Advances, SharedInv
  <2>3. CASE t = "main" /\ at[t] = 3 /\ F!Statement(t) = <<"set", "value", {}>>
    <3>1. t = "main" /\ at["main"] = 3
      BY <2>3
    <3>2. result = "none"
      BY <3>1 DEF SharedInv
    <3>3. /\ result' = "value" /\ Advances(t)
          /\ UNCHANGED <<valid, moved, inside, vector, got, terminated>>
      BY <1>3, <2>3, <3>2 DEF Executes
    <3> QED
      BY <1>1, <1>2, <3>1, <3>3 DEF Advances, SharedInv
  <2>4. CASE t = "main" /\ at[t] = 4 /\ F!Statement(t) = <<"join", "t2">>
    <3>1. t = "main" /\ at["main"] = 4
      BY <2>4
    <3>2. /\ F!Ended("t2") /\ Advances(t)
          /\ UNCHANGED <<result, valid, moved, inside, vector, got, terminated>>
      BY <1>3, <2>4 DEF Executes
    <3>3. at["t2"] > 1
      BY <3>2 DEF F!Ended, F!shared_future
    <3> QED
      BY <1>1, <1>2, <3>1, <3>2, <3>3 DEF Advances, SharedInv
  <2>5. CASE t = "main" /\ at[t] = 5 /\ F!Statement(t) = <<"join", "t1">>
    <3>1. t = "main" /\ at["main"] = 5
      BY <2>5
    <3>2. /\ F!Ended("t1") /\ Advances(t)
          /\ UNCHANGED <<result, valid, moved, inside, vector, got, terminated>>
      BY <1>3, <2>5 DEF Executes
    <3>3. at["t1"] > 1
      BY <3>2 DEF F!Ended, F!shared_future
    <3> QED
      BY <1>1, <1>2, <3>1, <3>2, <3>3 DEF Advances, SharedInv
  <2>6. CASE t = "main" /\ at[t] = 6 /\ F!Statement(t) = <<"destroy">>
    <3>1. t = "main" /\ at["main"] = 6
      BY <2>6
    <3>2. Advances(t) /\ UNCHANGED <<result, valid, moved, inside, vector, got, terminated>>
      BY <1>3, <2>6, <3>1 DEF Executes, SharedInv
    <3> QED
      BY <1>1, <1>2, <3>1, <3>2 DEF Advances, SharedInv
  <2>7. CASE t = "t1" /\ at[t] = 1 /\ F!Statement(t) = <<"get_shared", {}>>
    <3>1. t = "t1" /\ at["t1"] = 1
      BY <2>7
    <3>2. result # "none" /\ Receives(t, result) /\ Advances(t)
          /\ UNCHANGED <<result, inside, terminated>>
      BY <1>3, <2>7 DEF Executes
    <3>3. result = "value" /\ got["t1"] = <<>>
      BY <3>1, <3>2 DEF SharedInv
    <3>4. got'["t1"] = <<"value">>
      BY <3>1, <3>2, <3>3, Appended DEF Receives
    <3> QED
      BY <1>1, <1>2, <3>1, <3>2, <3>4 DEF Advances, Receives, SharedInv
  <2>8. CASE t = "t2" /\ at[t] = 1 /\ F!Statement(t) = <<"get_shared", {}>>
    <3>1. t = "t2" /\ at["t2"] = 1
      BY <2>8
    <3>2. result # "none" /\ Receives(t, result) /\ Advances(t)
          /\ UNCHANGED <<result, inside, terminated>>
      BY <1>3, <2>8 DEF Executes
    <3>3. result = "value" /\ got["t2"] = <<>>
      BY <3>1, <3>2 DEF SharedInv
    <3>4. got'["t2"] = <<"value">>
      BY <3>1, <3>2, <3>3, Appended DEF Receives
    <3> QED
      BY <1>1, <1>2, <3>1, <3>2, <3>4 DEF Advances, Receives, SharedInv
  <2> QED
    BY <1>1, <1>3, <2>1, <2>2, <2>3, <2>4, <2>5, <2>6, <2>7, <2>8, SharedScript
<1>4. CASE Takes(t)
  BY <1>4 DEF Takes, SharedInv, F!Threads
<1>5. CASE Resets(t)
  BY <1>5 DEF Resets, SharedInv, F!Threads
<1> QED
  BY <1>3, <1>4, <1>5, StepIs

-------------------------------------------------------------------------
(* async.cpp.                                                              *)

\* The value is in the shared state once the thread has ended.
AsyncInv ==
  /\ at["main"] \in 1 .. 4 /\ at["t1"] \in 1 .. 2
  /\ inside["t1"] = "no" /\ inside["t2"] = "no" /\ terminated = "none"
  /\ inside["main"] \in {"no", "take", "reset"}
  /\ inside["main"] # "no" => at["main"] = 2 /\ at["t1"] # 1
  /\ result = IF at["t1"] = 1 THEN "none" ELSE "value"
  /\ valid <=> at["main"] <= 2
  /\ moved => inside["main"] = "reset" \/ at["main"] > 2
  /\ got["main"] = IF at["main"] <= 2 /\ inside["main"] # "reset" THEN <<>> ELSE <<"value">>
  /\ got["t1"] = <<>> /\ got["t2"] = <<>>

\* The statements of the program.
LEMMA AsyncScript ==
  ASSUME program = F!async, NEW t \in F!Threads, at[t] \in Nat \ {0}, ~F!Ended(t)
  PROVE  \/ t = "main" /\ at[t] = 1 /\ F!Statement(t) = <<"start", "t1">>
         \/ t = "main" /\ at[t] = 2 /\ F!Statement(t) = <<"get", {}>>
         \/ t = "main" /\ at[t] = 3 /\ F!Statement(t) = <<"join", "t1">>
         \/ t = "t1" /\ at[t] = 1 /\ F!Statement(t) = <<"set", "value", {}>>
<1>1. CASE t = "main"
  <2>1. program[t] = << <<"start", "t1">>, <<"get", {}>>, <<"join", "t1">> >>
    BY <1>1 DEF F!async
  <2>2. at[t] \in 1 .. 3
    BY <2>1 DEF F!Ended
  <2> QED
    BY <1>1, <2>1, <2>2 DEF F!Statement
<1>2. CASE t = "t1"
  <2>1. program[t] = << <<"set", "value", {}>> >>
    BY <1>2 DEF F!async
  <2>2. at[t] = 1
    BY <2>1 DEF F!Ended
  <2> QED
    BY <1>2, <2>1, <2>2 DEF F!Statement
<1>3. CASE t = "t2"
  <2>1. program[t] = <<>>
    BY <1>3 DEF F!async
  <2> QED
    BY <2>1 DEF F!Ended
<1> QED
  BY <1>1, <1>2, <1>3 DEF F!Threads

\* main() gets the value of the thread.
LEMMA AsyncStep ==
  ASSUME program = F!async, ProgramTypeOK, AsyncInv, NEW t \in F!Threads, F!Step(t)
  PROVE  AsyncInv'
<1>1. /\ "main" \in F!Threads /\ "t1" \in F!Threads /\ "t2" \in F!Threads
      /\ \A u \in F!Threads : at[u] \in Nat \ {0}
  BY DEF F!Threads, ProgramTypeOK
<1>2. terminated = "none"
  BY StepIs
<1>3. CASE inside[t] = "no" /\ ~F!Ended(t) /\ Executes(t, F!Statement(t))
  <2>1. CASE t = "main" /\ at[t] = 1 /\ F!Statement(t) = <<"start", "t1">>
    <3>1. t = "main" /\ at["main"] = 1
      BY <2>1
    <3>2. Advances(t) /\ UNCHANGED <<result, valid, moved, inside, vector, got, terminated>>
      BY <1>3, <2>1 DEF Executes
    <3> QED
      BY <1>1, <1>2, <3>1, <3>2 DEF Advances, AsyncInv
  <2>2. CASE t = "main" /\ at[t] = 2 /\ F!Statement(t) = <<"get", {}>>
    <3>1. t = "main" /\ at["main"] = 2
      BY <2>2
    <3>2. valid /\ result \notin F!runtime_error \cup F!future_error
      BY <1>3, <3>1 DEF AsyncInv, F!runtime_error, F!future_error
    <3>3. F!Statement(t)[1] = "get"
      BY <2>2
    <3>4. /\ result # "none" /\ Passes(t, "take")
          /\ UNCHANGED <<at, result, valid, moved, vector, got, terminated>>
      BY <1>3, <3>2, <3>3 DEF Executes
    <3> QED
      BY <1>1, <1>2, <1>3, <3>1, <3>4 DEF Passes, AsyncInv
  <2>3. CASE t = "main" /\ at[t] = 3 /\ F!Statement(t) = <<"join", "t1">>
    <3>1. t = "main" /\ at["main"] = 3
      BY <2>3
    <3>2. Advances(t) /\ UNCHANGED <<result, valid, moved, inside, vector, got, terminated>>
      BY <1>3, <2>3 DEF Executes
    <3> QED
      BY <1>1, <1>2, <3>1, <3>2 DEF Advances, AsyncInv
  <2>4. CASE t = "t1" /\ at[t] = 1 /\ F!Statement(t) = <<"set", "value", {}>>
    <3>1. t = "t1" /\ at["t1"] = 1
      BY <2>4
    <3>2. result = "none"
      BY <3>1 DEF AsyncInv
    <3>3. /\ result' = "value" /\ Advances(t)
          /\ UNCHANGED <<valid, moved, inside, vector, got, terminated>>
      BY <1>3, <2>4, <3>2 DEF Executes
    <3> QED
      BY <1>1, <1>2, <3>1, <3>3 DEF Advances, AsyncInv
  <2> QED
    BY <1>1, <1>3, <2>1, <2>2, <2>3, <2>4, AsyncScript
<1>4. CASE Takes(t)
  <2>1. t = "main"
    BY <1>4 DEF Takes, AsyncInv, F!Threads
  <2>2. result = "value"
    BY <1>4, <2>1 DEF Takes, AsyncInv
  <2> QED
    BY <1>1, <1>4, <2>1, <2>2, Appended DEF Takes, Passes, Receives, AsyncInv
<1>5. CASE Resets(t)
  <2>1. t = "main"
    BY <1>5 DEF Resets, AsyncInv, F!Threads
  <2> QED
    BY <1>1, <1>5, <2>1 DEF Resets, Passes, Advances, AsyncInv
<1> QED
  BY <1>3, <1>4, <1>5, StepIs

-------------------------------------------------------------------------
(* wait_for.cpp.                                                           *)

\* The loop is left only when the value is there.
WaitForInv ==
  /\ at["main"] \in 1 .. 5 /\ at["t1"] \in 1 .. 3
  /\ inside["t1"] = "no" /\ inside["t2"] = "no" /\ terminated = "none"
  /\ inside["main"] \in {"no", "take", "reset"}
  /\ inside["main"] # "no" => at["main"] = 3
  /\ result = IF at["t1"] = 1 THEN "none" ELSE "value"
  /\ at["main"] >= 3 => at["t1"] # 1
  /\ valid <=> at["main"] <= 3
  /\ moved => inside["main"] = "reset" \/ at["main"] > 3
  /\ got["main"] = IF at["main"] <= 3 /\ inside["main"] # "reset" THEN <<>> ELSE <<"value">>
  /\ got["t1"] = <<>> /\ got["t2"] = <<>>

\* The statements of the program.
LEMMA WaitForScript ==
  ASSUME program = F!wait_for_cpp, NEW t \in F!Threads, at[t] \in Nat \ {0}, ~F!Ended(t)
  PROVE  \/ t = "main" /\ at[t] = 1 /\ F!Statement(t) = <<"start", "t1">>
         \/ t = "main" /\ at[t] = 2 /\ F!Statement(t) = <<"wait_for">>
         \/ t = "main" /\ at[t] = 3 /\ F!Statement(t) = <<"get", {}>>
         \/ t = "main" /\ at[t] = 4 /\ F!Statement(t) = <<"join", "t1">>
         \/ t = "t1" /\ at[t] = 1 /\ F!Statement(t) = <<"set", "value", {}>>
         \/ t = "t1" /\ at[t] = 2 /\ F!Statement(t) = <<"destroy">>
<1>1. CASE t = "main"
  <2>1. program[t] = << <<"start", "t1">>, <<"wait_for">>, <<"get", {}>>, <<"join", "t1">> >>
    BY <1>1 DEF F!wait_for_cpp
  <2>2. at[t] \in 1 .. 4
    BY <2>1 DEF F!Ended
  <2> QED
    BY <1>1, <2>1, <2>2 DEF F!Statement
<1>2. CASE t = "t1"
  <2>1. program[t] = << <<"set", "value", {}>>, <<"destroy">> >>
    BY <1>2 DEF F!wait_for_cpp
  <2>2. at[t] \in 1 .. 2
    BY <2>1 DEF F!Ended
  <2> QED
    BY <1>2, <2>1, <2>2 DEF F!Statement
<1>3. CASE t = "t2"
  <2>1. program[t] = <<>>
    BY <1>3 DEF F!wait_for_cpp
  <2> QED
    BY <2>1 DEF F!Ended
<1> QED
  BY <1>1, <1>2, <1>3 DEF F!Threads

\* main() waits until the value is there, and gets it.
LEMMA WaitForStep ==
  ASSUME program = F!wait_for_cpp, ProgramTypeOK, WaitForInv, NEW t \in F!Threads, F!Step(t)
  PROVE  WaitForInv'
<1>1. /\ "main" \in F!Threads /\ "t1" \in F!Threads /\ "t2" \in F!Threads
      /\ \A u \in F!Threads : at[u] \in Nat \ {0}
  BY DEF F!Threads, ProgramTypeOK
<1>2. terminated = "none"
  BY StepIs
<1>3. CASE inside[t] = "no" /\ ~F!Ended(t) /\ Executes(t, F!Statement(t))
  <2>1. CASE t = "main" /\ at[t] = 1 /\ F!Statement(t) = <<"start", "t1">>
    <3>1. t = "main" /\ at["main"] = 1
      BY <2>1
    <3>2. Advances(t) /\ UNCHANGED <<result, valid, moved, inside, vector, got, terminated>>
      BY <1>3, <2>1 DEF Executes
    <3> QED
      BY <1>1, <1>2, <3>1, <3>2 DEF Advances, WaitForInv
  <2>2. CASE t = "main" /\ at[t] = 2 /\ F!Statement(t) = <<"wait_for">>
    <3>1. t = "main" /\ at["main"] = 2
      BY <2>2
    <3>2. UNCHANGED <<result, valid, moved, inside, got, terminated>>
      BY <1>3, <2>2 DEF Executes
    <3>3. at' = at \/ (result # "none" /\ Advances(t))
      BY <1>3, <2>2 DEF Executes
    <3>4. CASE at' = at
      BY <3>2, <3>4 DEF WaitForInv
    <3>5. CASE result # "none" /\ Advances(t)
      BY <1>1, <1>2, <3>1, <3>2, <3>5 DEF Advances, WaitForInv
    <3> QED
      BY <3>3, <3>4, <3>5
  <2>3. CASE t = "main" /\ at[t] = 3 /\ F!Statement(t) = <<"get", {}>>
    <3>1. t = "main" /\ at["main"] = 3
      BY <2>3
    <3>2. valid /\ result \notin F!runtime_error \cup F!future_error
      BY <3>1 DEF WaitForInv, F!runtime_error, F!future_error
    <3>3. F!Statement(t)[1] = "get"
      BY <2>3
    <3>4. /\ result # "none" /\ Passes(t, "take")
          /\ UNCHANGED <<at, result, valid, moved, vector, got, terminated>>
      BY <1>3, <3>2, <3>3 DEF Executes
    <3> QED
      BY <1>1, <1>2, <1>3, <3>1, <3>4 DEF Passes, WaitForInv
  <2>4. CASE t = "main" /\ at[t] = 4 /\ F!Statement(t) = <<"join", "t1">>
    <3>1. t = "main" /\ at["main"] = 4
      BY <2>4
    <3>2. Advances(t) /\ UNCHANGED <<result, valid, moved, inside, vector, got, terminated>>
      BY <1>3, <2>4 DEF Executes
    <3> QED
      BY <1>1, <1>2, <3>1, <3>2 DEF Advances, WaitForInv
  <2>5. CASE t = "t1" /\ at[t] = 1 /\ F!Statement(t) = <<"set", "value", {}>>
    <3>1. t = "t1" /\ at["t1"] = 1
      BY <2>5
    <3>2. result = "none"
      BY <3>1 DEF WaitForInv
    <3>3. /\ result' = "value" /\ Advances(t)
          /\ UNCHANGED <<valid, moved, inside, vector, got, terminated>>
      BY <1>3, <2>5, <3>2 DEF Executes
    <3> QED
      BY <1>1, <1>2, <3>1, <3>3 DEF Advances, WaitForInv
  <2>6. CASE t = "t1" /\ at[t] = 2 /\ F!Statement(t) = <<"destroy">>
    <3>1. t = "t1" /\ at["t1"] = 2
      BY <2>6
    <3>2. Advances(t) /\ UNCHANGED <<result, valid, moved, inside, vector, got, terminated>>
      BY <1>3, <2>6, <3>1 DEF Executes, WaitForInv
    <3> QED
      BY <1>1, <1>2, <3>1, <3>2 DEF Advances, WaitForInv
  <2> QED
    BY <1>1, <1>3, <2>1, <2>2, <2>3, <2>4, <2>5, <2>6, WaitForScript
<1>4. CASE Takes(t)
  <2>1. t = "main"
    BY <1>4 DEF Takes, WaitForInv, F!Threads
  <2> QED
    BY <1>1, <1>4, <2>1, Appended DEF Takes, Passes, Receives, WaitForInv
<1>5. CASE Resets(t)
  <2>1. t = "main"
    BY <1>5 DEF Resets, WaitForInv, F!Threads
  <2> QED
    BY <1>1, <1>5, <2>1 DEF Resets, Passes, Advances, WaitForInv
<1> QED
  BY <1>3, <1>4, <1>5, StepIs

-------------------------------------------------------------------------
(* packaged_task.cpp and the demo of async.cpp.                            *)

\* The value or the exception of the task, and nothing else, reaches main().
TaskInv ==
  /\ at["main"] \in 1 .. 4 /\ at["t1"] \in 1 .. 3
  /\ inside["t1"] = "no" /\ inside["t2"] = "no"
  /\ inside["main"] \in {"no", "take", "reset"}
  /\ inside["main"] # "no" => at["main"] = 2 /\ result = "value" /\ terminated = "none"
  /\ IF at["t1"] = 1 THEN result = "none" ELSE result \in {"value", "exception"}
  /\ at["main"] >= 3 => result = "value" /\ terminated = "none"
  /\ terminated \in {"none", "main"}
  /\ terminated = "main" => result = "exception" /\ got["main"] = <<"exception">>
  /\ terminated = "none" =>
       got["main"] = IF at["main"] <= 2 /\ inside["main"] # "reset" THEN <<>> ELSE <<"value">>
  /\ valid <=> at["main"] <= 2 /\ terminated = "none"
  /\ moved => inside["main"] = "reset" \/ at["main"] > 2
  /\ got["t1"] = <<>> /\ got["t2"] = <<>>

\* The statements of the program.
LEMMA TaskScript ==
  ASSUME program = F!packaged_task, NEW t \in F!Threads, at[t] \in Nat \ {0}, ~F!Ended(t)
  PROVE  \/ t = "main" /\ at[t] = 1 /\ F!Statement(t) = <<"start", "t1">>
         \/ t = "main" /\ at[t] = 2 /\ F!Statement(t) = <<"get", {}>>
         \/ t = "main" /\ at[t] = 3 /\ F!Statement(t) = <<"join", "t1">>
         \/ t = "t1" /\ at[t] = 1 /\ F!Statement(t) = <<"call">>
         \/ t = "t1" /\ at[t] = 2 /\ F!Statement(t) = <<"destroy">>
<1>1. CASE t = "main"
  <2>1. program[t] = << <<"start", "t1">>, <<"get", {}>>, <<"join", "t1">> >>
    BY <1>1 DEF F!packaged_task
  <2>2. at[t] \in 1 .. 3
    BY <2>1 DEF F!Ended
  <2> QED
    BY <1>1, <2>1, <2>2 DEF F!Statement
<1>2. CASE t = "t1"
  <2>1. program[t] = << <<"call">>, <<"destroy">> >>
    BY <1>2 DEF F!packaged_task
  <2>2. at[t] \in 1 .. 2
    BY <2>1 DEF F!Ended
  <2> QED
    BY <1>2, <2>1, <2>2 DEF F!Statement
<1>3. CASE t = "t2"
  <2>1. program[t] = <<>>
    BY <1>3 DEF F!packaged_task
  <2> QED
    BY <2>1 DEF F!Ended
<1> QED
  BY <1>1, <1>2, <1>3 DEF F!Threads

\* What the function gives, or throws, comes to main().
LEMMA TaskStep ==
  ASSUME program = F!packaged_task, ProgramTypeOK, TaskInv, NEW t \in F!Threads, F!Step(t)
  PROVE  TaskInv'
<1>1. /\ "main" \in F!Threads /\ "t1" \in F!Threads /\ "t2" \in F!Threads
      /\ \A u \in F!Threads : at[u] \in Nat \ {0}
  BY DEF F!Threads, ProgramTypeOK
<1>2. terminated = "none"
  BY StepIs
<1>3. CASE inside[t] = "no" /\ ~F!Ended(t) /\ Executes(t, F!Statement(t))
  <2>1. CASE t = "main" /\ at[t] = 1 /\ F!Statement(t) = <<"start", "t1">>
    <3>1. t = "main" /\ at["main"] = 1
      BY <2>1
    <3>2. Advances(t) /\ UNCHANGED <<result, valid, moved, inside, vector, got, terminated>>
      BY <1>3, <2>1 DEF Executes
    <3> QED
      BY <1>1, <1>2, <3>1, <3>2 DEF Advances, TaskInv
  <2>2. CASE t = "main" /\ at[t] = 2 /\ F!Statement(t) = <<"get", {}>>
    <3>1. t = "main" /\ at["main"] = 2
      BY <2>2
    <3>2. /\ valid /\ result \in {"none", "value", "exception"} /\ got["main"] = <<>>
          /\ "none" \notin F!runtime_error \cup F!future_error
          /\ "value" \notin F!runtime_error \cup F!future_error
      BY <1>2, <1>3, <3>1 DEF TaskInv, F!runtime_error, F!future_error
    <3>3. F!Statement(t)[1] = "get" /\ F!Statement(t)[2] = {}
      BY <2>2
    <3>4. CASE result = "exception"
      <4>1. result \in F!runtime_error \cup F!future_error
        BY <3>4 DEF F!runtime_error
      <4>2. /\ F!Throw(t, "exception", {}) /\ valid' = FALSE
            /\ UNCHANGED <<result, moved, inside>>
        BY <1>3, <3>2, <3>3, <3>4, <4>1 DEF Executes
      <4>3. Receives(t, "exception") /\ terminated' = "main" /\ at' = at
        BY <3>1, <4>2, Thrown
      <4>4. got'["main"] = <<"exception">>
        BY <3>1, <3>2, <4>3, Appended DEF Receives
      <4> QED
        BY <1>1, <1>2, <1>3, <3>1, <3>4, <4>2, <4>3, <4>4 DEF Receives, TaskInv
    <3>5. CASE result # "exception"
      <4>1. /\ result = "value" /\ Passes(t, "take")
            /\ UNCHANGED <<at, result, valid, moved, got, terminated>>
        BY <1>3, <3>2, <3>3, <3>5 DEF Executes
      <4> QED
        BY <1>1, <1>2, <1>3, <3>1, <4>1 DEF Passes, TaskInv
    <3> QED
      BY <3>4, <3>5
  <2>3. CASE t = "main" /\ at[t] = 3 /\ F!Statement(t) = <<"join", "t1">>
    <3>1. t = "main" /\ at["main"] = 3
      BY <2>3
    <3>2. Advances(t) /\ UNCHANGED <<result, valid, moved, inside, vector, got, terminated>>
      BY <1>3, <2>3 DEF Executes
    <3> QED
      BY <1>1, <1>2, <3>1, <3>2 DEF Advances, TaskInv
  <2>4. CASE t = "t1" /\ at[t] = 1 /\ F!Statement(t) = <<"call">>
    <3>1. t = "t1" /\ at["t1"] = 1
      BY <2>4
    <3>2. /\ result' \in {"value", "exception"} /\ Advances(t)
          /\ UNCHANGED <<valid, moved, inside, got, terminated>>
      BY <1>3, <2>4 DEF Executes
    <3> QED
      BY <1>1, <1>2, <3>1, <3>2 DEF Advances, TaskInv
  <2>5. CASE t = "t1" /\ at[t] = 2 /\ F!Statement(t) = <<"destroy">>
    <3>1. t = "t1" /\ at["t1"] = 2
      BY <2>5
    <3>2. Advances(t) /\ UNCHANGED <<result, valid, moved, inside, vector, got, terminated>>
      BY <1>3, <2>5, <3>1 DEF Executes, TaskInv
    <3> QED
      BY <1>1, <1>2, <3>1, <3>2 DEF Advances, TaskInv
  <2> QED
    BY <1>1, <1>3, <2>1, <2>2, <2>3, <2>4, <2>5, TaskScript
<1>4. CASE Takes(t)
  <2>1. t = "main"
    BY <1>4 DEF Takes, TaskInv, F!Threads
  <2> QED
    BY <1>1, <1>4, <2>1, Appended DEF Takes, Passes, Receives, TaskInv
<1>5. CASE Resets(t)
  <2>1. t = "main"
    BY <1>5 DEF Resets, TaskInv, F!Threads
  <2> QED
    BY <1>1, <1>5, <2>1 DEF Resets, Passes, Advances, TaskInv
<1> QED
  BY <1>3, <1>4, <1>5, StepIs

\* The statements of the program.
LEMMA DemoScript ==
  ASSUME program = F!async_demo, NEW t \in F!Threads, at[t] \in Nat \ {0}, ~F!Ended(t)
  PROVE  \/ t = "main" /\ at[t] = 1 /\ F!Statement(t) = <<"start", "t1">>
         \/ t = "main" /\ at[t] = 2 /\ F!Statement(t) = <<"get", {}>>
         \/ t = "t1" /\ at[t] = 1 /\ F!Statement(t) = <<"call">>
         \/ t = "t1" /\ at[t] = 2 /\ F!Statement(t) = <<"destroy">>
<1>1. CASE t = "main"
  <2>1. program[t] = << <<"start", "t1">>, <<"get", {}>> >>
    BY <1>1 DEF F!async_demo
  <2>2. at[t] \in 1 .. 2
    BY <2>1 DEF F!Ended
  <2> QED
    BY <1>1, <2>1, <2>2 DEF F!Statement
<1>2. CASE t = "t1"
  <2>1. program[t] = << <<"call">>, <<"destroy">> >>
    BY <1>2 DEF F!async_demo
  <2>2. at[t] \in 1 .. 2
    BY <2>1 DEF F!Ended
  <2> QED
    BY <1>2, <2>1, <2>2 DEF F!Statement
<1>3. CASE t = "t2"
  <2>1. program[t] = <<>>
    BY <1>3 DEF F!async_demo
  <2> QED
    BY <2>1 DEF F!Ended
<1> QED
  BY <1>1, <1>2, <1>3 DEF F!Threads

\* The same without the join.
LEMMA DemoStep ==
  ASSUME program = F!async_demo, ProgramTypeOK, TaskInv, NEW t \in F!Threads, F!Step(t)
  PROVE  TaskInv'
<1>1. /\ "main" \in F!Threads /\ "t1" \in F!Threads /\ "t2" \in F!Threads
      /\ \A u \in F!Threads : at[u] \in Nat \ {0}
  BY DEF F!Threads, ProgramTypeOK
<1>2. terminated = "none"
  BY StepIs
<1>3. CASE inside[t] = "no" /\ ~F!Ended(t) /\ Executes(t, F!Statement(t))
  <2>1. CASE t = "main" /\ at[t] = 1 /\ F!Statement(t) = <<"start", "t1">>
    <3>1. t = "main" /\ at["main"] = 1
      BY <2>1
    <3>2. Advances(t) /\ UNCHANGED <<result, valid, moved, inside, vector, got, terminated>>
      BY <1>3, <2>1 DEF Executes
    <3> QED
      BY <1>1, <1>2, <3>1, <3>2 DEF Advances, TaskInv
  <2>2. CASE t = "main" /\ at[t] = 2 /\ F!Statement(t) = <<"get", {}>>
    <3>1. t = "main" /\ at["main"] = 2
      BY <2>2
    <3>2. /\ valid /\ result \in {"none", "value", "exception"} /\ got["main"] = <<>>
          /\ "none" \notin F!runtime_error \cup F!future_error
          /\ "value" \notin F!runtime_error \cup F!future_error
      BY <1>2, <1>3, <3>1 DEF TaskInv, F!runtime_error, F!future_error
    <3>3. F!Statement(t)[1] = "get" /\ F!Statement(t)[2] = {}
      BY <2>2
    <3>4. CASE result = "exception"
      <4>1. result \in F!runtime_error \cup F!future_error
        BY <3>4 DEF F!runtime_error
      <4>2. /\ F!Throw(t, "exception", {}) /\ valid' = FALSE
            /\ UNCHANGED <<result, moved, inside>>
        BY <1>3, <3>2, <3>3, <3>4, <4>1 DEF Executes
      <4>3. Receives(t, "exception") /\ terminated' = "main" /\ at' = at
        BY <3>1, <4>2, Thrown
      <4>4. got'["main"] = <<"exception">>
        BY <3>1, <3>2, <4>3, Appended DEF Receives
      <4> QED
        BY <1>1, <1>2, <1>3, <3>1, <3>4, <4>2, <4>3, <4>4 DEF Receives, TaskInv
    <3>5. CASE result # "exception"
      <4>1. /\ result = "value" /\ Passes(t, "take")
            /\ UNCHANGED <<at, result, valid, moved, got, terminated>>
        BY <1>3, <3>2, <3>3, <3>5 DEF Executes
      <4> QED
        BY <1>1, <1>2, <1>3, <3>1, <4>1 DEF Passes, TaskInv
    <3> QED
      BY <3>4, <3>5
  <2>3. CASE t = "t1" /\ at[t] = 1 /\ F!Statement(t) = <<"call">>
    <3>1. t = "t1" /\ at["t1"] = 1
      BY <2>3
    <3>2. /\ result' \in {"value", "exception"} /\ Advances(t)
          /\ UNCHANGED <<valid, moved, inside, got, terminated>>
      BY <1>3, <2>3 DEF Executes
    <3> QED
      BY <1>1, <1>2, <3>1, <3>2 DEF Advances, TaskInv
  <2>4. CASE t = "t1" /\ at[t] = 2 /\ F!Statement(t) = <<"destroy">>
    <3>1. t = "t1" /\ at["t1"] = 2
      BY <2>4
    <3>2. Advances(t) /\ UNCHANGED <<result, valid, moved, inside, vector, got, terminated>>
      BY <1>3, <2>4, <3>1 DEF Executes, TaskInv
    <3> QED
      BY <1>1, <1>2, <3>1, <3>2 DEF Advances, TaskInv
  <2> QED
    BY <1>1, <1>3, <2>1, <2>2, <2>3, <2>4, DemoScript
<1>4. CASE Takes(t)
  <2>1. t = "main"
    BY <1>4 DEF Takes, TaskInv, F!Threads
  <2> QED
    BY <1>1, <1>4, <2>1, Appended DEF Takes, Passes, Receives, TaskInv
<1>5. CASE Resets(t)
  <2>1. t = "main"
    BY <1>5 DEF Resets, TaskInv, F!Threads
  <2> QED
    BY <1>1, <1>5, <2>1 DEF Resets, Passes, Advances, TaskInv
<1> QED
  BY <1>3, <1>4, <1>5, StepIs

-------------------------------------------------------------------------
(* shared_future_fail.cpp.                                                 *)

\* t has moved the value out.
HasTaken(t) == inside[t] = "reset" \/ at[t] = 2

\* The first thread that has taken the value has moved it out; both cannot have taken it.
RaceInv ==
  /\ at["main"] \in 1 .. 5 /\ at["t1"] \in 1 .. 2 /\ at["t2"] \in 1 .. 2
  /\ inside["main"] = "no"
  /\ \A t \in {"t1", "t2"} : /\ inside[t] \in {"no", "take", "reset"}
                             /\ inside[t] # "no" => at[t] = 1
  /\ result = IF at["main"] <= 3 THEN "none" ELSE "value"
  /\ \A t \in {"t1", "t2"} : HasTaken(t) => moved
  /\ terminated = "none" => ~(HasTaken("t1") /\ HasTaken("t2"))
  /\ at["main"] = 5 => at["t2"] = 2

\* The statements of the program.
LEMMA RaceScript ==
  ASSUME program = F!shared_future_fail, NEW t \in F!Threads, at[t] \in Nat \ {0}, ~F!Ended(t)
  PROVE  \/ t = "main" /\ at[t] = 1 /\ F!Statement(t) = <<"start", "t1">>
         \/ t = "main" /\ at[t] = 2 /\ F!Statement(t) = <<"start", "t2">>
         \/ t = "main" /\ at[t] = 3 /\ F!Statement(t) = <<"set", "value", {}>>
         \/ t = "main" /\ at[t] = 4 /\ F!Statement(t) = <<"join", "t2">>
         \/ t = "main" /\ at[t] = 5 /\ F!Statement(t) = <<"join", "t1">>
         \/ t = "main" /\ at[t] = 6 /\ F!Statement(t) = <<"destroy">>
         \/ t = "t1" /\ at[t] = 1 /\ F!Statement(t) = <<"get", {}>>
         \/ t = "t2" /\ at[t] = 1 /\ F!Statement(t) = <<"get", {}>>
<1>1. CASE t = "main"
  <2>1. program[t] = << <<"start", "t1">>, <<"start", "t2">>, <<"set", "value", {}>>,
                        <<"join", "t2">>, <<"join", "t1">>, <<"destroy">> >>
    BY <1>1 DEF F!shared_future_fail
  <2>2. at[t] \in 1 .. 6
    BY <2>1 DEF F!Ended
  <2> QED
    BY <1>1, <2>1, <2>2 DEF F!Statement
<1>2. CASE t = "t1"
  <2>1. program[t] = << <<"get", {}>> >>
    BY <1>2 DEF F!shared_future_fail
  <2>2. at[t] \in 1 .. 1
    BY <2>1 DEF F!Ended
  <2> QED
    BY <1>2, <2>1, <2>2 DEF F!Statement
<1>3. CASE t = "t2"
  <2>1. program[t] = << <<"get", {}>> >>
    BY <1>3 DEF F!shared_future_fail
  <2>2. at[t] \in 1 .. 1
    BY <2>1 DEF F!Ended
  <2> QED
    BY <1>3, <2>1, <2>2 DEF F!Statement
<1> QED
  BY <1>1, <1>2, <1>3 DEF F!Threads

\* The second thread that takes the value, or comes to a future that is invalid, ends the program.
LEMMA RaceStep ==
  ASSUME program = F!shared_future_fail, ProgramTypeOK, RaceInv, NEW t \in F!Threads, F!Step(t)
  PROVE  RaceInv'
<1>1. /\ "main" \in F!Threads /\ "t1" \in F!Threads /\ "t2" \in F!Threads
      /\ \A u \in F!Threads : at[u] \in Nat \ {0}
  BY DEF F!Threads, ProgramTypeOK
<1>2. terminated = "none"
  BY StepIs
<1>3. CASE inside[t] = "no" /\ ~F!Ended(t) /\ Executes(t, F!Statement(t))
  <2>1. CASE t = "main" /\ at[t] = 1 /\ F!Statement(t) = <<"start", "t1">>
    <3>1. t = "main" /\ at["main"] = 1
      BY <2>1
    <3>2. Advances(t) /\ UNCHANGED <<result, valid, moved, inside, vector, got, terminated>>
      BY <1>3, <2>1 DEF Executes
    <3> QED
      BY <1>1, <1>2, <3>1, <3>2 DEF Advances, RaceInv, HasTaken
  <2>2. CASE t = "main" /\ at[t] = 2 /\ F!Statement(t) = <<"start", "t2">>
    <3>1. t = "main" /\ at["main"] = 2
      BY <2>2
    <3>2. Advances(t) /\ UNCHANGED <<result, valid, moved, inside, vector, got, terminated>>
      BY <1>3, <2>2 DEF Executes
    <3> QED
      BY <1>1, <1>2, <3>1, <3>2 DEF Advances, RaceInv, HasTaken
  <2>3. CASE t = "main" /\ at[t] = 3 /\ F!Statement(t) = <<"set", "value", {}>>
    <3>1. t = "main" /\ at["main"] = 3
      BY <2>3
    <3>2. result = "none"
      BY <3>1 DEF RaceInv, HasTaken
    <3>3. /\ result' = "value" /\ Advances(t)
          /\ UNCHANGED <<valid, moved, inside, vector, got, terminated>>
      BY <1>3, <2>3, <3>2 DEF Executes
    <3> QED
      BY <1>1, <1>2, <3>1, <3>3 DEF Advances, RaceInv, HasTaken
  <2>4. CASE t = "main" /\ at[t] = 4 /\ F!Statement(t) = <<"join", "t2">>
    <3>1. t = "main" /\ at["main"] = 4
      BY <2>4
    <3>2. /\ F!Ended("t2") /\ Advances(t)
          /\ UNCHANGED <<result, valid, moved, inside, vector, got, terminated>>
      BY <1>3, <2>4 DEF Executes
    <3>3. at["t2"] > 1
      BY <3>2 DEF F!Ended, F!shared_future_fail
    <3> QED
      BY <1>1, <1>2, <3>1, <3>2, <3>3 DEF Advances, RaceInv, HasTaken
  <2>5. CASE t = "main" /\ at[t] = 5 /\ F!Statement(t) = <<"join", "t1">>
    <3>1. t = "main" /\ at["main"] = 5
      BY <2>5
    <3>2. F!Ended("t1") /\ Advances(t) /\ UNCHANGED terminated
      BY <1>3, <2>5 DEF Executes
    <3>3. at["t1"] > 1
      BY <3>2 DEF F!Ended, F!shared_future_fail
    <3>4. at["t1"] = 2 /\ at["t2"] = 2
      BY <3>1, <3>3 DEF RaceInv
    <3> QED
      BY <1>2, <3>4 DEF RaceInv, HasTaken
  <2>6. CASE t = "main" /\ at[t] = 6 /\ F!Statement(t) = <<"destroy">>
    <3>1. t = "main" /\ at["main"] = 6
      BY <2>6
    <3> QED
      BY <3>1 DEF RaceInv
  <2>7. CASE t = "t1" /\ at[t] = 1 /\ F!Statement(t) = <<"get", {}>>
    <3>1. t = "t1" /\ at["t1"] = 1
      BY <2>7
    <3>2. /\ F!Statement(t)[1] = "get" /\ F!Statement(t)[2] = {}
          /\ result \in {"none", "value"} /\ result \notin F!runtime_error \cup F!future_error
      BY <2>7 DEF RaceInv, F!runtime_error, F!future_error
    <3>3. CASE ~valid
      <4>1. F!Throw(t, "no_state", {}) /\ UNCHANGED <<result, moved, inside>>
        BY <1>3, <3>2, <3>3 DEF Executes
      <4>2. terminated' = t /\ at' = at
        BY <4>1, Thrown
      <4> QED
        BY <1>1, <1>2, <3>1, <4>1, <4>2 DEF RaceInv, HasTaken
    <3>4. CASE valid
      <4>1. /\ result # "none" /\ Passes(t, "take")
            /\ UNCHANGED <<at, result, moved, terminated>>
        BY <1>3, <3>2, <3>4 DEF Executes
      <4> QED
        BY <1>1, <1>2, <1>3, <3>1, <4>1 DEF Passes, RaceInv, HasTaken
    <3> QED
      BY <3>3, <3>4
  <2>8. CASE t = "t2" /\ at[t] = 1 /\ F!Statement(t) = <<"get", {}>>
    <3>1. t = "t2" /\ at["t2"] = 1
      BY <2>8
    <3>2. /\ F!Statement(t)[1] = "get" /\ F!Statement(t)[2] = {}
          /\ result \in {"none", "value"} /\ result \notin F!runtime_error \cup F!future_error
      BY <2>8 DEF RaceInv, F!runtime_error, F!future_error
    <3>3. CASE ~valid
      <4>1. F!Throw(t, "no_state", {}) /\ UNCHANGED <<result, moved, inside>>
        BY <1>3, <3>2, <3>3 DEF Executes
      <4>2. terminated' = t /\ at' = at
        BY <4>1, Thrown
      <4> QED
        BY <1>1, <1>2, <3>1, <4>1, <4>2 DEF RaceInv, HasTaken
    <3>4. CASE valid
      <4>1. /\ result # "none" /\ Passes(t, "take")
            /\ UNCHANGED <<at, result, moved, terminated>>
        BY <1>3, <3>2, <3>4 DEF Executes
      <4> QED
        BY <1>1, <1>2, <1>3, <3>1, <4>1 DEF Passes, RaceInv, HasTaken
    <3> QED
      BY <3>3, <3>4
  <2> QED
    BY <1>1, <1>3, <2>1, <2>2, <2>3, <2>4, <2>5, <2>6, <2>7, <2>8, RaceScript
<1>4. CASE Takes(t)
  <2>1. t = "t1" \/ t = "t2"
    BY <1>4 DEF Takes, RaceInv, F!Threads
  <2>2. /\ inside'[t] = "reset" /\ moved' = TRUE /\ UNCHANGED <<at, result>>
        /\ \A u \in F!Threads : u # t => inside'[u] = inside[u]
        /\ (moved /\ terminated' = t) \/ (~moved /\ terminated' = "none")
    BY <1>4 DEF Takes, Passes
  <2> QED
    BY <1>1, <1>2, <1>4, <2>1, <2>2 DEF Takes, RaceInv, HasTaken
<1>5. CASE Resets(t)
  <2>1. t = "t1" \/ t = "t2"
    BY <1>5 DEF Resets, RaceInv, F!Threads
  <2> QED
    BY <1>1, <1>2, <1>5, <2>1 DEF Resets, Passes, Advances, RaceInv, HasTaken
<1> QED
  BY <1>3, <1>4, <1>5, StepIs

-------------------------------------------------------------------------
(* wait.cpp, for every number of values that are pushed.                   *)

\* The vector has what main() has pushed, and t1 waits until that is everything.
PushedInv ==
  /\ at["main"] \in 1 .. Pushes + 5 /\ at["t1"] \in 1 .. 3
  /\ inside["main"] = "no" /\ inside["t1"] = "no" /\ inside["t2"] = "no"
  /\ terminated = "none"
  /\ vector = IF at["main"] = 1 THEN 0
              ELSE IF at["main"] <= Pushes + 2 THEN at["main"] - 2 ELSE Pushes
  /\ result = IF at["main"] <= Pushes + 2 THEN "none" ELSE "value"
  /\ at["t1"] # 1 => at["main"] > Pushes + 2
  /\ got["main"] = <<>> /\ got["t2"] = <<>>
  /\ got["t1"] = IF at["t1"] <= 2 THEN <<>> ELSE <<"sum">>
  /\ at["main"] >= Pushes + 4 => at["t1"] = 3

\* What main() executes.
LEMMA PushedMain ==
  ASSUME Pushes \in Nat
  PROVE  /\ Len(F!wait_cpp["main"]) = Pushes + 4
         /\ F!wait_cpp["main"][1] = <<"start", "t1">>
         /\ \A k \in 2 .. Pushes + 1 : F!wait_cpp["main"][k] = <<"push">>
         /\ F!wait_cpp["main"][Pushes + 2] = <<"set", "value", {}>>
         /\ F!wait_cpp["main"][Pushes + 3] = <<"join", "t1">>
         /\ F!wait_cpp["main"][Pushes + 4] = <<"destroy">>
<1> DEFINE S == {<<"start", "t1">>, <<"push">>, <<"set", "value", {}>>, <<"join", "t1">>,
                 <<"destroy">>}
           x == << <<"start", "t1">> >>
           y == [k \in 1 .. Pushes |-> <<"push">>]
           z == << <<"set", "value", {}>>, <<"join", "t1">>, <<"destroy">> >>
           m == F!wait_cpp["main"]
<1>1. m = x \o y \o z
  BY DEF F!wait_cpp
<1>2. /\ x \in Seq(S) /\ Len(x) = 1 /\ x[1] = <<"start", "t1">>
      /\ z \in Seq(S) /\ Len(z) = 3
      /\ z[1] = <<"set", "value", {}>> /\ z[2] = <<"join", "t1">> /\ z[3] = <<"destroy">>
  OBVIOUS
<1>3. /\ y \in Seq(S) /\ Len(y) = Pushes /\ \A k \in 1 .. Pushes : y[k] = <<"push">>
  <2>1. <<"push">> \in S
    OBVIOUS
  <2> HIDE DEF S
  <2> QED
    BY <2>1
<1> HIDE DEF S, x, y, z, m
<1>4. /\ x \o y \in Seq(S) /\ Len(x \o y) = Pushes + 1
      /\ \A k \in 1 .. 1 + Pushes : (x \o y)[k] = IF k <= 1 THEN x[k] ELSE y[k - 1]
  <2>1. /\ x \o y \in Seq(S) /\ Len(x \o y) = Len(x) + Len(y)
        /\ \A k \in 1 .. Len(x) + Len(y) :
             (x \o y)[k] = IF k <= Len(x) THEN x[k] ELSE y[k - Len(x)]
    BY <1>2, <1>3, ConcatProperties
  <2> QED
    BY <1>2, <1>3, <2>1
<1> DEFINE w == x \o y
<1> HIDE DEF w
<1>5. /\ w \in Seq(S) /\ Len(w) = Pushes + 1 /\ w[1] = <<"start", "t1">>
      /\ \A k \in 2 .. Pushes + 1 : w[k] = <<"push">>
  <2>1. ASSUME NEW k \in 2 .. Pushes + 1 PROVE w[k] = <<"push">>
    <3>1. k \in 1 .. 1 + Pushes /\ ~(k <= 1) /\ k - 1 \in 1 .. Pushes
      OBVIOUS
    <3> QED
      BY <1>3, <1>4, <3>1 DEF w
  <2>2. 1 \in 1 .. 1 + Pushes /\ 1 <= 1
    OBVIOUS
  <2>3. w[1] = x[1]
    BY <1>4, <2>2 DEF w
  <2>4. w \in Seq(S) /\ Len(w) = Pushes + 1
    BY <1>4 DEF w
  <2> QED
    BY <1>2, <2>1, <2>3, <2>4
<1>6. /\ w \o z \in Seq(S) /\ Len(w \o z) = Len(w) + Len(z)
      /\ \A k \in 1 .. Len(w) + Len(z) :
           (w \o z)[k] = IF k <= Len(w) THEN w[k] ELSE z[k - Len(w)]
  BY <1>2, <1>5, ConcatProperties
<1>7. m = w \o z
  BY <1>1 DEF w
<1>8. Len(m) = Pushes + 4 /\ \A k \in 1 .. Pushes + 4 :
        m[k] = IF k <= Pushes + 1 THEN w[k] ELSE z[k - (Pushes + 1)]
  BY <1>2, <1>5, <1>6, <1>7
<1>9. m[1] = <<"start", "t1">>
  BY <1>5, <1>8
<1>10. ASSUME NEW k \in 2 .. Pushes + 1 PROVE m[k] = <<"push">>
  <2>1. k \in 1 .. Pushes + 4 /\ k <= Pushes + 1
    OBVIOUS
  <2> QED
    BY <1>5, <1>8, <2>1
<1>11. ASSUME NEW j \in 1 .. 3 PROVE m[Pushes + 1 + j] = z[j]
  <2>1. /\ Pushes + 1 + j \in 1 .. Pushes + 4 /\ ~(Pushes + 1 + j <= Pushes + 1)
        /\ (Pushes + 1 + j) - (Pushes + 1) = j
    OBVIOUS
  <2> QED
    BY <1>8, <2>1
<1>12. Pushes + 2 = Pushes + 1 + 1 /\ Pushes + 3 = Pushes + 1 + 2 /\ Pushes + 4 = Pushes + 1 + 3
  OBVIOUS
<1>13. m[Pushes + 2] = z[1] /\ m[Pushes + 3] = z[2] /\ m[Pushes + 4] = z[3]
  BY <1>11, <1>12
<1> QED
  BY <1>2, <1>8, <1>9, <1>10, <1>13 DEF m

\* The statements of the program.
LEMMA PushedScript ==
  ASSUME Pushes \in Nat,
         program = F!wait_cpp, NEW t \in F!Threads, at[t] \in Nat \ {0}, ~F!Ended(t)
  PROVE  \/ t = "main" /\ at[t] = 1 /\ F!Statement(t) = <<"start", "t1">>
         \/ t = "main" /\ at[t] \in 2 .. Pushes + 1 /\ F!Statement(t) = <<"push">>
         \/ t = "main" /\ at[t] = Pushes + 2 /\ F!Statement(t) = <<"set", "value", {}>>
         \/ t = "main" /\ at[t] = Pushes + 3 /\ F!Statement(t) = <<"join", "t1">>
         \/ t = "main" /\ at[t] = Pushes + 4 /\ F!Statement(t) = <<"destroy">>
         \/ t = "t1" /\ at[t] = 1 /\ F!Statement(t) = <<"wait">>
         \/ t = "t1" /\ at[t] = 2 /\ F!Statement(t) = <<"sum">>
<1>1. CASE t = "main"
  <2>1. at[t] \in 1 .. Pushes + 4
    BY <1>1, PushedMain DEF F!Ended
  <2>2. at[t] = 1 \/ at[t] \in 2 .. Pushes + 1 \/ at[t] = Pushes + 2 \/ at[t] = Pushes + 3
        \/ at[t] = Pushes + 4
    BY <2>1
  <2> QED
    BY <1>1, <2>2, PushedMain DEF F!Statement
<1>2. CASE t = "t1"
  <2>1. program[t] = << <<"wait">>, <<"sum">> >>
    BY <1>2 DEF F!wait_cpp
  <2>2. at[t] \in 1 .. 2
    BY <2>1 DEF F!Ended
  <2> QED
    BY <1>2, <2>1, <2>2 DEF F!Statement
<1>3. CASE t = "t2"
  <2>1. program[t] = <<>>
    BY <1>3 DEF F!wait_cpp
  <2> QED
    BY <2>1 DEF F!Ended
<1> QED
  BY <1>1, <1>2, <1>3 DEF F!Threads

\* The other thread waits until all the values have been pushed.
LEMMA PushedStep ==
  ASSUME Pushes \in Nat,
         program = F!wait_cpp, ProgramTypeOK, PushedInv, NEW t \in F!Threads, F!Step(t)
  PROVE  PushedInv'
<1>1. /\ "main" \in F!Threads /\ "t1" \in F!Threads /\ "t2" \in F!Threads
      /\ \A u \in F!Threads : at[u] \in Nat \ {0}
  BY DEF F!Threads, ProgramTypeOK
<1>2. terminated = "none"
  BY StepIs
<1>3. CASE inside[t] = "no" /\ ~F!Ended(t) /\ Executes(t, F!Statement(t))
  <2>1. CASE t = "main" /\ at[t] = 1 /\ F!Statement(t) = <<"start", "t1">>
    <3>1. t = "main" /\ at["main"] = 1
      BY <2>1
    <3>2. Advances(t) /\ UNCHANGED <<result, valid, moved, inside, vector, got, terminated>>
      BY <1>3, <2>1 DEF Executes
    <3> QED
      BY <1>1, <1>2, <3>1, <3>2 DEF Advances, PushedInv
  <2>2. CASE t = "main" /\ at[t] \in 2 .. Pushes + 1 /\ F!Statement(t) = <<"push">>
    <3>1. t = "main" /\ at["main"] \in 2 .. Pushes + 1
      BY <2>2
    <3>2. /\ vector' = vector + 1 /\ Advances(t)
          /\ UNCHANGED <<result, valid, moved, inside, got, terminated>>
      BY <1>3, <2>2 DEF Executes
    <3>3. at'["main"] = at["main"] + 1 /\ at'["t1"] = at["t1"]
      BY <1>1, <3>1, <3>2 DEF Advances
    <3>4. vector = at["main"] - 2
      BY <3>1 DEF PushedInv
    <3>5. /\ at'["main"] \in 3 .. Pushes + 2 /\ at'["main"] # 1 /\ at'["main"] <= Pushes + 2
          /\ vector' = at'["main"] - 2 /\ ~(at["main"] > Pushes + 2)
      BY <3>1, <3>2, <3>3, <3>4
    <3> QED
      BY <3>1, <3>2, <3>3, <3>5 DEF PushedInv
  <2>3. CASE t = "main" /\ at[t] = Pushes + 2 /\ F!Statement(t) = <<"set", "value", {}>>
    <3>1. t = "main" /\ at["main"] = Pushes + 2
      BY <2>3
    <3>2. result = "none"
      BY <3>1 DEF PushedInv
    <3>3. /\ result' = "value" /\ Advances(t)
          /\ UNCHANGED <<valid, moved, inside, vector, got, terminated>>
      BY <1>3, <2>3, <3>2 DEF Executes
    <3> QED
      BY <1>1, <1>2, <3>1, <3>3 DEF Advances, PushedInv
  <2>4. CASE t = "main" /\ at[t] = Pushes + 3 /\ F!Statement(t) = <<"join", "t1">>
    <3>1. t = "main" /\ at["main"] = Pushes + 3
      BY <2>4
    <3>2. /\ F!Ended("t1") /\ Advances(t)
          /\ UNCHANGED <<result, valid, moved, inside, vector, got, terminated>>
      BY <1>3, <2>4 DEF Executes
    <3>3. at["t1"] > 2
      BY <3>2 DEF F!Ended, F!wait_cpp
    <3> QED
      BY <1>1, <1>2, <3>1, <3>2, <3>3 DEF Advances, PushedInv
  <2>5. CASE t = "main" /\ at[t] = Pushes + 4 /\ F!Statement(t) = <<"destroy">>
    <3>1. t = "main" /\ at["main"] = Pushes + 4
      BY <2>5
    <3>2. Advances(t) /\ UNCHANGED <<result, valid, moved, inside, vector, got, terminated>>
      BY <1>3, <2>5, <3>1 DEF Executes, PushedInv
    <3> QED
      BY <1>1, <1>2, <3>1, <3>2 DEF Advances, PushedInv
  <2>6. CASE t = "t1" /\ at[t] = 1 /\ F!Statement(t) = <<"wait">>
    <3>1. t = "t1" /\ at["t1"] = 1
      BY <2>6
    <3>2. /\ result # "none" /\ Advances(t)
          /\ UNCHANGED <<result, valid, moved, inside, vector, got, terminated>>
      BY <1>3, <2>6 DEF Executes
    <3> QED
      BY <1>1, <1>2, <3>1, <3>2 DEF Advances, PushedInv
  <2>7. CASE t = "t1" /\ at[t] = 2 /\ F!Statement(t) = <<"sum">>
    <3>1. t = "t1" /\ at["t1"] = 2
      BY <2>7
    <3>2. vector = Pushes /\ got["t1"] = <<>>
      BY <1>1, <3>1 DEF PushedInv
    <3>3. /\ Receives(t, "sum") /\ Advances(t)
          /\ UNCHANGED <<result, valid, moved, inside, vector, terminated>>
      BY <1>3, <2>7, <3>2 DEF Executes
    <3>4. got'["t1"] = <<"sum">> /\ got'["main"] = got["main"] /\ got'["t2"] = got["t2"]
      <4>1. got'["t1"] = Append(got["t1"], "sum")
        BY <3>1, <3>3 DEF Receives
      <4>2. got'["main"] = got["main"] /\ got'["t2"] = got["t2"]
        BY <1>1, <3>1, <3>3 DEF Receives
      <4> QED
        BY <3>2, <4>1, <4>2, Appended
    <3>5. at'["t1"] = 3 /\ at'["main"] = at["main"]
      BY <1>1, <3>1, <3>3 DEF Advances
    <3> QED
      BY <1>2, <3>1, <3>3, <3>4, <3>5 DEF PushedInv
  <2> QED
    BY <1>1, <1>3, <2>1, <2>2, <2>3, <2>4, <2>5, <2>6, <2>7, PushedScript
<1>4. CASE Takes(t)
  BY <1>4 DEF Takes, PushedInv, F!Threads
<1>5. CASE Resets(t)
  BY <1>5 DEF Resets, PushedInv, F!Threads
<1> QED
  BY <1>3, <1>4, <1>5, StepIs

-------------------------------------------------------------------------
(* The programs of Future/: all of them.                                   *)

\* The inductive invariant: that of the program that runs.
ProgramInv ==
  /\ ProgramTypeOK
  /\ \/ program = F!promise_future_basic /\ BasicInv
     \/ program = F!set_exception /\ ExceptionInv
     \/ program = F!packaged_task /\ TaskInv
     \/ program = F!async /\ AsyncInv
     \/ program = F!async_demo /\ TaskInv
     \/ program = F!shared_future /\ SharedInv
     \/ program = F!shared_future_fail /\ RaceInv
     \/ program = F!wait_cpp /\ PushedInv
     \/ program = F!wait_for_cpp /\ WaitForInv

\* A program of Future/ starts in its invariant.
LEMMA ProgramStarts ==
  ASSUME Pushes \in Nat, F!Init
  PROVE  ProgramInv
<1>1. ProgramTypeOK
  BY DEF F!Init, F!Threads, ProgramTypeOK
<1>2. \A t \in {"main", "t1", "t2"} : at[t] = 1 /\ inside[t] = "no" /\ got[t] = <<>>
  BY DEF F!Init, F!Threads
<1>3. /\ at["main"] = 1 /\ inside["main"] = "no" /\ got["main"] = <<>>
      /\ at["t1"] = 1 /\ inside["t1"] = "no" /\ got["t1"] = <<>>
      /\ at["t2"] = 1 /\ inside["t2"] = "no" /\ got["t2"] = <<>>
      /\ result = "none" /\ valid = TRUE /\ moved = FALSE /\ vector = 0 /\ terminated = "none"
  BY <1>2 DEF F!Init
<1>4. BasicInv /\ ExceptionInv /\ TaskInv /\ AsyncInv
  BY <1>3 DEF BasicInv, ExceptionInv, TaskInv, AsyncInv
<1>5. SharedInv /\ RaceInv
  BY <1>3 DEF SharedInv, RaceInv, HasTaken
<1>6. PushedInv /\ WaitForInv
  BY <1>3 DEF PushedInv, WaitForInv
<1>7. program \in F!Programs
  BY DEF F!Init
<1> QED
  BY <1>1, <1>4, <1>5, <1>6, <1>7 DEF F!Programs, ProgramInv

\* Every step of a program preserves its invariant.
LEMMA ProgramStep ==
  ASSUME Pushes \in Nat, ProgramInv, [F!Next]_programVars
  PROVE  ProgramInv'
<1>1. CASE F!Finished \/ UNCHANGED programVars
  <2>1. UNCHANGED <<program, at, result, valid, moved, inside, vector, got, terminated>>
    BY <1>1 DEF F!Finished, F!vars, F!future, programVars
  <2>2. ProgramTypeOK'
    BY <2>1 DEF ProgramInv, ProgramTypeOK
  <2>3. /\ BasicInv => BasicInv'
        /\ ExceptionInv => ExceptionInv'
        /\ TaskInv => TaskInv'
        /\ AsyncInv => AsyncInv'
    BY <2>1 DEF BasicInv, ExceptionInv, TaskInv, AsyncInv
  <2>4. /\ SharedInv => SharedInv'
        /\ RaceInv => RaceInv'
    BY <2>1 DEF SharedInv, RaceInv, HasTaken
  <2>5. /\ PushedInv => PushedInv'
        /\ WaitForInv => WaitForInv'
    BY <2>1 DEF PushedInv, WaitForInv
  <2> QED
    BY <2>1, <2>2, <2>3, <2>4, <2>5 DEF ProgramInv
<1>2. ASSUME NEW t \in F!Threads, F!Step(t) PROVE ProgramInv'
  <2>1. ProgramTypeOK /\ ProgramTypeOK' /\ program' = program
    BY <1>2, StepIs, StepTypes DEF ProgramInv
  <2>2. CASE program = F!promise_future_basic /\ BasicInv
    BY <1>2, <2>1, <2>2, BasicStep DEF ProgramInv
  <2>3. CASE program = F!set_exception /\ ExceptionInv
    BY <1>2, <2>1, <2>3, ExceptionStep DEF ProgramInv
  <2>4. CASE program = F!packaged_task /\ TaskInv
    BY <1>2, <2>1, <2>4, TaskStep DEF ProgramInv
  <2>5. CASE program = F!async_demo /\ TaskInv
    BY <1>2, <2>1, <2>5, DemoStep DEF ProgramInv
  <2>6. CASE program = F!shared_future /\ SharedInv
    BY <1>2, <2>1, <2>6, SharedStep DEF ProgramInv
  <2>7. CASE program = F!shared_future_fail /\ RaceInv
    BY <1>2, <2>1, <2>7, RaceStep DEF ProgramInv
  <2>8. CASE program = F!wait_cpp /\ PushedInv
    BY <1>2, <2>1, <2>8, PushedStep DEF ProgramInv
  <2>9. CASE program = F!wait_for_cpp /\ WaitForInv
    BY <1>2, <2>1, <2>9, WaitForStep DEF ProgramInv
  <2>10. CASE program = F!async /\ AsyncInv
    BY <1>2, <2>1, <2>10, AsyncStep DEF ProgramInv
  <2> QED
    BY <2>2, <2>3, <2>4, <2>5, <2>6, <2>7, <2>8, <2>9, <2>10 DEF ProgramInv
<1> QED
  BY <1>1, <1>2 DEF F!Next

\* ProgramInv while a program runs.
FutureInv == chosen = "program" => ProgramInv

\* The invariant of the programs of Future/ holds.
LEMMA FutureInvHolds == Spec => []FutureInv
<1> USE WorkAssumption DEF F!FutureAssumption
<1>1. Init => FutureInv
  BY ProgramStarts DEF Init, FutureInv, WorkAssumption
<1>2. FutureInv /\ [Next]_vars => FutureInv'
  <2> SUFFICES ASSUME FutureInv, [Next]_vars, chosen' = "program" PROVE ProgramInv'
    BY DEF FutureInv
  <2>1. chosen = "program" /\ [F!Next]_programVars
    BY DEF Next, vars
  <2> QED
    BY <2>1, ProgramStep DEF FutureInv, WorkAssumption
<1> QED
  BY <1>1, <1>2, PTL DEF Spec

\* The programs in which something may fail are not among the others.
LEMMA Different ==
  ASSUME Pushes \in Nat
  PROVE  /\ \A p \in {F!promise_future_basic, F!set_exception, F!shared_future, F!wait_cpp,
                      F!wait_for_cpp, F!async} :
              p \notin {F!packaged_task, F!async_demo, F!shared_future_fail}
         /\ F!shared_future_fail \notin {F!packaged_task, F!async_demo}
<1> DEFINE Kind(p) == p["t1"][1][1]
<1>1. Kind(F!promise_future_basic) = "set"
  BY DEF F!promise_future_basic
<1>2. Kind(F!set_exception) = "set"
  BY DEF F!set_exception
<1>3. Kind(F!shared_future) = "get_shared"
  BY DEF F!shared_future
<1>4. Kind(F!wait_cpp) = "wait"
  BY DEF F!wait_cpp
<1>5. Kind(F!wait_for_cpp) = "set"
  BY DEF F!wait_for_cpp
<1>6. Kind(F!packaged_task) = "call"
  BY DEF F!packaged_task
<1>7. Kind(F!async_demo) = "call"
  BY DEF F!async_demo
<1>8. Kind(F!shared_future_fail) = "get"
  BY DEF F!shared_future_fail
<1>9. Kind(F!async) = "set"
  BY DEF F!async
<1> HIDE DEF Kind
<1> QED
  BY <1>1, <1>2, <1>3, <1>4, <1>5, <1>6, <1>7, <1>8, <1>9

\* How many statements main() has.
LEMMA MainEnds ==
  ASSUME Pushes \in Nat
  PROVE  /\ Len(F!promise_future_basic["main"]) = 4
         /\ Len(F!set_exception["main"]) = 3
         /\ Len(F!packaged_task["main"]) = 3
         /\ Len(F!async["main"]) = 3
         /\ Len(F!async_demo["main"]) = 2
         /\ Len(F!shared_future["main"]) = 6
         /\ Len(F!shared_future_fail["main"]) = 6
         /\ Len(F!wait_cpp["main"]) = Pushes + 4
         /\ Len(F!wait_for_cpp["main"]) = 4
<1>1. Len(F!promise_future_basic["main"]) = 4
  BY DEF F!promise_future_basic
<1>2. Len(F!set_exception["main"]) = 3
  BY DEF F!set_exception
<1>3. Len(F!packaged_task["main"]) = 3
  BY DEF F!packaged_task
<1>4. Len(F!async_demo["main"]) = 2
  BY DEF F!async_demo
<1>5. Len(F!shared_future["main"]) = 6
  BY DEF F!shared_future
<1>6. Len(F!shared_future_fail["main"]) = 6
  BY DEF F!shared_future_fail
<1>7. Len(F!wait_cpp["main"]) = Pushes + 4
  BY PushedMain
<1>8. Len(F!wait_for_cpp["main"]) = 4
  BY DEF F!wait_for_cpp
<1>9. Len(F!async["main"]) = 3
  BY DEF F!async
<1> QED
  BY <1>1, <1>2, <1>3, <1>4, <1>5, <1>6, <1>7, <1>8, <1>9

\* What the three threads got.
LEMMA AllGot ==
  ASSUME ProgramTypeOK
  PROVE  got = [main |-> got["main"], t1 |-> got["t1"], t2 |-> got["t2"]]
BY DEF ProgramTypeOK, F!Threads

\* SameResults: what a thread has got follows from the statements the threads have come to, and
\* main() comes to its end only after the threads that it joins.
THEOREM ResultsAreTheSame == Spec => []SameResults
<1>1. FutureInv => SameResults
  <2> SUFFICES ASSUME ProgramInv, at["main"] > Len(program["main"])
               PROVE  <<program, got>> \in F!Shows
    BY DEF FutureInv, SameResults, F!SameResults, F!Ended
  <2>1. Pushes \in Nat /\ got = [main |-> got["main"], t1 |-> got["t1"], t2 |-> got["t2"]]
    BY WorkAssumption, AllGot DEF ProgramInv, WorkAssumption, F!FutureAssumption
  <2>2. CASE program = F!promise_future_basic /\ BasicInv
    <3>1. at["main"] = 5
      <4>1. Len(program["main"]) = 4
        BY <2>1, <2>2, MainEnds
      <4>2. at["main"] \in 1 .. 5
        BY <2>2 DEF BasicInv
      <4> QED
        BY <4>1, <4>2
    <3>2. got["main"] = <<"value", "no_state">> /\ got["t1"] = <<"satisfied">> /\ got["t2"] = <<>>
      BY <2>2, <3>1 DEF BasicInv
    <3> QED
      BY <2>1, <2>2, <3>2 DEF F!Shows
  <2>3. CASE program = F!set_exception /\ ExceptionInv
    <3>1. at["main"] = 4
      <4>1. Len(program["main"]) = 3
        BY <2>1, <2>3, MainEnds
      <4>2. at["main"] \in 1 .. 4
        BY <2>3 DEF ExceptionInv
      <4> QED
        BY <4>1, <4>2
    <3>2. got["main"] = <<"exception">> /\ got["t1"] = <<>> /\ got["t2"] = <<>>
      BY <2>3, <3>1 DEF ExceptionInv
    <3> QED
      BY <2>1, <2>3, <3>2 DEF F!Shows
  <2>4. CASE program = F!packaged_task /\ TaskInv
    <3>1. at["main"] = 4
      <4>1. Len(program["main"]) = 3
        BY <2>1, <2>4, MainEnds
      <4>2. at["main"] \in 1 .. 4
        BY <2>4 DEF TaskInv
      <4> QED
        BY <4>1, <4>2
    <3>2. got["main"] = <<"value">> /\ got["t1"] = <<>> /\ got["t2"] = <<>>
      BY <2>4, <3>1 DEF TaskInv
    <3> QED
      BY <2>1, <2>4, <3>2 DEF F!Shows
  <2>5. CASE program = F!async_demo /\ TaskInv
    <3>1. at["main"] \in 3 .. 4
      <4>1. Len(program["main"]) = 2
        BY <2>1, <2>5, MainEnds
      <4>2. at["main"] \in 1 .. 4
        BY <2>5 DEF TaskInv
      <4> QED
        BY <4>1, <4>2
    <3>2. got["main"] = <<"value">> /\ got["t1"] = <<>> /\ got["t2"] = <<>>
      BY <2>5, <3>1 DEF TaskInv
    <3> QED
      BY <2>1, <2>5, <3>2 DEF F!Shows
  <2>6. CASE program = F!shared_future /\ SharedInv
    <3>1. at["main"] = 7
      <4>1. Len(program["main"]) = 6
        BY <2>1, <2>6, MainEnds
      <4>2. at["main"] \in 1 .. 7
        BY <2>6 DEF SharedInv
      <4> QED
        BY <4>1, <4>2
    <3>2. got["main"] = <<>> /\ got["t1"] = <<"value">> /\ got["t2"] = <<"value">>
      BY <2>6, <3>1 DEF SharedInv
    <3> QED
      BY <2>1, <2>6, <3>2 DEF F!Shows
  <2>7. CASE program = F!shared_future_fail /\ RaceInv
    <3>1. Len(program["main"]) = 6
      BY <2>1, <2>7, MainEnds
    <3>2. at["main"] \in 1 .. 5
      BY <2>7 DEF RaceInv
    <3> QED
      BY <3>1, <3>2
  <2>8. CASE program = F!wait_cpp /\ PushedInv
    <3>1. at["main"] = Pushes + 5
      BY <2>1, <2>8, MainEnds DEF PushedInv
    <3>2. got["main"] = <<>> /\ got["t1"] = <<"sum">> /\ got["t2"] = <<>>
      BY <2>1, <2>8, <3>1 DEF PushedInv
    <3> QED
      BY <2>1, <2>8, <3>2 DEF F!Shows
  <2>9. CASE program = F!wait_for_cpp /\ WaitForInv
    <3>1. at["main"] = 5
      <4>1. Len(program["main"]) = 4
        BY <2>1, <2>9, MainEnds
      <4>2. at["main"] \in 1 .. 5
        BY <2>9 DEF WaitForInv
      <4> QED
        BY <4>1, <4>2
    <3>2. got["main"] = <<"value">> /\ got["t1"] = <<>> /\ got["t2"] = <<>>
      BY <2>9, <3>1 DEF WaitForInv
    <3> QED
      BY <2>1, <2>9, <3>2 DEF F!Shows
  <2>10. CASE program = F!async /\ AsyncInv
    <3>1. at["main"] = 4
      <4>1. Len(program["main"]) = 3
        BY <2>1, <2>10, MainEnds
      <4>2. at["main"] \in 1 .. 4
        BY <2>10 DEF AsyncInv
      <4> QED
        BY <4>1, <4>2
    <3>2. got["main"] = <<"value">> /\ got["t1"] = <<>> /\ got["t2"] = <<>>
      BY <2>10, <3>1 DEF AsyncInv
    <3> QED
      BY <2>1, <2>10, <3>2 DEF F!Shows
  <2> QED
    BY <2>2, <2>3, <2>4, <2>5, <2>6, <2>7, <2>8, <2>9, <2>10 DEF ProgramInv
<1> QED
  BY <1>1, FutureInvHolds, PTL

\* OnlyTheRaceFails: a thread that takes the value of shared_future_fail.cpp second ends the
\* program, so that main() never joins both; the exception of a task reaches main() and nobody else.
THEOREM OthersDoNotFail == Spec => []OnlyTheRaceFails
<1>1. FutureInv => OnlyTheRaceFails
  <2> SUFFICES ASSUME ProgramInv PROVE F!OnlyTheRaceFails
    BY DEF FutureInv, OnlyTheRaceFails
  <2>1. Pushes \in Nat
    BY WorkAssumption DEF WorkAssumption, F!FutureAssumption
  <2>2. CASE /\ program \in {F!promise_future_basic, F!set_exception, F!shared_future,
                             F!wait_cpp, F!wait_for_cpp, F!async}
             /\ BasicInv \/ ExceptionInv \/ SharedInv \/ PushedInv \/ WaitForInv \/ AsyncInv
    <3>1. program \notin {F!packaged_task, F!async_demo, F!shared_future_fail}
      BY <2>1, <2>2, Different
    <3>2. terminated = "none"
      BY <2>2 DEF BasicInv, ExceptionInv, SharedInv, PushedInv, WaitForInv, AsyncInv
    <3> QED
      BY <3>1, <3>2 DEF F!OnlyTheRaceFails
  <2>3. CASE program = F!shared_future_fail /\ RaceInv
    <3>1. ~F!Ended("main")
      <4>1. Len(program["main"]) = 6
        BY <2>1, <2>3, MainEnds
      <4>2. at["main"] \in 1 .. 5
        BY <2>3 DEF RaceInv
      <4> QED
        BY <4>1, <4>2 DEF F!Ended
    <3>2. program \notin {F!packaged_task, F!async_demo}
      BY <2>1, <2>3, Different
    <3> QED
      BY <2>3, <3>1, <3>2 DEF F!OnlyTheRaceFails
  <2>4. CASE program \in {F!packaged_task, F!async_demo} /\ TaskInv
    <3>1. program # F!shared_future_fail
      BY <2>1, <2>4, Different
    <3>2. result = "exception" => ~F!Ended("main")
      <4>1. Len(program["main"]) \in 2 .. 3
        BY <2>1, <2>4, MainEnds
      <4>2. at["main"] \in 1 .. 4 /\ (at["main"] >= 3 => result = "value")
        BY <2>4 DEF TaskInv
      <4>3. F!Ended("main") => result = "value"
        BY <4>1, <4>2 DEF F!Ended
      <4> QED
        BY <4>3
    <3>3. terminated = "main" <=> "exception" \in {got["main"][k] : k \in 1 .. Len(got["main"])}
      <4>1. \/ terminated = "main" /\ got["main"] = <<"exception">>
            \/ terminated = "none" /\ got["main"] = <<>>
            \/ terminated = "none" /\ got["main"] = <<"value">>
        BY <2>4 DEF TaskInv
      <4> QED
        BY <4>1
    <3>4. terminated \in {"none", "main"}
      BY <2>4 DEF TaskInv
    <3> QED
      BY <2>4, <3>1, <3>2, <3>3, <3>4 DEF F!OnlyTheRaceFails
  <2> QED
    BY <2>2, <2>3, <2>4 DEF ProgramInv
<1> QED
  BY <1>1, FutureInvHolds, PTL

=============================================================================
