-------------------------- MODULE AtomicityProofs --------------------------
(***************************************************************************)
(* Machine-checked proofs about                                            *)
(*   - LockedSwap, for every set of threads, objects and data and every    *)
(*     number of calls: the two mutexes are owned where the code relies on *)
(*     it, swap() is atomic, and no datum is lost;                         *)
(*   - MemoryModes, for every number of times that the stores may get: the *)
(*     asserts that memory_modes.cpp says cannot fail do not, because of   *)
(*     what a message passes on to the thread that reads it, and the loop  *)
(*     of compare_exchange.cpp leaves alone what it has found.             *)
(* The two share no variable.                                              *)
(***************************************************************************)
EXTENDS LockedSwap, MemoryModes, WellFoundedInduction, TLAPS

-------------------------------------------------------------------------
(* LockedSwap: the inductive invariant.                                    *)

\* Guarded, with the CASE of Holds spelled out.
Owners ==
  \A t \in Threads, o \in Objects :
    mutex[o] = t <=> \/ pc[t] = "try" /\ o = one[t]
                     \/ pc[t] \in Both /\ o \in {lhs[t], rhs[t]}
                     \/ pc[t] = "unlock_other" /\ o = one[t]

\* What the three moves of the swap leave behind them.
Moved ==
  \A t \in Threads :
    /\ pc[t] = "copy" => tmp[t] = data[lhs[t]]
    /\ pc[t] = "restore" => tmp[t] \in Data /\ data[lhs[t]] = data[rhs[t]]

SwapInv == TypeOK /\ Owners /\ Moved

-------------------------------------------------------------------------
(* LockedSwap: the invariant is inductive.                                 *)

\* Two threads that both have both mutexes swap different objects.
LEMMA SwapsApart ==
  ASSUME SwapInv, NEW t \in Threads, NEW u \in Threads, t # u,
         pc[t] \in Both, pc[u] \in Both
  PROVE  /\ lhs[t] \in Objects /\ rhs[t] \in Objects /\ lhs[t] # rhs[t]
         /\ lhs[t] \notin {lhs[u], rhs[u]} /\ rhs[t] \notin {lhs[u], rhs[u]}
  BY DEF SwapInv, TypeOK, Owners, Both

\* Steps that call, lock and unlock.
LEMMA LockStep ==
  ASSUME SwapInv, NEW t \in Threads,
         \/ \E a, b \in Objects : swap_same(t, a, b) \/ swap(t, a, b)
         \/ lock(t) \/ try_lock(t) \/ back_off(t) \/ unlock(t) \/ unlock_other(t)
  PROVE  SwapInv'
<1> USE SwapAssumption DEF SwapInv, Go, PCs
<1>1. CASE \E a, b \in Objects : swap_same(t, a, b)
  BY <1>1 DEF swap_same, TypeOK, Owners, Moved
<1>2. CASE \E a, b \in Objects : swap(t, a, b)
  <2> PICK a \in Objects, b \in Objects : swap(t, a, b)
    BY <1>2
  <2>1. /\ a # b /\ pc[t] = "idle" /\ calls[t] < MaxCalls
        /\ pc' = [pc EXCEPT ![t] = "lock"] /\ calls' = [calls EXCEPT ![t] = @ + 1]
        /\ lhs' = [lhs EXCEPT ![t] = a] /\ rhs' = [rhs EXCEPT ![t] = b]
        /\ one' = [one EXCEPT ![t] = a] /\ UNCHANGED <<mutex, data, tmp>>
    BY DEF swap
  <2>2. TypeOK'
    BY <2>1 DEF TypeOK
  <2>3. Owners' /\ Moved'
    BY <2>1 DEF TypeOK, Owners, Moved, Both
  <2> QED
    BY <2>2, <2>3
<1>3. CASE lock(t)
  <2>1. PICK o \in {lhs[t], rhs[t]} :
          /\ mutex[o] = NoThread /\ o \in Objects
          /\ mutex' = [mutex EXCEPT ![o] = t] /\ one' = [one EXCEPT ![t] = o]
    BY <1>3 DEF lock, TypeOK
  <2>2. TypeOK'
    BY <1>3, <2>1 DEF lock, TypeOK
  <2>3. Owners'
    BY <1>3, <2>1 DEF lock, TypeOK, Owners, Both
  <2>4. Moved'
    BY <1>3 DEF lock, TypeOK, Moved
  <2> QED
    BY <2>2, <2>3, <2>4
<1>4. CASE try_lock(t)
  <2>1. /\ other(t) \in Objects
        /\ \A o \in Objects : o \in {lhs[t], rhs[t]} <=> o = one[t] \/ o = other(t)
    BY <1>4 DEF try_lock, TypeOK, other
  <2>2. TypeOK'
    BY <1>4, <2>1 DEF try_lock, TypeOK
  <2>3. Owners'
    BY <1>4, <2>1 DEF try_lock, TypeOK, Owners, Both
  <2>4. Moved'
    BY <1>4 DEF try_lock, TypeOK, Moved
  <2> QED
    BY <2>2, <2>3, <2>4
<1>5. CASE back_off(t)
  <2>1. one[t] \in Objects
    BY <1>5 DEF back_off, TypeOK
  <2>2. TypeOK' /\ Moved'
    BY <1>5, <2>1 DEF back_off, TypeOK, Moved
  <2>3. Owners'
    BY <1>5, <2>1 DEF back_off, TypeOK, Owners, Both
  <2> QED
    BY <2>2, <2>3
<1>6. CASE unlock(t)
  <2>1. PICK o, p \in {lhs[t], rhs[t]} :
          /\ o # p /\ o \in Objects /\ p \in Objects
          /\ mutex' = [mutex EXCEPT ![o] = NoThread] /\ one' = [one EXCEPT ![t] = p]
    BY <1>6 DEF unlock, TypeOK
  <2>2. TypeOK' /\ Moved'
    BY <1>6, <2>1 DEF unlock, TypeOK, Moved
  <2>3. Owners'
    BY <1>6, <2>1 DEF unlock, TypeOK, Owners, Both
  <2> QED
    BY <2>2, <2>3
<1>7. CASE unlock_other(t)
  <2>1. TypeOK'
    BY <1>7 DEF unlock_other, TypeOK
  <2>2. Moved'
    BY <1>7 DEF unlock_other, TypeOK, Moved
  <2>3. Owners'
    BY <1>7 DEF unlock_other, TypeOK, Owners, Both
  <2> QED
    BY <2>1, <2>2, <2>3
<1> QED
  BY <1>1, <1>2, <1>3, <1>4, <1>5, <1>6, <1>7

\* Steps that move the data.
LEMMA MoveStep ==
  ASSUME SwapInv, NEW t \in Threads, save(t) \/ copy(t) \/ restore(t)
  PROVE  SwapInv'
<1> USE DEF SwapInv, Go, PCs
<1>1. lhs[t] \in Objects /\ rhs[t] \in Objects /\ lhs[t] # rhs[t]
  BY DEF save, copy, restore, TypeOK
<1>2. \A u \in Threads : u # t /\ pc[u] \in Both => lhs[t] \notin {lhs[u], rhs[u]}
                                                 /\ rhs[t] \notin {lhs[u], rhs[u]}
  BY SwapsApart DEF save, copy, restore, Both
<1>3. CASE save(t)
  <2>1. TypeOK' /\ Owners'
    BY <1>1, <1>3 DEF save, TypeOK, Owners, Both
  <2>2. Moved'
    BY <1>1, <1>3 DEF save, TypeOK, Moved
  <2> QED
    BY <2>1, <2>2
<1>4. CASE copy(t)
  <2>1. TypeOK' /\ Owners'
    BY <1>1, <1>4 DEF copy, TypeOK, Owners, Both
  <2>2. Moved'
    BY <1>1, <1>2, <1>4 DEF copy, TypeOK, Moved, Both
  <2> QED
    BY <2>1, <2>2
<1>5. CASE restore(t)
  <2>1. TypeOK' /\ Owners'
    BY <1>1, <1>5 DEF restore, TypeOK, Owners, Moved, Both
  <2>2. Moved'
    BY <1>1, <1>2, <1>5 DEF restore, TypeOK, Moved, Both
  <2> QED
    BY <2>1, <2>2
<1> QED
  BY <1>3, <1>4, <1>5

\* The inductive invariant holds in every reachable state.
THEOREM SwapInvariantHolds == Spec => []SwapInv
<1>1. Init => SwapInv
  BY SwapAssumption DEF Init, SwapInv, TypeOK, Owners, Moved, PCs, Both
<1>2. SwapInv /\ [Next]_vars => SwapInv'
  <2> SUFFICES ASSUME SwapInv, [Next]_vars PROVE SwapInv'
    OBVIOUS
  <2>1. CASE UNCHANGED vars
    BY <2>1 DEF vars, SwapInv, TypeOK, Owners, Moved
  <2>2. ASSUME NEW t \in Threads, Step(t) PROVE SwapInv'
    BY <2>2, LockStep, MoveStep DEF Step, Inside
  <2> QED
    BY <2>1, <2>2 DEF Next, Finished
<1> QED
  BY <1>1, <1>2, PTL DEF Spec

-------------------------------------------------------------------------
(* LockedSwap: what follows from it.                                       *)

\* Every variable keeps its type.
THEOREM TypeCorrect == Spec => []TypeOK
  BY SwapInvariantHolds, PTL DEF SwapInv

\* A thread owns exactly the mutexes that its place in swap() says, for every number of threads
\* and objects.
THEOREM MutexesOwned == Spec => []Guarded
<1>1. SwapInv => Guarded
  BY DEF SwapInv, TypeOK, PCs, Owners, Guarded, Holds, Both
<1> QED
  BY <1>1, SwapInvariantHolds, PTL

\* While t is about to restore, tmp holds what the object on its left was before.
LEMMA SettledIs ==
  ASSUME SwapInv
  PROVE  /\ Settled \in [Objects -> Data]
         /\ \A t \in Threads, o \in Objects : Overwritten(t, o) => Settled[o] = tmp[t]
         /\ \A o \in Objects : (\A t \in Threads : ~Overwritten(t, o)) => Settled[o] = data[o]
<1>1. \A t, u \in Threads, o \in Objects : Overwritten(t, o) /\ Overwritten(u, o) => t = u
  BY SwapsApart DEF Overwritten, Both
<1>2. \A t \in Threads, o \in Objects :
        Overwritten(t, o) => (CHOOSE u \in Threads : Overwritten(u, o)) = t
  BY <1>1
<1>3. \A t \in Threads, o \in Objects : Overwritten(t, o) => tmp[t] \in Data
  BY DEF SwapInv, Moved, Overwritten
<1> QED
  BY <1>2, <1>3 DEF Settled, SwapInv, TypeOK

\* The same after a step.
LEMMA SettledIsNext ==
  ASSUME SwapInv'
  PROVE  /\ Settled' \in [Objects -> Data]
         /\ \A t \in Threads, o \in Objects : Overwritten(t, o)' => Settled'[o] = tmp'[t]
         /\ \A o \in Objects : (\A t \in Threads : ~Overwritten(t, o)') => Settled'[o] = data'[o]
<1>0. \A t, u \in Threads :
        t # u /\ pc'[t] \in Both /\ pc'[u] \in Both => lhs'[t] # lhs'[u]
  BY DEF SwapInv, TypeOK, Owners, Both
<1>1. \A t, u \in Threads, o \in Objects : Overwritten(t, o)' /\ Overwritten(u, o)' => t = u
  BY <1>0 DEF Overwritten, Both
<1>2. \A t \in Threads, o \in Objects :
        Overwritten(t, o)' => (CHOOSE u \in Threads : Overwritten(u, o)') = t
  BY <1>1
<1>3. \A t \in Threads, o \in Objects : Overwritten(t, o)' => tmp'[t] \in Data
  BY DEF SwapInv, Moved, Overwritten
<1> QED
  BY <1>2, <1>3 DEF Settled, SwapInv, TypeOK

\* The last move is the instant of the swap; every other step leaves the settled data alone.
LEMMA SwapsAtOnce ==
  ASSUME SwapInv, SwapInv', NEW t \in Threads, Step(t)
  PROVE  \/ Settled' = Settled
         \/ \E a, b \in Objects :
              Settled' = [Settled EXCEPT ![a] = Settled[b], ![b] = Settled[a]]
<1> USE DEF Go
<1>1. CASE restore(t)
  <2>1. /\ lhs[t] \in Objects /\ rhs[t] \in Objects /\ lhs[t] # rhs[t] /\ pc[t] = "restore"
        /\ \A u \in Threads \ {t} : pc[u] \in Both =>
             lhs[t] \notin {lhs[u], rhs[u]} /\ rhs[t] \notin {lhs[u], rhs[u]}
        /\ pc' = [pc EXCEPT ![t] = "unlock"] /\ data' = [data EXCEPT ![rhs[t]] = tmp[t]]
        /\ UNCHANGED <<lhs, rhs, tmp>>
        /\ data[lhs[t]] = data[rhs[t]]
    BY <1>1, SwapsApart DEF restore, SwapInv, TypeOK, Moved, Both
  <2>2. /\ Settled[lhs[t]] = tmp[t]
        /\ Settled[rhs[t]] = data[rhs[t]]
    BY <2>1, SettledIs DEF Overwritten, Both
  <2>3. /\ Settled'[lhs[t]] = data[lhs[t]]
        /\ Settled'[rhs[t]] = tmp[t]
    BY <2>1, SettledIsNext DEF Overwritten, Both, SwapInv, TypeOK
  <2>4. ASSUME NEW o \in Objects \ {lhs[t], rhs[t]} PROVE Settled'[o] = Settled[o]
    <3>1. \A u \in Threads : Overwritten(u, o)' <=> Overwritten(u, o)
      BY <2>1 DEF Overwritten, SwapInv, TypeOK
    <3> QED
      BY <2>1, <3>1, SettledIs, SettledIsNext DEF SwapInv, TypeOK
  <2>5. Settled' = [Settled EXCEPT ![lhs[t]] = Settled[rhs[t]], ![rhs[t]] = Settled[lhs[t]]]
    BY <2>1, <2>2, <2>3, <2>4, SettledIs, SettledIsNext
  <2> QED
    BY <2>1, <2>5
<1>2. CASE copy(t)
  <2>1. /\ lhs[t] \in Objects /\ lhs[t] # rhs[t] /\ pc[t] = "copy" /\ tmp[t] = data[lhs[t]]
        /\ \A u \in Threads \ {t} : pc[u] \in Both => lhs[t] # lhs[u]
        /\ pc' = [pc EXCEPT ![t] = "restore"] /\ data' = [data EXCEPT ![lhs[t]] = data[rhs[t]]]
        /\ UNCHANGED <<lhs, rhs, tmp>>
    BY <1>2, SwapsApart DEF copy, SwapInv, TypeOK, Moved, Both
  <2>2. Settled'[lhs[t]] = Settled[lhs[t]]
    BY <2>1, SettledIs, SettledIsNext DEF Overwritten, Both, SwapInv, TypeOK
  <2>3. ASSUME NEW o \in Objects \ {lhs[t]} PROVE Settled'[o] = Settled[o]
    <3>1. \A u \in Threads : Overwritten(u, o)' <=> Overwritten(u, o)
      BY <2>1 DEF Overwritten, SwapInv, TypeOK
    <3> QED
      BY <2>1, <3>1, SettledIs, SettledIsNext DEF SwapInv, TypeOK
  <2> QED
    BY <2>2, <2>3, SettledIs, SettledIsNext
<1>3. CASE ~restore(t) /\ ~copy(t)
  <2>1. data' = data /\ \A u \in Threads, o \in Objects :
          /\ Overwritten(u, o)' <=> Overwritten(u, o)
          /\ Overwritten(u, o) => tmp'[u] = tmp[u]
    <3>1. CASE \E a, b \in Objects : swap_same(t, a, b) \/ swap(t, a, b)
      BY <3>1 DEF swap_same, swap, Overwritten, SwapInv, TypeOK
    <3>2. CASE lock(t) \/ try_lock(t) \/ back_off(t) \/ save(t) \/ unlock(t)
      BY <3>2 DEF lock, try_lock, back_off, save, unlock, Overwritten, SwapInv, TypeOK
    <3>3. CASE unlock_other(t)
      BY <3>3 DEF unlock_other, Overwritten, SwapInv, TypeOK
    <3> QED
      BY <1>3, <3>1, <3>2, <3>3 DEF Step, Inside
  <2>2. \A o \in Objects : Settled'[o] = Settled[o]
    BY <2>1, SettledIs, SettledIsNext
  <2> QED
    BY <2>2, SettledIs, SettledIsNext
<1> QED
  BY <1>1, <1>2, <1>3

\* swap() is atomic: every step is one of the abstract specification, or invisible to it.
THEOREM SwapRefines == Spec => SwapIsAtomic
<1>1. Init => A!Init
  <2> SUFFICES ASSUME Init PROVE A!Init
    OBVIOUS
  <2>1. Settled = data
    BY DEF Init, Settled, Overwritten
  <2> QED
    BY <2>1 DEF Init, A!Init, IsInjective, A!IsInjective
<1>2. SwapInv /\ SwapInv' /\ [Next]_vars => [A!Next]_Settled
  <2> SUFFICES ASSUME SwapInv, SwapInv', [Next]_vars PROVE [A!Next]_Settled
    OBVIOUS
  <2>1. CASE UNCHANGED vars
    BY <2>1 DEF vars, Settled, Overwritten
  <2>2. ASSUME NEW t \in Threads, Step(t) PROVE [A!Next]_Settled
    BY <2>2, SwapsAtOnce DEF A!Next, A!swap
  <2> QED
    BY <2>1, <2>2 DEF Next, Finished
<1> QED
  BY <1>1, <1>2, SwapInvariantHolds, PTL DEF Spec, SwapIsAtomic, A!Spec

\* Exchanging two values of an injective function leaves it injective.
LEMMA SwapKeepsInjective ==
  ASSUME NEW f \in [Objects -> Data], IsInjective(f), NEW a \in Objects, NEW b \in Objects
  PROVE  IsInjective([f EXCEPT ![a] = f[b], ![b] = f[a]])
  BY DEF IsInjective

\* NothingLost: however many swaps overlap, each datum is settled in one object.
THEOREM DataConserved == Spec => []NothingLost
<1>1. Init => NothingLost
  <2> SUFFICES ASSUME Init PROVE NothingLost
    OBVIOUS
  <2>1. Settled = data
    BY DEF Init, Settled, Overwritten
  <2> QED
    BY <2>1 DEF Init, NothingLost
<1>2. SwapInv /\ SwapInv' /\ NothingLost /\ [Next]_vars => NothingLost'
  <2> SUFFICES ASSUME SwapInv, SwapInv', NothingLost, [Next]_vars PROVE NothingLost'
    OBVIOUS
  <2>1. CASE UNCHANGED vars
    BY <2>1 DEF vars, Settled, Overwritten, NothingLost
  <2>2. ASSUME NEW t \in Threads, Step(t) PROVE NothingLost'
    BY <2>2, SwapsAtOnce, SwapKeepsInjective, SettledIs DEF NothingLost
  <2> QED
    BY <2>1, <2>2 DEF Next, Finished
<1> QED
  BY <1>1, <1>2, SwapInvariantHolds, PTL DEF Spec

-------------------------------------------------------------------------
(* MemoryModes: the memory, and what the programs keep in it.              *)

\* There is a message at every location that is as late as v says.
KnownIn(mem, v) == \A l \in Locations : \E n \in mem : n.loc = l /\ v[l] <= n.time

\* What the threads have seen, and what the messages pass on, is there.
MemoryInv ==
  /\ \A m \in memory :
       /\ m.loc \in Locations /\ m.time \in 0 .. MaxTime
       /\ m.seen \in [Locations -> Nat] /\ m.seen[m.loc] >= m.time
       /\ KnownIn(memory, m.seen)
  /\ view \in [ScriptThreads -> [Locations -> Nat]]
  /\ \A t \in ScriptThreads : KnownIn(memory, view[t])

\* The types of what the threads have to themselves.
ThreadTypeOK ==
  /\ at \in [ScriptThreads -> Nat \ {0}]
  /\ DOMAIN view = ScriptThreads /\ DOMAIN loaded = ScriptThreads

\* Thread 1 stores Y at y and then X at x; thread 2 finds Y at y when it has found X at x.
PassingInv(X, Y) ==
  /\ failed = {} /\ mode # "relaxed"
  /\ \A m \in memory : m.loc = "y" /\ m.time >= 1 => m.val = Y
  /\ \A m \in memory : m.loc = "x" /\ m.val = X => m.seen["y"] >= 1
  /\ at[1] >= 2 => view[1]["y"] >= 1
  /\ at[2] = 2 => view[2]["y"] >= 1

\* The same of the summary, and what thread 2 has seen is passed on to thread 3.
SummaryInv ==
  /\ failed = {} /\ mode # "relaxed"
  /\ \A m \in memory : m.loc = "x" => m.val = IF m.time = 0 THEN 0 ELSE 10
  /\ \A m \in memory : m.loc = "x" /\ m.time >= 1 => m.seen["y"] >= 1
  /\ \A m \in memory : m.loc = "y" /\ m.time = 0 => m.val = 0
  /\ \A m \in memory : m.loc = "y" /\ m.time >= 1 => m.val = 20 \/ (m.val = 10 /\ at[2] = 4)
  /\ \A m \in memory : m.loc = "y" /\ m.val = 10 => m.seen["x"] >= 1
  /\ at[1] >= 2 => view[1]["y"] >= 1
  /\ at[2] \in {2, 3} => view[2]["x"] >= 1 /\ view[2]["y"] >= 1
  /\ at[3] = 2 => view[3]["x"] >= 1

\* The values at x grow with their times, and thread 2 goes on in time.
CoherenceInv ==
  /\ failed = {} /\ mode = "relaxed"
  /\ \A m \in memory : m.loc = "x" => m.time <= view[1]["x"] /\ m.val \in Nat /\ m.val < at[1]
  /\ \A m, n \in memory : m.loc = "x" /\ n.loc = "x" /\ m.time <= n.time => m.val <= n.val
  /\ at[2] = 1 => loaded[2] = <<>>
  /\ at[2] = 2 => \E m \in memory : /\ m.loc = "x" /\ m.time <= view[2]["x"]
                                    /\ loaded[2] = <<m.val>>
  /\ at[2] >= 3 => loaded[2][1] <= loaded[2][2]

\* The loop of compare_exchange.cpp ends when it has found true.
ExchangeInv == loaded[1] = << 1 >> => at[1] = 2

\* The inductive invariant of the programs that assert what holds.
AtomicsInv ==
  /\ program = publish => ThreadTypeOK /\ MemoryInv /\ PassingInv(2, 1)
  /\ program = release => ThreadTypeOK /\ MemoryInv /\ PassingInv(10, 20)
  /\ program = summary /\ mode # "relaxed" => ThreadTypeOK /\ MemoryInv /\ SummaryInv
  /\ program = coherence => ThreadTypeOK /\ MemoryInv /\ CoherenceInv
  /\ program = compare_exchange => ThreadTypeOK /\ ExchangeInv


-------------------------------------------------------------------------
(* The memory: what a load and a store do.                                 *)

\* A set of times has a greatest one.
LEMMA GreatestExists ==
  ASSUME NEW N \in Nat, NEW T \in SUBSET (0 .. N), T # {}
  PROVE  \E g \in T : \A k \in T : k <= g
<1> DEFINE D == {d \in 0 .. N : N - d \in T}
<1>1. D \in SUBSET Nat /\ D # {}
  <2>1. PICK k \in T : k \in 0 .. N
    OBVIOUS
  <2>2. N - k \in 0 .. N /\ N - (N - k) = k
    BY <2>1
  <2>3. N - k \in D
    BY <2>1, <2>2
  <2>4. D \in SUBSET Nat
    OBVIOUS
  <2> QED
    BY <2>3, <2>4
<1>2. PICK d \in D : \A e \in D : ~(<<e, d>> \in OpToRel(<, Nat))
  BY <1>1, NatLessThanWellFounded, WFMin
<1>3. \A e \in D : ~(e < d)
  BY <1>1, <1>2 DEF OpToRel
<1>4. \A k \in T : N - k \in D /\ k \in 0 .. N
  OBVIOUS
<1>5. N - d \in T /\ d \in 0 .. N
  OBVIOUS
<1>6. \A k \in T : k <= N - d
  BY <1>3, <1>4, <1>5
<1> QED
  BY <1>5, <1>6

\* The last message of a location is there, and is the last.
LEMMA LastIs ==
  ASSUME MaxTime \in Nat, MemoryInv, NEW loc \in Locations
  PROVE  /\ Last(loc) \in memory /\ Last(loc).loc = loc
         /\ \A n \in memory : n.loc = loc => n.time <= Last(loc).time
<1> DEFINE T == {n.time : n \in Messages(loc)}
<1>1. T \in SUBSET (0 .. MaxTime)
  BY DEF Messages, MemoryInv
<1>2. T # {}
  <2>1. KnownIn(memory, view[1])
    BY DEF MemoryInv, ScriptThreads
  <2> QED
    BY <2>1 DEF KnownIn, Messages
<1>3. PICK g \in T : \A k \in T : k <= g
  BY <1>1, <1>2, GreatestExists
<1>4. \E m \in Messages(loc) : \A n \in Messages(loc) : n.time <= m.time
  BY <1>3
<1>5. /\ Last(loc) \in Messages(loc)
      /\ \A n \in Messages(loc) : n.time <= Last(loc).time
  BY <1>4 DEF Last
<1> QED
  BY <1>5 DEF Messages

\* No thread reads what is older than what it has seen, in any mode.
LEMMA ReadIs ==
  ASSUME MaxTime \in Nat, MemoryInv, NEW t \in ScriptThreads, NEW loc \in Locations,
         NEW how, NEW m \in Readable(t, loc, how)
  PROVE  m \in memory /\ m.loc = loc /\ m.time >= view[t][loc]
<1>1. CASE how = "seq_cst"
  <2>1. m = Last(loc)
    BY <1>1 DEF Readable
  <2>2. PICK n \in memory : n.loc = loc /\ view[t][loc] <= n.time
    BY DEF MemoryInv, KnownIn
  <2>3. n.time <= m.time /\ m \in memory /\ m.loc = loc
    BY <2>1, <2>2, LastIs
  <2>4. n.time \in Nat /\ m.time \in Nat /\ view[t][loc] \in Nat
    BY <2>3 DEF MemoryInv
  <2> QED
    BY <2>2, <2>3, <2>4
<1>2. CASE how # "seq_cst"
  BY <1>2 DEF Readable, Messages
<1> QED
  BY <1>1, <1>2

\* A thread forgets nothing when it reads, and is told what the message passes on.
LEMMA SeenIs ==
  ASSUME MaxTime \in Nat, MemoryInv, NEW t \in ScriptThreads, NEW m \in memory, NEW how
  PROVE  /\ Seen(t, m, how) \in [Locations -> Nat]
         /\ KnownIn(memory, Seen(t, m, how))
         /\ \A l \in Locations :
              /\ Seen(t, m, how)[l] >= view[t][l]
              /\ how # "relaxed" => Seen(t, m, how)[l] >= m.seen[l]
         /\ Seen(t, m, how)[m.loc] >= m.time
<1> DEFINE told == IF how = "relaxed" THEN [Nothing EXCEPT ![m.loc] = m.time] ELSE m.seen
           v == Seen(t, m, how)
<1>1. /\ m.loc \in Locations /\ m.time \in Nat /\ m.seen \in [Locations -> Nat]
      /\ m.seen[m.loc] >= m.time /\ KnownIn(memory, m.seen)
      /\ view[t] \in [Locations -> Nat] /\ KnownIn(memory, view[t])
  BY DEF MemoryInv
<1>2. /\ told \in [Locations -> Nat] /\ told[m.loc] >= m.time
      /\ how # "relaxed" => told = m.seen
  BY <1>1 DEF Nothing
<1>3. KnownIn(memory, told)
  <2>1. CASE how = "relaxed"
    <3> SUFFICES ASSUME NEW l \in Locations
                 PROVE  \E n \in memory : n.loc = l /\ told[l] <= n.time
      BY DEF KnownIn
    <3>1. PICK n \in memory : n.loc = l /\ view[t][l] <= n.time
      BY <1>1 DEF KnownIn
    <3>2. n.time \in Nat
      BY DEF MemoryInv
    <3>3. told[l] = IF l = m.loc THEN m.time ELSE 0
      BY <2>1, <1>1 DEF Nothing
    <3> QED
      BY <1>1, <3>1, <3>2, <3>3
  <2> QED
    BY <1>1, <1>2, <2>1
<1>4. v = [l \in Locations |-> IF view[t][l] > told[l] THEN view[t][l] ELSE told[l]]
  BY DEF Seen, Join
<1> HIDE DEF told, v
<1>5. v \in [Locations -> Nat] /\ \A l \in Locations : v[l] \in {view[t][l], told[l]}
  BY <1>1, <1>2, <1>4
<1>6. \A l \in Locations : v[l] >= view[t][l] /\ v[l] >= told[l]
  BY <1>1, <1>2, <1>4
<1>7. KnownIn(memory, v)
  BY <1>1, <1>3, <1>5 DEF KnownIn
<1>8. v[m.loc] >= m.time
  <2>1. v[m.loc] \in Nat /\ told[m.loc] \in Nat
    BY <1>1, <1>2, <1>5
  <2> QED
    BY <1>1, <1>2, <1>6, <2>1
<1> QED
  BY <1>2, <1>5, <1>6, <1>7, <1>8 DEF v

\* What a load does to the memory and to the views.
LEMMA LookKeeps ==
  ASSUME MaxTime \in Nat, MemoryInv, NEW t \in ScriptThreads, NEW m \in memory, NEW how,
         Looks(t, m, how), memory' = memory
  PROVE  /\ MemoryInv'
         /\ view'[t] = Seen(t, m, how)
         /\ \A u \in ScriptThreads : u # t => view'[u] = view[u]
<1>1. view' = [view EXCEPT ![t] = Seen(t, m, how)]
  BY DEF Looks
<1>2. /\ view'[t] = Seen(t, m, how)
      /\ \A u \in ScriptThreads : u # t => view'[u] = view[u]
      /\ view' \in [ScriptThreads -> [Locations -> Nat]]
  BY <1>1, SeenIs DEF MemoryInv
<1>3. \A v : KnownIn(memory, v) => KnownIn(memory', v)
  BY DEF KnownIn
<1>4. \A u \in ScriptThreads : KnownIn(memory, view'[u])
  BY <1>2, SeenIs DEF MemoryInv
<1>5. \A u \in ScriptThreads : KnownIn(memory', view'[u])
  BY <1>4 DEF KnownIn
<1>6. \A n \in memory' : /\ n.loc \in Locations /\ n.time \in 0 .. MaxTime
                         /\ n.seen \in [Locations -> Nat] /\ n.seen[n.loc] >= n.time
                         /\ KnownIn(memory', n.seen)
  BY DEF MemoryInv, KnownIn
<1> QED
  BY <1>2, <1>5, <1>6 DEF MemoryInv

\* The message that a store of val at loc leaves.
Leaves(t, loc, val, how, time, seen) ==
  /\ memory' = memory \cup {Message(loc, time, val, seen)}
  /\ how # "seq_cst" => time > view[t][loc]
  /\ how # "relaxed" => \A l \in Locations \ {loc} : seen[l] = view[t][l]
  /\ view'[t][loc] = time
  /\ \A l \in Locations \ {loc} : view'[t][l] = view[t][l]
  /\ \A u \in ScriptThreads : u # t => view'[u] = view[u]

\* What a store does to the memory and to the views.
LEMMA WriteKeeps ==
  ASSUME MaxTime \in Nat, MemoryInv, NEW t \in ScriptThreads, NEW loc \in Locations,
         NEW val, NEW how, Write(t, loc, val, how)
  PROVE  /\ MemoryInv'
         /\ \E time \in 1 .. MaxTime, seen \in [Locations -> Nat] :
              Leaves(t, loc, val, how, time, seen)
<1>1. PICK time \in FreeTimes(t, loc, how) :
        /\ memory' = memory \cup {Message(loc, time, val, Passed(t, loc, time, how))}
        /\ view' = [view EXCEPT ![t][loc] = time]
  BY DEF Write
<1>2. time \in 1 .. MaxTime /\ (how # "seq_cst" => time > view[t][loc])
  BY DEF FreeTimes
<1> DEFINE seen == Passed(t, loc, time, how)
           new == Message(loc, time, val, seen)
<1>3. view[t] \in [Locations -> Nat] /\ KnownIn(memory, view[t]) /\ time \in Nat
  BY <1>2 DEF MemoryInv
<1>4. /\ seen \in [Locations -> Nat] /\ seen[loc] = time
      /\ how # "relaxed" => \A l \in Locations \ {loc} : seen[l] = view[t][l]
      /\ how = "relaxed" => \A l \in Locations \ {loc} : seen[l] = 0
  BY <1>3 DEF Passed, Nothing
<1>5. new.loc = loc /\ new.time = time /\ new.seen = seen
  BY DEF Message
<1>6. /\ view'[t][loc] = time
      /\ \A l \in Locations \ {loc} : view'[t][l] = view[t][l]
      /\ \A u \in ScriptThreads : u # t => view'[u] = view[u]
      /\ view' \in [ScriptThreads -> [Locations -> Nat]]
  BY <1>1, <1>3 DEF MemoryInv
<1> HIDE DEF seen, new
<1>7. memory' = memory \cup {new}
  BY <1>1 DEF new, seen
<1>8. \A v : KnownIn(memory, v) => KnownIn(memory', v)
  BY <1>7 DEF KnownIn
<1>9. KnownIn(memory', seen)
  <2> SUFFICES ASSUME NEW l \in Locations
               PROVE  \E n \in memory' : n.loc = l /\ seen[l] <= n.time
    BY DEF KnownIn
  <2>1. CASE l = loc
    BY <1>3, <1>4, <1>5, <1>7, <2>1
  <2>2. CASE l # loc
    <3>1. PICK n \in memory : n.loc = l /\ view[t][l] <= n.time
      BY <1>3 DEF KnownIn
    <3>2. n.time \in Nat /\ (seen[l] = view[t][l] \/ seen[l] = 0)
      BY <1>4, <2>2 DEF MemoryInv
    <3> QED
      BY <1>7, <3>1, <3>2
  <2> QED
    BY <2>1, <2>2
<1>10. ASSUME NEW u \in ScriptThreads PROVE KnownIn(memory', view'[u])
  <2>1. CASE u # t
    <3>1. KnownIn(memory, view[u])
      BY DEF MemoryInv
    <3> QED
      BY <1>6, <1>7, <2>1, <3>1 DEF KnownIn
  <2>2. CASE u = t
    <3> SUFFICES ASSUME NEW l \in Locations
                 PROVE  \E n \in memory' : n.loc = l /\ view'[t][l] <= n.time
      BY <2>2 DEF KnownIn
    <3>1. CASE l = loc
      BY <1>3, <1>5, <1>6, <1>7, <3>1
    <3>2. CASE l # loc
      BY <1>3, <1>6, <1>7, <3>2 DEF KnownIn
    <3> QED
      BY <3>1, <3>2
  <2> QED
    BY <2>1, <2>2
<1>11. ASSUME NEW n \in memory'
       PROVE  /\ n.loc \in Locations /\ n.time \in 0 .. MaxTime
              /\ n.seen \in [Locations -> Nat] /\ n.seen[n.loc] >= n.time
              /\ KnownIn(memory', n.seen)
  <2>1. CASE n \in memory
    BY <1>8, <2>1 DEF MemoryInv
  <2>2. CASE n = new
    BY <1>2, <1>3, <1>4, <1>5, <1>9, <2>2
  <2> QED
    BY <1>7, <2>1, <2>2
<1>12. MemoryInv'
  BY <1>6, <1>10, <1>11 DEF MemoryInv
<1>13. Leaves(t, loc, val, how, time, seen)
  BY <1>2, <1>4, <1>6, <1>7 DEF Leaves, new
<1> QED
  BY <1>2, <1>4, <1>12, <1>13

-------------------------------------------------------------------------
(* The statements of a script.                                             *)

\* The step of a thread is that of the statement it has come to.
LEMMA ActionIs ==
  ASSUME NEW t, Executes(t)
  PROVE  /\ failed = {} /\ ~Ended(t) /\ program' = program /\ mode' = mode
         /\ Statement(t)[1] = "store" => store(t)
         /\ Statement(t)[1] = "plain" => plain(t)
         /\ Statement(t)[1] = "load" => load(t)
         /\ Statement(t)[1] = "if" => branch(t)
         /\ Statement(t)[1] \in {"assert", "assert_plain"} => assert(t)
         /\ Statement(t)[1] = "rising" => rising(t)
         /\ Statement(t)[1] = "exchange" => exchange(t) \/ exchange_fails(t)
<1>1. CASE store(t)
  BY <1>1 DEF store, About
<1>2. CASE plain(t)
  BY <1>2 DEF plain, About
<1>3. CASE load(t)
  BY <1>3 DEF load, About
<1>4. CASE branch(t)
  BY <1>4 DEF branch, About
<1>5. CASE assert(t)
  <2>1. PICK how : About(t, IF how = mode THEN "assert" ELSE "assert_plain")
    BY <1>5 DEF assert
  <2>2. Statement(t)[1] \in {"assert", "assert_plain"} /\ failed = {} /\ ~Ended(t)
    BY <2>1 DEF About
  <2> QED
    BY <1>5, <2>2 DEF assert
<1>6. CASE spin(t)
  BY <1>6 DEF spin, About
<1>7. CASE rising(t)
  BY <1>7 DEF rising, About
<1>8. CASE exchange(t) \/ exchange_fails(t)
  BY <1>8 DEF exchange, exchange_fails, About
<1> QED
  BY <1>1, <1>2, <1>3, <1>4, <1>5, <1>6, <1>7, <1>8 DEF Executes

\* A store, atomic or plain, leaves its message.
LEMMA StoreIs ==
  ASSUME MaxTime \in Nat, MemoryInv, NEW t \in ScriptThreads, Executes(t),
         NEW kind \in {"store", "plain"}, NEW loc \in Locations, NEW val,
         Statement(t) = <<kind, loc, val>>
  PROVE  /\ MemoryInv' /\ Done(t) /\ UNCHANGED <<program, mode, loaded, failed>>
         /\ \E time \in 1 .. MaxTime, seen \in [Locations -> Nat] :
              Leaves(t, loc, val, IF kind = "store" THEN mode ELSE "relaxed", time, seen)
<1>1. Statement(t)[1] = kind /\ Statement(t)[2] = loc /\ Statement(t)[3] = val
  OBVIOUS
<1>2. CASE kind = "store"
  <2>1. store(t)
    BY <1>1, <1>2, ActionIs
  <2>2. Write(t, loc, val, mode) /\ Done(t) /\ UNCHANGED <<program, mode, loaded, failed>>
    BY <1>1, <2>1 DEF store
  <2> QED
    BY <1>2, <2>2, WriteKeeps
<1>3. CASE kind = "plain"
  <2>1. plain(t)
    BY <1>1, <1>3, ActionIs
  <2>2. Write(t, loc, val, "relaxed") /\ Done(t) /\ UNCHANGED <<program, mode, loaded, failed>>
    BY <1>1, <2>1 DEF plain
  <2> QED
    BY <1>3, <2>2, WriteKeeps
<1> QED
  BY <1>2, <1>3

\* What t has read and seen when it has found m at loc.
Finds(t, loc, m, how) ==
  /\ m \in memory /\ m.loc = loc /\ m.time >= view[t][loc]
  /\ view'[t][loc] >= m.time
  /\ \A l \in Locations : view'[t][l] >= view[t][l] /\ (how # "relaxed" => view'[t][l] >= m.seen[l])
  /\ \A u \in ScriptThreads : u # t => view'[u] = view[u]

\* A load finds a message.
LEMMA LookFinds ==
  ASSUME MaxTime \in Nat, MemoryInv, NEW t \in ScriptThreads, NEW loc \in Locations, NEW how,
         NEW m \in Readable(t, loc, how), Looks(t, m, how), memory' = memory
  PROVE  MemoryInv' /\ Finds(t, loc, m, how)
<1>1. m \in memory /\ m.loc = loc /\ m.time >= view[t][loc]
  BY ReadIs
<1>2. /\ MemoryInv' /\ view'[t] = Seen(t, m, how)
      /\ \A u \in ScriptThreads : u # t => view'[u] = view[u]
  BY <1>1, LookKeeps
<1> QED
  BY <1>1, <1>2, SeenIs DEF Finds

\* An if goes on when it has found its value, and an assert fails when it has not.
LEMMA TestIs ==
  ASSUME MaxTime \in Nat, MemoryInv, NEW t \in ScriptThreads, Executes(t), mode # "relaxed",
         NEW kind \in {"if", "assert", "assert_plain"}, NEW loc \in Locations, NEW val,
         Statement(t) = <<kind, loc, val>>
  PROVE  /\ MemoryInv' /\ UNCHANGED <<program, mode, memory, loaded>>
         /\ \E m \in memory :
              /\ Finds(t, loc, m, IF kind = "assert_plain" THEN "relaxed" ELSE mode)
              /\ m.val = val => Done(t) /\ UNCHANGED failed
              /\ m.val # val /\ kind = "if" => Leave(t) /\ UNCHANGED failed
<1>1. Statement(t)[1] = kind /\ Statement(t)[2] = loc /\ Statement(t)[3] = val
  OBVIOUS
<1>2. CASE kind = "if"
  <2>1. branch(t)
    BY <1>1, <1>2, ActionIs
  <2>2. UNCHANGED <<program, mode, memory, loaded, failed>>
    BY <2>1 DEF branch
  <2>3. PICK m \in Readable(t, loc, mode) :
          /\ Looks(t, m, mode)
          /\ IF m.val = val THEN Done(t) ELSE Leave(t)
    BY <1>1, <2>1 DEF branch
  <2>4. MemoryInv' /\ Finds(t, loc, m, mode)
    BY <2>2, <2>3, LookFinds
  <2>5. m \in memory
    BY <2>4 DEF Finds
  <2> QED
    BY <1>2, <2>2, <2>3, <2>4, <2>5
<1>3. CASE kind # "if"
  <2>1. assert(t)
    BY <1>1, <1>3, ActionIs
  <2>2. UNCHANGED <<program, mode, memory, loaded>>
    BY <2>1 DEF assert
  <2>3. PICK how \in {mode, "relaxed"} :
          /\ About(t, IF how = mode THEN "assert" ELSE "assert_plain")
          /\ \E m \in Readable(t, Statement(t)[2], how) :
               Looks(t, m, how) /\ Asserts(t, m.val = Statement(t)[3])
    BY <2>1 DEF assert
  <2>4. how = IF kind = "assert_plain" THEN "relaxed" ELSE mode
    BY <1>1, <1>3, <2>3 DEF About
  <2>5. PICK m \in Readable(t, loc, how) : Looks(t, m, how) /\ Asserts(t, m.val = val)
    BY <1>1, <2>3
  <2>6. MemoryInv' /\ Finds(t, loc, m, how)
    BY <2>2, <2>5, LookFinds
  <2>7. m \in memory
    BY <2>6 DEF Finds
  <2>8. m.val = val => Done(t) /\ UNCHANGED failed
    BY <2>5 DEF Asserts
  <2> QED
    BY <1>3, <2>2, <2>4, <2>6, <2>7, <2>8
<1> QED
  BY <1>2, <1>3

\* A load keeps what it has found.
LEMMA LoadIs ==
  ASSUME MaxTime \in Nat, MemoryInv, NEW t \in ScriptThreads, Executes(t),
         NEW loc \in Locations, Statement(t) = <<"load", loc>>
  PROVE  /\ MemoryInv' /\ Done(t) /\ UNCHANGED <<program, mode, memory, failed>>
         /\ \E m \in memory :
              /\ Finds(t, loc, m, mode)
              /\ loaded' = [loaded EXCEPT ![t] = Append(@, m.val)]
<1>1. Statement(t)[1] = "load" /\ Statement(t)[2] = loc
  OBVIOUS
<1>2. load(t)
  BY <1>1, ActionIs
<1>3. Done(t) /\ UNCHANGED <<program, mode, memory, failed>>
  BY <1>2 DEF load
<1>4. PICK m \in Readable(t, loc, mode) :
        Looks(t, m, mode) /\ loaded' = [loaded EXCEPT ![t] = Append(@, m.val)]
  BY <1>1, <1>2 DEF load
<1>5. MemoryInv' /\ Finds(t, loc, m, mode)
  BY <1>3, <1>4, LookFinds
<1>6. m \in memory
  BY <1>5 DEF Finds
<1> QED
  BY <1>3, <1>4, <1>5, <1>6

-------------------------------------------------------------------------
(* One store is passed on: publish and release.                            *)

\* The scripts of publish and release, which differ in their values.
Passing(X, Y) ==
  /\ Script(1) = << <<"plain", "y", Y>>, <<"store", "x", X>> >>
  /\ Script(2) = << <<"if", "x", X>>, <<"assert_plain", "y", Y>> >>
  /\ Script(3) = <<>> /\ Script(4) = <<>>

\* Where the two threads are when they take a step.
LEMMA PassingAt ==
  ASSUME ThreadTypeOK, NEW X, NEW Y, Passing(X, Y), NEW t \in ScriptThreads, ~Ended(t)
  PROVE  \/ t = 1 /\ at[1] = 1 /\ Statement(t) = <<"plain", "y", Y>>
         \/ t = 1 /\ at[1] = 2 /\ Statement(t) = <<"store", "x", X>>
         \/ t = 2 /\ at[2] = 1 /\ Statement(t) = <<"if", "x", X>>
         \/ t = 2 /\ at[2] = 2 /\ Statement(t) = <<"assert_plain", "y", Y>>
<1>1. at[t] \in Nat \ {0} /\ t \in {1, 2, 3, 4}
  BY DEF ThreadTypeOK, ScriptThreads
<1>2. Len(Script(1)) = 2 /\ Len(Script(2)) = 2 /\ Len(Script(3)) = 0 /\ Len(Script(4)) = 0
  BY DEF Passing
<1>3. t \in {1, 2} /\ at[t] \in {1, 2}
  <2>1. Len(Script(t)) = IF t \in {1, 2} THEN 2 ELSE 0
    BY <1>1, <1>2
  <2>2. ~(at[t] > Len(Script(t)))
    BY DEF Ended
  <2> QED
    BY <1>1, <2>1, <2>2
<1>4. /\ Script(1)[1] = <<"plain", "y", Y>> /\ Script(1)[2] = <<"store", "x", X>>
      /\ Script(2)[1] = <<"if", "x", X>> /\ Script(2)[2] = <<"assert_plain", "y", Y>>
  BY DEF Passing
<1> QED
  BY <1>3, <1>4 DEF Statement

\* The threads keep their types.
LEMMA TypesKept ==
  ASSUME ThreadTypeOK, MemoryInv', NEW t \in ScriptThreads, UNCHANGED loaded,
         \/ Done(t)
         \/ Leave(t) /\ Len(Script(t)) \in Nat
  PROVE  ThreadTypeOK'
<1>1. DOMAIN view' = ScriptThreads
  BY DEF MemoryInv
<1> QED
  BY <1>1 DEF ThreadTypeOK, Done, Leave

\* The statement after the last one.
LEMMA LeaveAt ==
  ASSUME NEW t, NEW len \in Nat, Len(Script(t)) = len, Leave(t)
  PROVE  at' = [at EXCEPT ![t] = len + 1]
  BY DEF Leave

\* Every step keeps PassingInv.
LEMMA PassingStep ==
  ASSUME MaxTime \in Nat, ThreadTypeOK, MemoryInv, NEW X \in Nat \ {0}, NEW Y,
         PassingInv(X, Y), Passing(X, Y), NEW t \in ScriptThreads, Executes(t)
  PROVE  (ThreadTypeOK /\ MemoryInv /\ PassingInv(X, Y))'
<1>1. failed = {} /\ ~Ended(t) /\ mode' = mode /\ mode # "relaxed"
  BY ActionIs DEF PassingInv
<1>2. /\ at \in [ScriptThreads -> Nat \ {0}] /\ 1 \in ScriptThreads /\ 2 \in ScriptThreads
      /\ "x" \in Locations /\ "y" \in Locations
  BY DEF ThreadTypeOK, ScriptThreads, Locations
<1>3. \A m \in memory : m.time \in Nat /\ m.seen \in [Locations -> Nat]
  BY DEF MemoryInv
<1>4. CASE t = 1 /\ at[1] = 1 /\ Statement(t) = <<"plain", "y", Y>>
  <2>1. PICK time \in 1 .. MaxTime, seen \in [Locations -> Nat] :
          Leaves(1, "y", Y, "relaxed", time, seen)
    BY <1>2, <1>4, StoreIs
  <2>2. MemoryInv' /\ Done(1) /\ UNCHANGED <<program, mode, loaded, failed>>
    BY <1>2, <1>4, StoreIs
  <2>3. at'[1] = 2 /\ at'[2] = at[2] /\ view'[1]["y"] = time /\ view'[2] = view[2]
    BY <1>2, <1>4, <2>1, <2>2 DEF Done, Leaves
  <2>4. \A m \in memory' : m \in memory \/ (m.loc = "y" /\ m.val = Y)
    BY <2>1 DEF Leaves, Message
  <2>5. PassingInv(X, Y)'
    BY <1>1, <1>2, <2>1, <2>2, <2>3, <2>4 DEF PassingInv
  <2> QED
    BY <1>4, <2>2, <2>5, TypesKept
<1>5. CASE t = 1 /\ at[1] = 2 /\ Statement(t) = <<"store", "x", X>>
  <2>1. PICK time \in 1 .. MaxTime, seen \in [Locations -> Nat] :
          Leaves(1, "x", X, mode, time, seen)
    BY <1>2, <1>5, StoreIs
  <2>2. MemoryInv' /\ Done(1) /\ UNCHANGED <<program, mode, loaded, failed>>
    BY <1>2, <1>5, StoreIs
  <2>3. /\ at'[2] = at[2] /\ view'[2] = view[2]
        /\ view'[1]["y"] = view[1]["y"] /\ seen["y"] = view[1]["y"]
    BY <1>1, <1>2, <1>5, <2>1, <2>2 DEF Done, Leaves
  <2>4. view[1]["y"] >= 1
    BY <1>5 DEF PassingInv
  <2>5. \A m \in memory' : m \in memory \/ (m.loc = "x" /\ m.seen["y"] >= 1)
    BY <2>1, <2>3, <2>4 DEF Leaves, Message
  <2>6. PassingInv(X, Y)'
    BY <1>1, <1>2, <2>2, <2>3, <2>4, <2>5 DEF PassingInv
  <2> QED
    BY <1>5, <2>2, <2>6, TypesKept
<1>6. CASE t = 2 /\ at[2] = 1 /\ Statement(t) = <<"if", "x", X>>
  <2>1. MemoryInv' /\ UNCHANGED <<program, mode, memory, loaded>>
    BY <1>1, <1>2, <1>6, TestIs
  <2>2. PICK m \in memory :
          /\ Finds(2, "x", m, mode)
          /\ m.val = X => Done(2) /\ UNCHANGED failed
          /\ m.val # X => Leave(2) /\ UNCHANGED failed
    BY <1>1, <1>2, <1>6, TestIs
  <2>3. Len(Script(2)) = 2
    BY DEF Passing
  <2>4. view'[1] = view[1] /\ at'[1] = at[1] /\ UNCHANGED failed
    BY <1>2, <2>2 DEF Finds, Done, Leave
  <2>5. m.val = X => view'[2]["y"] >= 1
    <3> SUFFICES ASSUME m.val = X PROVE view'[2]["y"] >= 1
      OBVIOUS
    <3>1. m.seen["y"] >= 1 /\ view'[2]["y"] >= m.seen["y"]
      BY <1>1, <1>2, <2>2 DEF PassingInv, Finds
    <3>2. m.seen["y"] \in Nat /\ view'[2]["y"] \in Nat
      BY <1>2, <1>3, <2>1 DEF MemoryInv
    <3> QED
      BY <3>1, <3>2
  <2>6. m.val # X => at'[2] = 3
    <3>1. m.val # X => at' = [at EXCEPT ![2] = 2 + 1]
      BY <2>2, <2>3, LeaveAt
    <3> QED
      BY <1>2, <3>1
  <2>7. PassingInv(X, Y)'
    BY <1>1, <2>1, <2>4, <2>5, <2>6 DEF PassingInv
  <2>8. ThreadTypeOK'
    BY <1>2, <2>1, <2>2, <2>3, TypesKept
  <2> QED
    BY <2>1, <2>7, <2>8
<1>7. CASE t = 2 /\ at[2] = 2 /\ Statement(t) = <<"assert_plain", "y", Y>>
  <2>1. MemoryInv' /\ UNCHANGED <<program, mode, memory, loaded>>
    BY <1>1, <1>2, <1>7, TestIs
  <2>2. PICK m \in memory :
          Finds(2, "y", m, "relaxed") /\ (m.val = Y => Done(2) /\ UNCHANGED failed)
    BY <1>1, <1>2, <1>7, TestIs
  <2>3. m.val = Y
    <3>1. view[2]["y"] >= 1 /\ m.time >= view[2]["y"] /\ m.loc = "y"
      BY <1>7, <2>2 DEF PassingInv, Finds
    <3>2. view[2]["y"] \in Nat /\ m.time \in Nat
      BY <1>2, <1>3 DEF MemoryInv
    <3> QED
      BY <3>1, <3>2 DEF PassingInv
  <2>4. view'[1] = view[1] /\ at'[1] = at[1] /\ at'[2] = 3 /\ UNCHANGED failed
    BY <1>2, <1>7, <2>2, <2>3 DEF Finds, Done
  <2>5. PassingInv(X, Y)'
    BY <1>1, <2>1, <2>4 DEF PassingInv
  <2>6. ThreadTypeOK'
    BY <1>2, <2>1, <2>2, <2>3, TypesKept
  <2> QED
    BY <2>1, <2>5, <2>6
<1> QED
  BY <1>1, <1>4, <1>5, <1>6, <1>7, PassingAt

-------------------------------------------------------------------------
(* What has been passed on is passed on: the summary.                      *)

\* The scripts of the summary.
LEMMA SummaryScripts ==
  ASSUME program = summary
  PROVE  /\ Script(1) = << <<"store", "y", 20>>, <<"store", "x", 10>> >>
         /\ Script(2) = << <<"if", "x", 10>>, <<"assert", "y", 20>>, <<"store", "y", 10>> >>
         /\ Script(3) = << <<"if", "y", 10>>, <<"assert", "x", 10>> >>
         /\ Script(4) = <<>>
  BY DEF Script, summary, Program

\* Where the three threads are when they take a step.
LEMMA SummaryAt ==
  ASSUME ThreadTypeOK, program = summary, NEW t \in ScriptThreads, ~Ended(t)
  PROVE  \/ t = 1 /\ at[1] = 1 /\ Statement(t) = <<"store", "y", 20>>
         \/ t = 1 /\ at[1] = 2 /\ Statement(t) = <<"store", "x", 10>>
         \/ t = 2 /\ at[2] = 1 /\ Statement(t) = <<"if", "x", 10>>
         \/ t = 2 /\ at[2] = 2 /\ Statement(t) = <<"assert", "y", 20>>
         \/ t = 2 /\ at[2] = 3 /\ Statement(t) = <<"store", "y", 10>>
         \/ t = 3 /\ at[3] = 1 /\ Statement(t) = <<"if", "y", 10>>
         \/ t = 3 /\ at[3] = 2 /\ Statement(t) = <<"assert", "x", 10>>
<1>1. at[t] \in Nat \ {0} /\ t \in {1, 2, 3, 4}
  BY DEF ThreadTypeOK, ScriptThreads
<1>2. Len(Script(1)) = 2 /\ Len(Script(2)) = 3 /\ Len(Script(3)) = 2 /\ Len(Script(4)) = 0
  BY SummaryScripts
<1>3. t \in {1, 2, 3} /\ at[t] \in {1, 2, 3} /\ (at[t] = 3 => t = 2)
  <2>1. Len(Script(t)) = IF t = 2 THEN 3 ELSE IF t = 4 THEN 0 ELSE 2
    BY <1>1, <1>2
  <2>2. ~(at[t] > Len(Script(t)))
    BY DEF Ended
  <2> QED
    BY <1>1, <2>1, <2>2
<1>4. /\ Script(1)[1] = <<"store", "y", 20>> /\ Script(1)[2] = <<"store", "x", 10>>
      /\ Script(2)[1] = <<"if", "x", 10>> /\ Script(2)[2] = <<"assert", "y", 20>>
      /\ Script(2)[3] = <<"store", "y", 10>>
      /\ Script(3)[1] = <<"if", "y", 10>> /\ Script(3)[2] = <<"assert", "x", 10>>
  BY SummaryScripts
<1> QED
  BY <1>3, <1>4 DEF Statement

\* Every step keeps SummaryInv.
LEMMA SummaryStep ==
  ASSUME MaxTime \in Nat, ThreadTypeOK, MemoryInv, SummaryInv, program = summary,
         NEW t \in ScriptThreads, Executes(t)
  PROVE  (ThreadTypeOK /\ MemoryInv /\ SummaryInv)'
<1>1. failed = {} /\ ~Ended(t) /\ mode' = mode /\ mode # "relaxed"
  BY ActionIs DEF SummaryInv
<1>2. /\ at \in [ScriptThreads -> Nat \ {0}]
      /\ 1 \in ScriptThreads /\ 2 \in ScriptThreads /\ 3 \in ScriptThreads
      /\ "x" \in Locations /\ "y" \in Locations
  BY DEF ThreadTypeOK, ScriptThreads, Locations
<1>3. /\ \A m \in memory : m.time \in Nat /\ m.seen \in [Locations -> Nat]
      /\ view \in [ScriptThreads -> [Locations -> Nat]]
  BY DEF MemoryInv
<1>4. CASE t = 1 /\ at[1] = 1 /\ Statement(t) = <<"store", "y", 20>>
  <2>1. PICK time \in 1 .. MaxTime, seen \in [Locations -> Nat] :
          Leaves(1, "y", 20, mode, time, seen)
    BY <1>2, <1>4, StoreIs
  <2>2. MemoryInv' /\ Done(1) /\ UNCHANGED <<program, mode, loaded, failed>>
    BY <1>2, <1>4, StoreIs
  <2>3. /\ at'[1] = 2 /\ at'[2] = at[2] /\ at'[3] = at[3]
        /\ view'[1]["y"] = time /\ view'[2] = view[2] /\ view'[3] = view[3]
    BY <1>2, <1>4, <2>1, <2>2 DEF Done, Leaves
  <2>4. \A m \in memory' : m \in memory \/ (m.loc = "y" /\ m.val = 20 /\ m.time = time)
    BY <2>1 DEF Leaves, Message
  <2>5. SummaryInv'
    BY <1>1, <1>2, <2>1, <2>2, <2>3, <2>4 DEF SummaryInv
  <2> QED
    BY <1>4, <2>2, <2>5, TypesKept
<1>5. CASE t = 1 /\ at[1] = 2 /\ Statement(t) = <<"store", "x", 10>>
  <2>1. PICK time \in 1 .. MaxTime, seen \in [Locations -> Nat] :
          Leaves(1, "x", 10, mode, time, seen)
    BY <1>2, <1>5, StoreIs
  <2>2. MemoryInv' /\ Done(1) /\ UNCHANGED <<program, mode, loaded, failed>>
    BY <1>2, <1>5, StoreIs
  <2>3. /\ at'[2] = at[2] /\ at'[3] = at[3] /\ view'[2] = view[2] /\ view'[3] = view[3]
        /\ view'[1]["y"] = view[1]["y"] /\ seen["y"] = view[1]["y"]
    BY <1>1, <1>2, <1>5, <2>1, <2>2 DEF Done, Leaves
  <2>4. view[1]["y"] >= 1
    BY <1>5 DEF SummaryInv
  <2>5. \A m \in memory' :
          m \in memory \/ (m.loc = "x" /\ m.val = 10 /\ m.time = time /\ m.seen["y"] >= 1)
    BY <2>1, <2>3, <2>4 DEF Leaves, Message
  <2>6. SummaryInv'
    BY <1>1, <1>2, <2>1, <2>2, <2>3, <2>4, <2>5 DEF SummaryInv
  <2> QED
    BY <1>5, <2>2, <2>6, TypesKept
<1>6. CASE t = 2 /\ at[2] = 1 /\ Statement(t) = <<"if", "x", 10>>
  <2>1. MemoryInv' /\ UNCHANGED <<program, mode, memory, loaded>>
    BY <1>1, <1>2, <1>6, TestIs
  <2>2. PICK m \in memory :
          /\ Finds(2, "x", m, mode)
          /\ m.val = 10 => Done(2) /\ UNCHANGED failed
          /\ m.val # 10 => Leave(2) /\ UNCHANGED failed
    BY <1>1, <1>2, <1>6, TestIs
  <2>3. Len(Script(2)) = 3
    BY SummaryScripts
  <2>4. /\ UNCHANGED <<view[1], view[3], at[1], at[3], failed>>
        /\ m.val = 10 => at'[2] = 2
        /\ m.val # 10 => at'[2] = 4
    <3>1. m.val # 10 => at' = [at EXCEPT ![2] = 3 + 1]
      BY <2>2, <2>3, LeaveAt
    <3>2. m.val = 10 => at' = [at EXCEPT ![2] = @ + 1]
      BY <2>2 DEF Done
    <3>3. UNCHANGED <<view[1], view[3], failed>>
      BY <1>2, <2>2 DEF Finds
    <3> QED
      BY <1>2, <1>6, <3>1, <3>2, <3>3
  <2>5. m.val = 10 => view'[2]["x"] >= 1 /\ view'[2]["y"] >= 1
    <3> SUFFICES ASSUME m.val = 10 PROVE view'[2]["x"] >= 1 /\ view'[2]["y"] >= 1
      OBVIOUS
    <3>1. m.loc = "x" /\ view'[2]["y"] >= m.seen["y"] /\ view'[2]["x"] >= m.time
      BY <1>1, <1>2, <2>2 DEF Finds
    <3>2. m.time >= 1 /\ m.seen["y"] >= 1
      BY <1>3, <3>1 DEF SummaryInv
    <3>3. /\ m.seen["y"] \in Nat /\ m.time \in Nat
          /\ view'[2]["x"] \in Nat /\ view'[2]["y"] \in Nat
      BY <1>2, <1>3, <2>1 DEF MemoryInv
    <3> QED
      BY <3>1, <3>2, <3>3
  <2>6. SummaryInv'
    BY <1>1, <1>6, <2>1, <2>4, <2>5 DEF SummaryInv
  <2>7. ThreadTypeOK'
    BY <1>2, <2>1, <2>2, <2>3, TypesKept
  <2> QED
    BY <2>1, <2>6, <2>7
<1>7. CASE t = 2 /\ at[2] = 2 /\ Statement(t) = <<"assert", "y", 20>>
  <2>1. MemoryInv' /\ UNCHANGED <<program, mode, memory, loaded>>
    BY <1>1, <1>2, <1>7, TestIs
  <2>2. PICK m \in memory :
          Finds(2, "y", m, mode) /\ (m.val = 20 => Done(2) /\ UNCHANGED failed)
    BY <1>1, <1>2, <1>7, TestIs
  <2>3. /\ m.val = 20
        /\ view'[2]["x"] >= view[2]["x"] /\ view'[2]["y"] >= view[2]["y"]
        /\ view[2]["x"] >= 1 /\ view[2]["y"] >= 1
    <3>1. /\ view[2]["x"] >= 1 /\ view[2]["y"] >= 1 /\ m.time >= view[2]["y"] /\ m.loc = "y"
          /\ view'[2]["x"] >= view[2]["x"] /\ view'[2]["y"] >= view[2]["y"]
      BY <1>2, <1>7, <2>2 DEF SummaryInv, Finds
    <3>2. view[2]["y"] \in Nat /\ m.time \in Nat
      BY <1>2, <1>3
    <3>3. m.time >= 1
      BY <3>1, <3>2
    <3>4. m.val = 20
      BY <1>7, <3>1, <3>3 DEF SummaryInv
    <3> QED
      BY <3>1, <3>4
  <2>4. /\ UNCHANGED <<view[1], view[3], at[1], at[3], failed>> /\ at'[2] = 3
    BY <1>2, <1>7, <2>2, <2>3 DEF Finds, Done
  <2>5. view'[2]["x"] >= 1 /\ view'[2]["y"] >= 1
    <3>1. /\ view[2]["x"] \in Nat /\ view[2]["y"] \in Nat
          /\ view'[2]["x"] \in Nat /\ view'[2]["y"] \in Nat
      BY <1>2, <1>3, <2>1 DEF MemoryInv
    <3> QED
      BY <2>3, <3>1
  <2>6. SummaryInv'
    BY <1>1, <1>7, <2>1, <2>4, <2>5 DEF SummaryInv
  <2>7. ThreadTypeOK'
    BY <1>2, <2>1, <2>2, <2>3, <1>7, TypesKept
  <2> QED
    BY <2>1, <2>6, <2>7
<1>8. CASE t = 2 /\ at[2] = 3 /\ Statement(t) = <<"store", "y", 10>>
  <2>1. PICK time \in 1 .. MaxTime, seen \in [Locations -> Nat] :
          Leaves(2, "y", 10, mode, time, seen)
    BY <1>2, <1>8, StoreIs
  <2>2. MemoryInv' /\ Done(2) /\ UNCHANGED <<program, mode, loaded, failed>>
    BY <1>2, <1>8, StoreIs
  <2>3. /\ UNCHANGED <<view[1], view[3], at[1], at[3]>> /\ at'[2] = 4
        /\ seen["x"] = view[2]["x"]
    BY <1>1, <1>2, <1>8, <2>1, <2>2 DEF Done, Leaves
  <2>4. view[2]["x"] >= 1
    BY <1>8 DEF SummaryInv
  <2>5. \A m \in memory' :
          m \in memory \/ (m.loc = "y" /\ m.val = 10 /\ m.time = time /\ m.seen["x"] >= 1)
    BY <2>1, <2>3, <2>4 DEF Leaves, Message
  <2>6. SummaryInv'
    BY <1>1, <1>2, <1>8, <2>1, <2>2, <2>3, <2>4, <2>5 DEF SummaryInv
  <2> QED
    BY <1>8, <2>2, <2>6, TypesKept
<1>9. CASE t = 3 /\ at[3] = 1 /\ Statement(t) = <<"if", "y", 10>>
  <2>1. MemoryInv' /\ UNCHANGED <<program, mode, memory, loaded>>
    BY <1>1, <1>2, <1>9, TestIs
  <2>2. PICK m \in memory :
          /\ Finds(3, "y", m, mode)
          /\ m.val = 10 => Done(3) /\ UNCHANGED failed
          /\ m.val # 10 => Leave(3) /\ UNCHANGED failed
    BY <1>1, <1>2, <1>9, TestIs
  <2>3. Len(Script(3)) = 2
    BY SummaryScripts
  <2>4. /\ UNCHANGED <<view[1], view[2], at[1], at[2], failed>>
        /\ m.val # 10 => at'[3] = 3
    <3>1. m.val # 10 => at' = [at EXCEPT ![3] = 2 + 1]
      BY <2>2, <2>3, LeaveAt
    <3>2. m.val = 10 => at' = [at EXCEPT ![3] = @ + 1]
      BY <2>2 DEF Done
    <3>3. UNCHANGED <<view[1], view[2], failed>>
      BY <1>2, <2>2 DEF Finds
    <3> QED
      BY <1>2, <1>9, <3>1, <3>2, <3>3
  <2>5. m.val = 10 => view'[3]["x"] >= 1
    <3> SUFFICES ASSUME m.val = 10 PROVE view'[3]["x"] >= 1
      OBVIOUS
    <3>1. m.loc = "y" /\ view'[3]["x"] >= m.seen["x"]
      BY <1>1, <1>2, <2>2 DEF Finds
    <3>2. m.seen["x"] >= 1
      BY <3>1 DEF SummaryInv
    <3>3. m.seen["x"] \in Nat /\ view'[3]["x"] \in Nat
      BY <1>2, <1>3, <2>1 DEF MemoryInv
    <3> QED
      BY <3>1, <3>2, <3>3
  <2>6. SummaryInv'
    BY <1>1, <1>9, <2>1, <2>4, <2>5 DEF SummaryInv
  <2>7. ThreadTypeOK'
    BY <1>2, <2>1, <2>2, <2>3, TypesKept
  <2> QED
    BY <2>1, <2>6, <2>7
<1>10. CASE t = 3 /\ at[3] = 2 /\ Statement(t) = <<"assert", "x", 10>>
  <2>1. MemoryInv' /\ UNCHANGED <<program, mode, memory, loaded>>
    BY <1>1, <1>2, <1>10, TestIs
  <2>2. PICK m \in memory :
          Finds(3, "x", m, mode) /\ (m.val = 10 => Done(3) /\ UNCHANGED failed)
    BY <1>1, <1>2, <1>10, TestIs
  <2>3. m.val = 10
    <3>1. view[3]["x"] >= 1 /\ m.time >= view[3]["x"] /\ m.loc = "x"
      BY <1>10, <2>2 DEF SummaryInv, Finds
    <3>2. view[3]["x"] \in Nat /\ m.time \in Nat
      BY <1>2, <1>3
    <3>3. m.time # 0
      BY <3>1, <3>2
    <3> QED
      BY <3>1, <3>3 DEF SummaryInv
  <2>4. UNCHANGED <<view[1], view[2], at[1], at[2], failed>> /\ at'[3] = 3
    BY <1>2, <1>10, <2>2, <2>3 DEF Finds, Done
  <2>5. SummaryInv'
    BY <1>1, <1>10, <2>1, <2>4 DEF SummaryInv
  <2>6. ThreadTypeOK'
    BY <1>2, <2>1, <2>2, <2>3, TypesKept
  <2> QED
    BY <2>1, <2>5, <2>6
<1> QED
  BY <1>1, <1>4, <1>5, <1>6, <1>7, <1>8, <1>9, <1>10, SummaryAt

-------------------------------------------------------------------------
(* The stores to one variable are seen in their order: coherence.          *)

\* The scripts of coherence.
LEMMA CoherenceScripts ==
  ASSUME program = coherence
  PROVE  /\ Script(1) = << <<"store", "x", 1>>, <<"store", "x", 2>> >>
         /\ Script(2) = << <<"load", "x">>, <<"load", "x">>, <<"rising">> >>
         /\ Script(3) = <<>> /\ Script(4) = <<>>
  BY DEF Script, coherence, Program

\* Where the two threads are when they take a step.
LEMMA CoherenceAt ==
  ASSUME ThreadTypeOK, program = coherence, NEW t \in ScriptThreads, ~Ended(t)
  PROVE  \/ t = 1 /\ at[1] \in {1, 2} /\ Statement(t) = <<"store", "x", at[1]>>
         \/ t = 2 /\ at[2] \in {1, 2} /\ Statement(t) = <<"load", "x">>
         \/ t = 2 /\ at[2] = 3 /\ Statement(t) = <<"rising">>
<1>1. at[t] \in Nat \ {0} /\ t \in {1, 2, 3, 4}
  BY DEF ThreadTypeOK, ScriptThreads
<1>2. Len(Script(1)) = 2 /\ Len(Script(2)) = 3 /\ Len(Script(3)) = 0 /\ Len(Script(4)) = 0
  BY CoherenceScripts
<1>3. t \in {1, 2} /\ at[t] \in {1, 2, 3} /\ (at[t] = 3 => t = 2)
  <2>1. Len(Script(t)) = IF t = 1 THEN 2 ELSE IF t = 2 THEN 3 ELSE 0
    BY <1>1, <1>2
  <2>2. ~(at[t] > Len(Script(t)))
    BY DEF Ended
  <2> QED
    BY <1>1, <2>1, <2>2
<1>4. /\ Script(1)[1] = <<"store", "x", 1>> /\ Script(1)[2] = <<"store", "x", 2>>
      /\ Script(2)[1] = <<"load", "x">> /\ Script(2)[2] = <<"load", "x">>
      /\ Script(2)[3] = <<"rising">>
  BY CoherenceScripts
<1>5. CASE t = 1
  BY <1>3, <1>4, <1>5 DEF Statement
<1>6. CASE t = 2
  BY <1>3, <1>4, <1>6 DEF Statement
<1> QED
  BY <1>3, <1>5, <1>6

\* What is loaded, by one load and by two.
LEMMA TwoLoads ==
  ASSUME NEW a \in Nat, NEW b \in Nat
  PROVE  /\ Append(<<>>, a) = <<a>>
         /\ Append(<<a>>, b)[1] = a /\ Append(<<a>>, b)[2] = b
<1>1. Append(<<>>, a) = <<a>>
  OBVIOUS
<1>2. <<a>> \in Seq(Nat) /\ Len(<<a>>) = 1 /\ <<a>>[1] = a
  OBVIOUS
<1>3. Append(<<a>>, b)[1] = a /\ Append(<<a>>, b)[2] = b
  BY <1>2
<1> QED
  BY <1>1, <1>3

\* Every step keeps CoherenceInv.
LEMMA CoherenceStep ==
  ASSUME MaxTime \in Nat, ThreadTypeOK, MemoryInv, CoherenceInv, program = coherence,
         NEW t \in ScriptThreads, Executes(t)
  PROVE  (ThreadTypeOK /\ MemoryInv /\ CoherenceInv)'
<1>1. failed = {} /\ ~Ended(t) /\ mode' = mode /\ mode = "relaxed"
  BY ActionIs DEF CoherenceInv
<1>2. /\ at \in [ScriptThreads -> Nat \ {0}] /\ DOMAIN loaded = ScriptThreads
      /\ 1 \in ScriptThreads /\ 2 \in ScriptThreads /\ "x" \in Locations
  BY DEF ThreadTypeOK, ScriptThreads, Locations
<1>3. /\ \A m \in memory : m.time \in Nat
      /\ view \in [ScriptThreads -> [Locations -> Nat]]
  BY DEF MemoryInv
<1>4. CASE t = 1 /\ at[1] \in {1, 2} /\ Statement(t) = <<"store", "x", at[1]>>
  <2>1. PICK time \in 1 .. MaxTime, seen \in [Locations -> Nat] :
          Leaves(1, "x", at[1], mode, time, seen)
    BY <1>2, <1>4, StoreIs
  <2>2. MemoryInv' /\ Done(1) /\ UNCHANGED <<program, mode, loaded, failed>>
    BY <1>2, <1>4, StoreIs
  <2>3. /\ at'[1] = at[1] + 1 /\ at'[2] = at[2] /\ view'[2] = view[2]
        /\ view'[1]["x"] = time /\ time > view[1]["x"]
    BY <1>1, <1>2, <2>1, <2>2 DEF Done, Leaves
  <2> DEFINE new == Message("x", time, at[1], seen)
  <2>4. new.loc = "x" /\ new.val = at[1] /\ new.time = time /\ memory' = memory \cup {new}
    BY <2>1 DEF Leaves, Message
  <2> HIDE DEF new
  <2>5. \A m \in memory : m.loc = "x" => /\ m.time < time /\ m.val \in Nat
                                         /\ m.val < at[1]
    BY <1>2, <1>3, <2>3 DEF CoherenceInv
  <2>6. \A m \in memory' :
          m.loc = "x" => m.time <= view'[1]["x"] /\ m.val \in Nat /\ m.val < at'[1]
    BY <1>2, <1>3, <2>3, <2>4, <2>5
  <2>7. \A m, n \in memory' : m.loc = "x" /\ n.loc = "x" /\ m.time <= n.time => m.val <= n.val
    <3> SUFFICES ASSUME NEW m \in memory', NEW n \in memory',
                        m.loc = "x", n.loc = "x", m.time <= n.time
                 PROVE  m.val <= n.val
      OBVIOUS
    <3>1. CASE m \in memory /\ n \in memory
      BY <3>1 DEF CoherenceInv
    <3>2. CASE m \in memory /\ n = new
      BY <1>2, <2>4, <2>5, <3>2
    <3>3. CASE m = new /\ n \in memory
      BY <1>3, <2>4, <2>5, <3>3
    <3>4. CASE m = new /\ n = new
      BY <1>2, <2>4, <3>4
    <3> QED
      BY <2>4, <3>1, <3>2, <3>3, <3>4
  <2>8. at[2] = 2 => \E m \in memory' : /\ m.loc = "x" /\ m.time <= view[2]["x"]
                                        /\ loaded[2] = <<m.val>>
    BY <2>4 DEF CoherenceInv
  <2>9. CoherenceInv'
    BY <1>1, <2>2, <2>3, <2>6, <2>7, <2>8 DEF CoherenceInv
  <2> QED
    BY <1>4, <2>2, <2>9, TypesKept
<1>5. CASE t = 2 /\ at[2] \in {1, 2} /\ Statement(t) = <<"load", "x">>
  <2>1. MemoryInv' /\ Done(2) /\ UNCHANGED <<program, mode, memory, failed>>
    BY <1>2, <1>5, LoadIs
  <2>2. PICK m \in memory :
          /\ Finds(2, "x", m, mode)
          /\ loaded' = [loaded EXCEPT ![2] = Append(@, m.val)]
    BY <1>2, <1>5, LoadIs
  <2>3. /\ m.loc = "x" /\ m.time >= view[2]["x"] /\ view'[2]["x"] >= m.time
        /\ view'[1] = view[1] /\ at'[1] = at[1] /\ at'[2] = at[2] + 1
    BY <1>2, <2>1, <2>2 DEF Finds, Done
  <2>4. loaded'[2] = Append(loaded[2], m.val)
    BY <1>2, <2>2
  <2>5. m.val \in Nat /\ m.time \in Nat /\ view[2]["x"] \in Nat /\ view'[2]["x"] \in Nat
    BY <1>2, <1>3, <2>1, <2>3 DEF MemoryInv, CoherenceInv
  <2>6. ThreadTypeOK'
    <3>1. DOMAIN loaded' = ScriptThreads /\ DOMAIN view' = ScriptThreads
      BY <1>2, <2>1, <2>2 DEF MemoryInv
    <3>2. at' \in [ScriptThreads -> Nat \ {0}]
      BY <1>2, <2>1 DEF Done
    <3> QED
      BY <3>1, <3>2 DEF ThreadTypeOK
  <2>7. CASE at[2] = 1
    <3>1. loaded'[2] = <<m.val>>
      BY <2>4, <2>5, <2>7, TwoLoads DEF CoherenceInv
    <3>2. at'[2] = 2 /\ m.time <= view'[2]["x"]
      BY <2>3, <2>5, <2>7
    <3>3. CoherenceInv'
      BY <1>1, <2>1, <2>3, <3>1, <3>2 DEF CoherenceInv
    <3> QED
      BY <2>1, <2>6, <3>3
  <2>8. CASE at[2] = 2
    <3>1. PICK n \in memory : n.loc = "x" /\ n.time <= view[2]["x"] /\ loaded[2] = <<n.val>>
      BY <2>8 DEF CoherenceInv
    <3>2. n.val \in Nat /\ n.time \in Nat
      BY <1>3, <3>1 DEF CoherenceInv
    <3>3. n.time <= m.time
      BY <2>3, <2>5, <3>1, <3>2
    <3>4. n.val <= m.val
      BY <2>3, <3>1, <3>3 DEF CoherenceInv
    <3>5. loaded'[2][1] = n.val /\ loaded'[2][2] = m.val
      BY <2>4, <2>5, <3>1, <3>2, TwoLoads
    <3>6. at'[2] = 3
      BY <2>3, <2>8
    <3>7. CoherenceInv'
      BY <1>1, <2>1, <2>3, <2>5, <3>2, <3>4, <3>5, <3>6 DEF CoherenceInv
    <3> QED
      BY <2>1, <2>6, <3>7
  <2> QED
    BY <1>5, <2>7, <2>8
<1>6. CASE t = 2 /\ at[2] = 3 /\ Statement(t) = <<"rising">>
  <2>1. rising(2)
    <3>1. Statement(2)[1] = "rising"
      BY <1>6
    <3> QED
      BY <1>6, <3>1, ActionIs
  <2>2. /\ Asserts(2, loaded[2][1] <= loaded[2][2])
        /\ UNCHANGED <<program, mode, memory, view, loaded>>
    BY <2>1 DEF rising
  <2>3. loaded[2][1] <= loaded[2][2]
    BY <1>6 DEF CoherenceInv
  <2>4. Done(2) /\ UNCHANGED failed
    BY <2>2, <2>3 DEF Asserts
  <2>5. at'[1] = at[1] /\ at'[2] = 4
    BY <1>2, <1>6, <2>4 DEF Done
  <2>6. MemoryInv'
    BY <2>2 DEF MemoryInv, KnownIn
  <2>7. CoherenceInv'
    BY <1>1, <1>6, <2>2, <2>4, <2>5 DEF CoherenceInv
  <2> QED
    BY <1>2, <2>2, <2>4, <2>6, <2>7, TypesKept
<1> QED
  BY <1>1, <1>4, <1>5, <1>6, CoherenceAt

-------------------------------------------------------------------------
(* compare_exchange.cpp.                                                   *)

\* The scripts of compare_exchange.
LEMMA ExchangeScripts ==
  ASSUME program = compare_exchange
  PROVE  /\ Script(1) = << <<"exchange", "b">> >>
         /\ Script(2) = << <<"store", "b", 1>>, <<"store", "b", 0>>, <<"store", "b", 1>> >>
         /\ Script(3) = <<>> /\ Script(4) = <<>>
  BY DEF Script, compare_exchange, Program

\* Where the two threads are when they take a step.
LEMMA ExchangeAt ==
  ASSUME ThreadTypeOK, program = compare_exchange, NEW t \in ScriptThreads, ~Ended(t)
  PROVE  \/ t = 1 /\ at[1] = 1 /\ Statement(t)[1] = "exchange"
         \/ t = 2 /\ Statement(t)[1] = "store"
<1>1. at[t] \in Nat \ {0} /\ t \in {1, 2, 3, 4}
  BY DEF ThreadTypeOK, ScriptThreads
<1>2. Len(Script(1)) = 1 /\ Len(Script(2)) = 3 /\ Len(Script(3)) = 0 /\ Len(Script(4)) = 0
  BY ExchangeScripts
<1>3. t \in {1, 2} /\ at[t] \in {1, 2, 3} /\ (t = 1 => at[t] = 1)
  <2>1. Len(Script(t)) = IF t = 1 THEN 1 ELSE IF t = 2 THEN 3 ELSE 0
    BY <1>1, <1>2
  <2>2. ~(at[t] > Len(Script(t)))
    BY DEF Ended
  <2> QED
    BY <1>1, <2>1, <2>2
<1>4. /\ Script(1)[1] = <<"exchange", "b">>
      /\ Script(2)[1] = <<"store", "b", 1>> /\ Script(2)[2] = <<"store", "b", 0>>
      /\ Script(2)[3] = <<"store", "b", 1>>
  BY ExchangeScripts
<1>5. /\ Script(1)[1][1] = "exchange"
      /\ Script(2)[1][1] = "store" /\ Script(2)[2][1] = "store" /\ Script(2)[3][1] = "store"
  BY <1>4
<1> QED
  BY <1>3, <1>5 DEF Statement

\* Every step keeps ExchangeInv, and none touches thread 1 when its exchange has found true.
LEMMA ExchangeStep ==
  ASSUME ThreadTypeOK, ExchangeInv, program = compare_exchange,
         NEW t \in ScriptThreads, Executes(t)
  PROVE  /\ (ThreadTypeOK /\ ExchangeInv)'
         /\ loaded[1] = << 1 >> => UNCHANGED <<at[1], view[1]>>
<1>1. failed = {} /\ ~Ended(t)
  BY ActionIs
<1>2. /\ at \in [ScriptThreads -> Nat \ {0}] /\ 1 \in ScriptThreads /\ 2 \in ScriptThreads
      /\ DOMAIN view = ScriptThreads /\ DOMAIN loaded = ScriptThreads
  BY DEF ThreadTypeOK, ScriptThreads
<1>3. CASE t = 2 /\ Statement(t)[1] = "store"
  <2>1. store(2)
    BY <1>3, ActionIs
  <2>2. PICK loc, time : view' = [view EXCEPT ![2][loc] = time]
    BY <2>1 DEF store, Write
  <2>3. Done(2) /\ UNCHANGED loaded
    BY <2>1 DEF store
  <2>4. DOMAIN view' = ScriptThreads /\ UNCHANGED <<at[1], view[1]>>
    BY <1>2, <2>2, <2>3 DEF Done
  <2>5. ThreadTypeOK'
    BY <1>2, <2>3, <2>4 DEF ThreadTypeOK, Done
  <2> QED
    BY <2>3, <2>4, <2>5 DEF ExchangeInv
<1>4. CASE t = 1 /\ at[1] = 1 /\ Statement(t)[1] = "exchange"
  <2>1. loaded[1] # << 1 >>
    BY <1>4 DEF ExchangeInv
  <2>2. CASE exchange(1)
    <3>1. PICK time : view' = [view EXCEPT ![1]["b"] = time]
      BY <2>2 DEF exchange, Write
    <3>2. Done(1) /\ UNCHANGED loaded
      BY <2>2 DEF exchange
    <3>3. DOMAIN view' = ScriptThreads /\ at' \in [ScriptThreads -> Nat \ {0}]
      BY <1>2, <3>1, <3>2 DEF Done
    <3> QED
      BY <1>2, <2>1, <3>2, <3>3 DEF ThreadTypeOK, ExchangeInv
  <2>3. CASE exchange_fails(1)
    <3>1. view' = [view EXCEPT ![1] = Seen(1, Last("b"), mode)]
      BY <2>3 DEF exchange_fails, Looks
    <3>2. loaded' = [loaded EXCEPT ![1] = <<Last("b").val>>]
      BY <2>3 DEF exchange_fails
    <3>3. IF expected(1)' = 0 THEN UNCHANGED at ELSE Done(1)
      BY <2>3 DEF exchange_fails
    <3>4. DOMAIN view' = ScriptThreads /\ DOMAIN loaded' = ScriptThreads
      BY <1>2, <3>1, <3>2
    <3>5. loaded'[1] = <<Last("b").val>>
      BY <1>2, <3>2
    <3>6. expected(1)' = Last("b").val
      BY <3>5 DEF expected
    <3>7. at' \in [ScriptThreads -> Nat \ {0}]
      BY <1>2, <3>3 DEF Done
    <3>8. loaded'[1] = << 1 >> => at'[1] = 2
      <4> SUFFICES ASSUME loaded'[1] = << 1 >> PROVE at'[1] = 2
        OBVIOUS
      <4>1. Last("b").val = 1
        BY <3>5
      <4>2. Done(1)
        BY <3>3, <3>6, <4>1
      <4> QED
        BY <1>2, <1>4, <4>2 DEF Done
    <3> QED
      BY <2>1, <3>4, <3>7, <3>8 DEF ThreadTypeOK, ExchangeInv
  <2> QED
    BY <1>4, <2>2, <2>3, ActionIs
<1> QED
  BY <1>1, <1>3, <1>4, ExchangeAt

-------------------------------------------------------------------------
(* The invariant of the atomics.                                           *)

\* The memory that every program begins with.
LEMMA MemoryBegins ==
  ASSUME MaxTime \in Nat, AtomicsInit
  PROVE  /\ ThreadTypeOK /\ MemoryInv
         /\ \A m \in memory : m.time = 0 /\ m.val = 0
         /\ at[1] = 1 /\ at[2] = 1 /\ at[3] = 1 /\ loaded[1] = <<>> /\ loaded[2] = <<>>
         /\ view[1]["x"] = 0 /\ failed = {}
<1>1. Nothing \in [Locations -> Nat] /\ \A l \in Locations : Nothing[l] = 0
  BY DEF Nothing
<1>2. \A m \in memory : m.loc \in Locations /\ m.time = 0 /\ m.val = 0 /\ m.seen = Nothing
  BY DEF AtomicsInit, Message
<1>3. ASSUME NEW l \in Locations PROVE \E m \in memory : m.loc = l /\ m.time = 0
  <2>1. Message(l, 0, 0, Nothing) \in memory
    BY DEF AtomicsInit
  <2>2. Message(l, 0, 0, Nothing).loc = l /\ Message(l, 0, 0, Nothing).time = 0
    BY DEF Message
  <2> QED
    BY <2>1, <2>2
<1>4. KnownIn(memory, Nothing)
  BY <1>1, <1>3 DEF KnownIn
<1>5. view = [t \in ScriptThreads |-> Nothing]
  BY DEF AtomicsInit
<1>6. MemoryInv
  BY <1>1, <1>2, <1>4, <1>5 DEF MemoryInv
<1>7. ThreadTypeOK
  BY <1>5 DEF AtomicsInit, ThreadTypeOK
<1>8. 1 \in ScriptThreads /\ 2 \in ScriptThreads /\ 3 \in ScriptThreads /\ "x" \in Locations
  BY DEF ScriptThreads, Locations
<1> QED
  BY <1>1, <1>2, <1>5, <1>6, <1>7, <1>8 DEF AtomicsInit

\* The invariant of the atomics holds in every reachable state.
THEOREM AtomicsInvariantHolds == AtomicsSpec => []AtomicsInv
<1>1. AtomicsInit => AtomicsInv
  <2> SUFFICES ASSUME AtomicsInit PROVE AtomicsInv
    OBVIOUS
  <2>1. mode \in program.modes
    BY DEF AtomicsInit
  <2>2. /\ program \in {publish, release} => mode # "relaxed"
        /\ program = coherence => mode = "relaxed"
    BY <2>1 DEF publish, release, coherence, Program
  <2>3. program = publish => PassingInv(2, 1)
    BY <2>2, MemoryBegins, TimeAssumption DEF PassingInv
  <2>4. program = release => PassingInv(10, 20)
    BY <2>2, MemoryBegins, TimeAssumption DEF PassingInv
  <2>5. mode # "relaxed" => SummaryInv
    BY MemoryBegins, TimeAssumption DEF SummaryInv
  <2>6. program = coherence => CoherenceInv
    BY <2>2, MemoryBegins, TimeAssumption DEF CoherenceInv
  <2>7. ExchangeInv
    BY MemoryBegins, TimeAssumption DEF ExchangeInv
  <2> QED
    BY <2>3, <2>4, <2>5, <2>6, <2>7, MemoryBegins, TimeAssumption DEF AtomicsInv
<1>2. AtomicsInv /\ [AtomicsNext]_atomicsVars => AtomicsInv'
  <2> SUFFICES ASSUME AtomicsInv, [AtomicsNext]_atomicsVars PROVE AtomicsInv'
    OBVIOUS
  <2>1. CASE UNCHANGED atomicsVars
    <3> USE <2>1 DEF atomicsVars
    <3>1. program' = program /\ mode' = mode /\ (ThreadTypeOK => ThreadTypeOK')
      BY DEF ThreadTypeOK
    <3>2. MemoryInv => MemoryInv'
      BY DEF MemoryInv, KnownIn
    <3>3. \A X, Y : PassingInv(X, Y) => PassingInv(X, Y)'
      BY DEF PassingInv
    <3>4. SummaryInv => SummaryInv'
      BY DEF SummaryInv
    <3>5. CoherenceInv => CoherenceInv'
      BY DEF CoherenceInv
    <3>6. ExchangeInv => ExchangeInv'
      BY DEF ExchangeInv
    <3> QED
      BY <3>1, <3>2, <3>3, <3>4, <3>5, <3>6 DEF AtomicsInv
  <2>2. ASSUME NEW t \in ScriptThreads, Executes(t) PROVE AtomicsInv'
    <3>1. program' = program /\ mode' = mode
      BY <2>2, ActionIs
    <3>2. program' = publish => (ThreadTypeOK /\ MemoryInv /\ PassingInv(2, 1))'
      <4>1. program = publish => Passing(2, 1)
        BY DEF Passing, Script, publish, Program
      <4> QED
        BY <2>2, <3>1, <4>1, PassingStep, TimeAssumption DEF AtomicsInv
    <3>3. program' = release => (ThreadTypeOK /\ MemoryInv /\ PassingInv(10, 20))'
      <4>1. program = release => Passing(10, 20)
        BY DEF Passing, Script, release, Program
      <4> QED
        BY <2>2, <3>1, <4>1, PassingStep, TimeAssumption DEF AtomicsInv
    <3>4. program' = summary /\ mode' # "relaxed" => (ThreadTypeOK /\ MemoryInv /\ SummaryInv)'
      BY <2>2, <3>1, SummaryStep, TimeAssumption DEF AtomicsInv
    <3>5. program' = coherence => (ThreadTypeOK /\ MemoryInv /\ CoherenceInv)'
      BY <2>2, <3>1, CoherenceStep, TimeAssumption DEF AtomicsInv
    <3>6. program' = compare_exchange => (ThreadTypeOK /\ ExchangeInv)'
      BY <2>2, <3>1, ExchangeStep DEF AtomicsInv
    <3> QED
      BY <3>2, <3>3, <3>4, <3>5, <3>6 DEF AtomicsInv
  <2> QED
    BY <2>1, <2>2 DEF AtomicsNext, Stopped, atomicsVars
<1> QED
  BY <1>1, <1>2, PTL DEF AtomicsSpec

\* The asserts that memory_modes.cpp says cannot fail do not, whatever times the stores get.
THEOREM AssertsHoldAlways == AtomicsSpec => []AssertsHold
<1>1. AtomicsInv => AssertsHold
  BY DEF AtomicsInv, AssertsHold, PassingInv, SummaryInv, CoherenceInv
<1> QED
  BY <1>1, AtomicsInvariantHolds, PTL

\* The loop of compare_exchange.cpp leaves b alone when it has found it true.
THEOREM LeavesSeenAloneHolds == AtomicsSpec => LeavesSeenAlone
<1>1. AtomicsInv /\ [AtomicsNext]_atomicsVars =>
        [program = compare_exchange /\ loaded[1] = << 1 >>
           => UNCHANGED <<at[1], view[1]>>]_atomicsVars
  <2> SUFFICES ASSUME AtomicsInv, [AtomicsNext]_atomicsVars,
                      program = compare_exchange, loaded[1] = << 1 >>
               PROVE  UNCHANGED <<at[1], view[1]>>
    OBVIOUS
  <2>1. CASE UNCHANGED atomicsVars
    BY <2>1 DEF atomicsVars
  <2>2. ASSUME NEW t \in ScriptThreads, Executes(t) PROVE UNCHANGED <<at[1], view[1]>>
    BY <2>2, ExchangeStep DEF AtomicsInv
  <2> QED
    BY <2>1, <2>2 DEF AtomicsNext, Stopped, atomicsVars
<1> QED
  BY <1>1, AtomicsInvariantHolds, PTL DEF AtomicsSpec, LeavesSeenAlone

=============================================================================
