------------------------ MODULE LevelMutexProofs ------------------------
(***************************************************************************)
(* Machine-checked proofs about LevelMutex, for every set of threads,      *)
(* every set of mutexes, every assignment of levels and with or without    *)
(* allocation failures:                                                    *)
(*   - the level bookkeeping is right (LevelIsInnermost, and with it       *)
(*     OnlyInnermostUnlocks);                                              *)
(*   - nobody ever waits in a circle (NoDeadlock);                         *)
(*   - the class implements the abstract hierarchy;                        *)
(*   - in the program of LevelMutex_use.cpp, with any number of threads,   *)
(*     no destructor throws and no level but those of foo() is refused.    *)
(***************************************************************************)
EXTENDS LevelMutexUse, WellFoundedInduction, SequenceTheorems, TLAPS

-------------------------------------------------------------------------
(* The inductive invariant.                                                *)

\* The mutexes whose levels count towards thread_level: a mutex that is
\* being released already does not.
Live(t) == {m \in held[t] : ~(pc[t] = "release" /\ target[t] = m)}

\* A mutex somebody holds a guard on is locked by that thread.
HeldIsOwned == \A t \in Threads : \A m \in held[t] : mtx[m] = t

\* What check_level() established still holds when mtx.lock() returns, and
\* what the check in unlock() established when mtx.unlock() runs.
InCall ==
  \A t \in Threads :
    /\ pc[t] \in {"acquire", "update"} => thread_level[t] < mutex_level[target[t]]
    /\ pc[t] = "update" => mtx[target[t]] = t
    /\ pc[t] = "release" =>
         /\ target[t] \in held[t]
         /\ \A n \in held[t] : mutex_level[n] <= mutex_level[target[t]]

\* Held levels are positive and no two are equal.
DistinctLevels ==
  \A t \in Threads : \A m \in held[t] :
    /\ 0 < mutex_level[m]
    /\ \A n \in held[t] : mutex_level[m] = mutex_level[n] => m = n

\* thread_level is the highest live level.
LevelIsHighest ==
  \A t \in Threads :
    /\ \A m \in Live(t) : mutex_level[m] <= thread_level[t]
    /\ \/ thread_level[t] = 0
       \/ \E m \in Live(t) : mutex_level[m] = thread_level[t]

\* A live mutex saves exactly one level, the highest below its own.
SavedIsNext ==
  \A t \in Threads : \A m \in Live(t) :
    \E p \in 0 .. ULONG_MAX :
      /\ prev_levels[m] = <<p>>
      /\ p < mutex_level[m]
      /\ \A n \in Live(t) : mutex_level[n] < mutex_level[m] => mutex_level[n] <= p
      /\ p = 0 \/ \E n \in Live(t) : mutex_level[n] = p

\* Any other mutex saves none.
NothingElseSaved ==
  \A m \in Mutexes : (\A t \in Threads : m \notin Live(t)) => prev_levels[m] = <<>>

\* Without allocation failures a locked mutex will be unlocked by a guard.
OwnedIsHeld ==
  ~AllocMayFail =>
    \A t \in Threads, m \in Mutexes :
      mtx[m] = t => m \in held[t] \/ (pc[t] = "update" /\ target[t] = m)

IInv ==
  /\ TypeOK
  /\ HeldIsOwned
  /\ InCall
  /\ DistinctLevels
  /\ LevelIsHighest
  /\ SavedIsNext
  /\ NothingElseSaved
  /\ OwnedIsHeld

-------------------------------------------------------------------------
(* Type correctness.                                                       *)

\* The vector of a mutex keeps its type when its last element is popped.
LEMMA PopType ==
  ASSUME NEW S, NEW q \in Seq(S), q # <<>>
  PROVE  q[Len(q)] \in S /\ SubSeq(q, 1, Len(q) - 1) \in Seq(S)
<1>1. Len(q) \in Nat /\ Len(q) # 0
  OBVIOUS
<1>2. Len(q) \in 1 .. Len(q) /\ DOMAIN q = 1 .. Len(q)
  BY <1>1
<1> QED
  BY <1>1, <1>2

\* Every action keeps every variable in its type.
LEMMA TypeStep == TypeOK /\ [Next]_vars => TypeOK'
<1> SUFFICES ASSUME TypeOK, [Next]_vars PROVE TypeOK'
  OBVIOUS
<1> USE LevelMutexAssumption DEF TypeOK, PCs, Goto
<1>1. CASE UNCHANGED vars
  BY <1>1 DEF vars
<1>2. ASSUME NEW t \in Threads, NEW m \in Mutexes, Call(t, m)
      PROVE  TypeOK'
  <2>1. CASE unlock(t, m)
    <3>1. CASE prev_levels[m] = <<>>
      BY <2>1, <3>1 DEF unlock
    <3>2. CASE prev_levels[m] # <<>>
      <4>1. /\ prev_levels[m][Len(prev_levels[m])] \in 0 .. ULONG_MAX
            /\ SubSeq(prev_levels[m], 1, Len(prev_levels[m]) - 1) \in Seq(0 .. ULONG_MAX)
        BY <3>2, PopType
      <4> QED
        BY <2>1, <3>2, <4>1 DEF unlock
    <3> QED
      BY <3>1, <3>2
  <2>2. CASE lock(t, m)
    BY <2>2 DEF lock
  <2>3. CASE lock_throws(t, m)
    BY <2>3 DEF lock_throws
  <2>4. CASE try_lock(t, m)
    BY <2>4 DEF try_lock
  <2>5. CASE try_lock_refused(t, m)
    BY <2>5 DEF try_lock_refused
  <2>6. CASE unlock_throws(t, m)
    BY <2>6 DEF unlock_throws
  <2> QED
    BY <1>2, <2>1, <2>2, <2>3, <2>4, <2>5, <2>6 DEF Call
<1>3. ASSUME NEW t \in Threads, Continue(t)
      PROVE  TypeOK'
  <2>1. CASE lock_acquired(t)
    BY <2>1 DEF lock_acquired
  <2>2. CASE lock_returns(t)
    <3>1. target[t] \in Mutexes
      BY <2>2 DEF lock_returns
    <3> QED
      BY <2>2, <3>1 DEF lock_returns, update_level
  <2>3. CASE lock_leaks(t)
    BY <2>3 DEF lock_leaks
  <2>4. CASE unlock_returns(t)
    BY <2>4 DEF unlock_returns
  <2>5. CASE resume(t)
    BY <2>5 DEF resume
  <2> QED
    BY <1>3, <2>1, <2>2, <2>3, <2>4, <2>5 DEF Continue
<1> QED
  BY <1>1, <1>2, <1>3 DEF Next

\* TypeOK holds in every reachable state: in particular no sequence of calls
\* takes a level out of unsigned long.
THEOREM TypeCorrect == Spec => []TypeOK
<1>1. Init => TypeOK
  BY LevelMutexAssumption DEF Init, TypeOK, PCs
<1> QED
  BY <1>1, TypeStep, PTL DEF Spec

-------------------------------------------------------------------------
(* The invariant is inductive.                                             *)

\* What the invariant says of the data, as opposed to where the calls stand.
Bookkeeping ==
  HeldIsOwned /\ DistinctLevels /\ LevelIsHighest /\ SavedIsNext /\ NothingElseSaved

\* A step that changes neither the data nor which mutexes are live keeps
\* the bookkeeping as it is.
LEMMA QuietStep ==
  ASSUME Bookkeeping,
         UNCHANGED <<thread_level, mtx, prev_levels, held>>,
         \A t \in Threads : Live(t)' = Live(t)
  PROVE  Bookkeeping'
<1> USE DEF Bookkeeping
<1>1. HeldIsOwned' /\ DistinctLevels'
  BY DEF HeldIsOwned, DistinctLevels
<1>2. LevelIsHighest'
  BY DEF LevelIsHighest
<1>3. SavedIsNext'
  BY DEF SavedIsNext
<1>4. NothingElseSaved'
  BY DEF NothingElseSaved
<1> QED
  BY <1>1, <1>2, <1>3, <1>4

\* Levels are natural numbers, and held and live mutexes are mutexes.
LEMMA LevelTypes ==
  ASSUME TypeOK
  PROVE  /\ \A m \in Mutexes : mutex_level[m] \in Nat /\ mutex_level[m] <= ULONG_MAX
         /\ \A t \in Threads : thread_level[t] \in Nat /\ thread_level[t] <= ULONG_MAX
         /\ \A t \in Threads : held[t] \subseteq Mutexes /\ Live(t) \subseteq held[t]
  BY LevelMutexAssumption DEF TypeOK, Live

\* Live mutexes change only when a thread enters "release" or changes held.
LEMMA SameLive ==
  ASSUME TypeOK, NEW t \in Threads, NEW label, NEW m,
         pc[t] # "release", label # "release",
         Goto(t, label, m), UNCHANGED held
  PROVE  \A u \in Threads : Live(u)' = Live(u)
<1> SUFFICES ASSUME NEW u \in Threads PROVE Live(u)' = Live(u)
  OBVIOUS
<1>1. CASE u = t
  <2>1. pc'[u] = label
    BY <1>1 DEF Goto, TypeOK
  <2> QED
    BY <1>1, <2>1 DEF Live
<1>2. CASE u # t
  <2>1. pc'[u] = pc[u] /\ target'[u] = target[u]
    BY <1>2 DEF Goto, TypeOK
  <2> QED
    BY <2>1 DEF Live
<1> QED
  BY <1>1, <1>2

\* The steps that only move a thread's program counter.
LEMMA QuietActions ==
  ASSUME IInv, NEW t \in Threads, NEW m \in Mutexes,
         \/ lock(t, m) \/ lock_throws(t, m) \/ try_lock_refused(t, m)
         \/ unlock_throws(t, m) \/ lock_leaks(t) \/ resume(t)
  PROVE  Bookkeeping' /\ InCall' /\ OwnedIsHeld'
<1> USE DEF IInv
<1>1. /\ UNCHANGED <<thread_level, mtx, prev_levels, held>>
      /\ pc[t] # "release"
      /\ \E label \in {"acquire", "threw", "refused", "idle"}, x \in {m, NoMutex} :
           /\ Goto(t, label, x)
           /\ label = "acquire" => x = m /\ thread_level[t] < mutex_level[m]
      /\ pc[t] = "update" => AllocMayFail
  BY DEF lock, lock_throws, try_lock_refused, unlock_throws, lock_leaks, resume,
         check_level
<1>2. PICK label \in {"acquire", "threw", "refused", "idle"}, x \in {m, NoMutex} :
        /\ Goto(t, label, x)
        /\ label = "acquire" => x = m /\ thread_level[t] < mutex_level[m]
  BY <1>1
<1>3. \A u \in Threads : Live(u)' = Live(u)
  BY <1>1, <1>2, SameLive
<1>4. Bookkeeping'
  BY <1>1, <1>3, QuietStep DEF Bookkeeping
<1>5. /\ pc'[t] = label /\ target'[t] = x
      /\ \A u \in Threads : u # t => pc'[u] = pc[u] /\ target'[u] = target[u]
  BY <1>2 DEF Goto, TypeOK
<1>6. InCall'
  BY <1>1, <1>2, <1>5 DEF InCall
<1>7. OwnedIsHeld'
  BY <1>1, <1>5 DEF OwnedIsHeld
<1> QED
  BY <1>4, <1>6, <1>7

\* mtx.lock() returns, or mtx.try_lock() succeeds: thread t becomes the
\* owner of a mutex that had none.
LEMMA AcquireActions ==
  ASSUME IInv, NEW t \in Threads, NEW m \in Mutexes,
         try_lock(t, m) \/ (lock_acquired(t) /\ m = target[t])
  PROVE  Bookkeeping' /\ InCall' /\ OwnedIsHeld'
<1> USE LevelMutexAssumption DEF IInv
<1>1. /\ UNCHANGED <<thread_level, prev_levels, held>>
      /\ pc[t] \in {"idle", "acquire"}
      /\ mtx[m] = NoThread
      /\ mtx' = [mtx EXCEPT ![m] = t]
      /\ Goto(t, "update", m)
      /\ thread_level[t] < mutex_level[m]
  BY DEF try_lock, lock_acquired, check_level, InCall
<1>2. \A u \in Threads : Live(u)' = Live(u)
  BY <1>1, SameLive
<1>3. \A u \in Threads : m \notin held[u]
  BY <1>1 DEF HeldIsOwned
<1>4. Bookkeeping'
  <2>1. HeldIsOwned'
    BY <1>1, <1>3 DEF HeldIsOwned, TypeOK
  <2>2. DistinctLevels' /\ LevelIsHighest'
    BY <1>1, <1>2 DEF DistinctLevels, LevelIsHighest
  <2>3. SavedIsNext'
    BY <1>1, <1>2 DEF SavedIsNext
  <2>4. NothingElseSaved'
    BY <1>1, <1>2 DEF NothingElseSaved
  <2> QED
    BY <2>1, <2>2, <2>3, <2>4 DEF Bookkeeping
<1>5. /\ pc'[t] = "update" /\ target'[t] = m /\ mtx'[m] = t
      /\ \A u \in Threads : u # t => pc'[u] = pc[u] /\ target'[u] = target[u]
      /\ \A n \in Mutexes : n # m => mtx'[n] = mtx[n]
  BY <1>1 DEF Goto, TypeOK
<1>6. InCall'
  <2> SUFFICES ASSUME NEW u \in Threads
               PROVE  /\ pc'[u] \in {"acquire", "update"} =>
                           thread_level'[u] < mutex_level[target'[u]]
                      /\ pc'[u] = "update" => mtx'[target'[u]] = u
                      /\ pc'[u] = "release" =>
                           /\ target'[u] \in held'[u]
                           /\ \A n \in held'[u] : mutex_level[n] <= mutex_level[target'[u]]
    BY DEF InCall
  <2>1. CASE u = t
    BY <2>1, <1>1, <1>5
  <2>2. CASE u # t
    <3>1. pc[u] = "update" => target[u] \in Mutexes /\ target[u] # m
      BY <1>1 DEF InCall, TypeOK
    <3> QED
      BY <2>2, <3>1, <1>1, <1>5 DEF InCall
  <2> QED
    BY <2>1, <2>2
<1>7. OwnedIsHeld'
  BY <1>1, <1>5 DEF OwnedIsHeld, TypeOK
<1> QED
  BY <1>4, <1>6, <1>7

\* update_level() makes the mutex just acquired the innermost one.
LEMMA LockReturns ==
  ASSUME IInv, NEW t \in Threads, lock_returns(t)
  PROVE  Bookkeeping' /\ InCall' /\ OwnedIsHeld'
<1> DEFINE m == target[t]
<1> USE LevelMutexAssumption DEF IInv
<1>1. /\ pc[t] = "update" /\ m \in Mutexes /\ mtx[m] = t
      /\ thread_level[t] < mutex_level[m]
      /\ prev_levels' = [prev_levels EXCEPT ![m] = Append(@, thread_level[t])]
      /\ thread_level' = [thread_level EXCEPT ![t] = mutex_level[m]]
      /\ held' = [held EXCEPT ![t] = @ \cup {m}]
      /\ Goto(t, "idle", NoMutex)
      /\ UNCHANGED mtx
  BY DEF lock_returns, update_level, InCall, TypeOK
<1>2. Live(t) = held[t] /\ m \notin held[t]
  <2>1. Live(t) = held[t]
    BY <1>1 DEF Live
  <2>2. \A n \in held[t] : mutex_level[n] <= thread_level[t]
    BY <2>1 DEF LevelIsHighest
  <2> QED
    BY <1>1, <2>1, <2>2, LevelTypes
<1>3. \A u \in Threads : m \notin held[u]
  BY <1>1, <1>2 DEF HeldIsOwned
<1>4. prev_levels[m] = <<>>
  BY <1>1, <1>3 DEF NothingElseSaved, Live
<1>5. /\ pc'[t] = "idle" /\ held'[t] = held[t] \cup {m}
      /\ thread_level'[t] = mutex_level[m]
      /\ prev_levels'[m] = <<thread_level[t]>>
      /\ \A u \in Threads : u # t =>
           /\ pc'[u] = pc[u] /\ target'[u] = target[u] /\ held'[u] = held[u]
           /\ thread_level'[u] = thread_level[u]
      /\ \A n \in Mutexes : n # m => prev_levels'[n] = prev_levels[n]
  BY <1>1, <1>4 DEF Goto, TypeOK
<1>6. /\ Live(t)' = held[t] \cup {m}
      /\ \A u \in Threads : u # t => Live(u)' = Live(u)
  BY <1>5 DEF Live
<1> HIDE DEF m
<1>7. Bookkeeping'
  <2>1. HeldIsOwned'
    BY <1>1, <1>5 DEF HeldIsOwned
  <2>2. DistinctLevels'
    BY <1>1, <1>2, <1>5 DEF DistinctLevels, LevelIsHighest, TypeOK
  <2>3. LevelIsHighest'
    <3> SUFFICES ASSUME NEW u \in Threads
                 PROVE  /\ \A n \in Live(u)' : mutex_level[n] <= thread_level'[u]
                        /\ \/ thread_level'[u] = 0
                           \/ \E n \in Live(u)' : mutex_level[n] = thread_level'[u]
      BY DEF LevelIsHighest
    <3>1. CASE u = t
      <4>1. \A n \in held[t] : mutex_level[n] <= thread_level[t]
        BY <1>2 DEF LevelIsHighest
      <4> QED
        BY <3>1, <4>1, <1>1, <1>2, <1>5, <1>6, LevelTypes
    <3>2. CASE u # t
      BY <3>2, <1>5, <1>6 DEF LevelIsHighest
    <3> QED
      BY <3>1, <3>2
  <2>4. SavedIsNext'
    <3> SUFFICES ASSUME NEW u \in Threads, NEW n \in Live(u)'
                 PROVE  \E p \in 0 .. ULONG_MAX :
                          /\ prev_levels'[n] = <<p>>
                          /\ p < mutex_level[n]
                          /\ \A k \in Live(u)' :
                               mutex_level[k] < mutex_level[n] => mutex_level[k] <= p
                          /\ p = 0 \/ \E k \in Live(u)' : mutex_level[k] = p
      BY DEF SavedIsNext
    <3>1. CASE u # t
      <4>1. n \in Live(u) /\ Live(u)' = Live(u)
        BY <3>1, <1>6
      <4>2. prev_levels'[n] = prev_levels[n]
        BY <4>1, <1>3, <1>5, LevelTypes
      <4> QED
        BY <4>1, <4>2 DEF SavedIsNext
    <3>2. CASE u = t /\ n = m
      <4>1. thread_level[t] \in 0 .. ULONG_MAX
        BY DEF TypeOK
      <4> QED
        BY <3>2, <4>1, <1>1, <1>2, <1>5, <1>6 DEF LevelIsHighest
    <3>3. CASE u = t /\ n # m
      <4>1. n \in Live(t)
        BY <3>3, <1>2, <1>6
      <4>2. PICK p \in 0 .. ULONG_MAX :
              /\ prev_levels[n] = <<p>>
              /\ p < mutex_level[n]
              /\ \A k \in Live(t) : mutex_level[k] < mutex_level[n] => mutex_level[k] <= p
              /\ p = 0 \/ \E k \in Live(t) : mutex_level[k] = p
        BY <4>1 DEF SavedIsNext
      <4>3. mutex_level[n] <= thread_level[t]
        BY <4>1 DEF LevelIsHighest
      <4>4. ~(mutex_level[m] < mutex_level[n])
        BY <4>1, <4>3, <1>1, <1>2 DEF TypeOK
      <4>5. prev_levels'[n] = <<p>>
        BY <4>1, <4>2, <3>3, <1>5 DEF Live, TypeOK
      <4> QED
        BY <4>2, <4>4, <4>5, <3>3, <1>2, <1>6
    <3> QED
      BY <3>1, <3>2, <3>3
  <2>5. NothingElseSaved'
    <3> SUFFICES ASSUME NEW n \in Mutexes, \A u \in Threads : n \notin Live(u)'
                 PROVE  prev_levels'[n] = <<>>
      BY DEF NothingElseSaved
    <3>1. n # m /\ \A u \in Threads : n \notin Live(u)
      BY <1>2, <1>6
    <3> QED
      BY <3>1, <1>5 DEF NothingElseSaved
  <2> QED
    BY <2>1, <2>2, <2>3, <2>4, <2>5 DEF Bookkeeping
<1>8. InCall'
  BY <1>1, <1>5 DEF InCall
<1>9. OwnedIsHeld'
  BY <1>1, <1>5 DEF OwnedIsHeld, m
<1> QED
  BY <1>7, <1>8, <1>9

\* unlock() pops the saved level: the mutex stops being live and the next
\* one below it becomes the innermost.
LEMMA UnlockStep ==
  ASSUME IInv, NEW t \in Threads, NEW m \in Mutexes, unlock(t, m)
  PROVE  Bookkeeping' /\ InCall' /\ OwnedIsHeld'
<1> USE LevelMutexAssumption DEF IInv
<1>1. /\ pc[t] = "idle" /\ m \in held[t] /\ thread_level[t] = mutex_level[m]
      /\ Goto(t, "release", m)
      /\ UNCHANGED <<mtx, held>>
  BY DEF unlock, is_current
<1>2. Live(t) = held[t]
  BY <1>1 DEF Live
<1>3. PICK p \in 0 .. ULONG_MAX :
        /\ prev_levels[m] = <<p>>
        /\ p < mutex_level[m]
        /\ \A n \in Live(t) : mutex_level[n] < mutex_level[m] => mutex_level[n] <= p
        /\ p = 0 \/ \E n \in Live(t) : mutex_level[n] = p
  BY <1>1, <1>2 DEF SavedIsNext
<1>4. /\ thread_level' = [thread_level EXCEPT ![t] = p]
      /\ prev_levels' = [prev_levels EXCEPT ![m] = <<>>]
  <2>1. /\ prev_levels[m] # <<>> /\ prev_levels[m][Len(prev_levels[m])] = p
        /\ SubSeq(prev_levels[m], 1, Len(prev_levels[m]) - 1) = <<>>
    BY <1>3
  <2> QED
    BY <2>1 DEF unlock
<1>5. /\ pc'[t] = "release" /\ target'[t] = m
      /\ thread_level'[t] = p /\ prev_levels'[m] = <<>>
      /\ \A u \in Threads : u # t =>
           /\ pc'[u] = pc[u] /\ target'[u] = target[u]
           /\ thread_level'[u] = thread_level[u]
      /\ \A n \in Mutexes : n # m => prev_levels'[n] = prev_levels[n]
  BY <1>1, <1>4 DEF Goto, TypeOK
<1>6. /\ Live(t)' = held[t] \ {m}
      /\ \A u \in Threads : u # t => Live(u)' = Live(u) /\ m \notin Live(u)
  BY <1>1, <1>5 DEF Live, HeldIsOwned
<1>7. \A n \in held[t] \ {m} : mutex_level[n] <= p
  <2>1. \A n \in held[t] \ {m} :
          mutex_level[n] <= mutex_level[m] /\ mutex_level[n] # mutex_level[m]
    BY <1>1, <1>2 DEF LevelIsHighest, DistinctLevels
  <2> QED
    BY <2>1, <1>2, <1>3, LevelTypes
<1>8. Bookkeeping'
  <2>1. HeldIsOwned' /\ DistinctLevels'
    BY <1>1 DEF HeldIsOwned, DistinctLevels
  <2>2. LevelIsHighest'
    <3> SUFFICES ASSUME NEW u \in Threads
                 PROVE  /\ \A n \in Live(u)' : mutex_level[n] <= thread_level'[u]
                        /\ \/ thread_level'[u] = 0
                           \/ \E n \in Live(u)' : mutex_level[n] = thread_level'[u]
      BY DEF LevelIsHighest
    <3>1. CASE u = t
      <4>1. p = 0 \/ \E n \in held[t] \ {m} : mutex_level[n] = p
        BY <1>1, <1>2, <1>3, LevelTypes
      <4> QED
        BY <3>1, <4>1, <1>5, <1>6, <1>7
    <3>2. CASE u # t
      BY <3>2, <1>5, <1>6 DEF LevelIsHighest
    <3> QED
      BY <3>1, <3>2
  <2>3. SavedIsNext'
    <3> SUFFICES ASSUME NEW u \in Threads, NEW n \in Live(u)'
                 PROVE  \E q \in 0 .. ULONG_MAX :
                          /\ prev_levels'[n] = <<q>>
                          /\ q < mutex_level[n]
                          /\ \A k \in Live(u)' :
                               mutex_level[k] < mutex_level[n] => mutex_level[k] <= q
                          /\ q = 0 \/ \E k \in Live(u)' : mutex_level[k] = q
      BY DEF SavedIsNext
    <3>1. n \in Live(u) /\ n # m
      BY <1>2, <1>6
    <3>2. PICK q \in 0 .. ULONG_MAX :
            /\ prev_levels[n] = <<q>>
            /\ q < mutex_level[n]
            /\ \A k \in Live(u) : mutex_level[k] < mutex_level[n] => mutex_level[k] <= q
            /\ q = 0 \/ \E k \in Live(u) : mutex_level[k] = q
      BY <3>1 DEF SavedIsNext
    <3>3. prev_levels'[n] = prev_levels[n]
      BY <3>1, <1>5, LevelTypes
    <3>4. CASE u # t
      BY <3>2, <3>3, <3>4, <1>6
    <3>5. CASE u = t
      <4>1. q < mutex_level[m]
        BY <3>1, <3>2, <3>5, <1>1, LevelTypes DEF LevelIsHighest
      <4>2. q = 0 \/ \E k \in Live(u)' : mutex_level[k] = q
        BY <3>2, <3>5, <4>1, <1>2, <1>6, LevelTypes
      <4> QED
        BY <3>2, <3>3, <3>5, <4>2, <1>2, <1>6
    <3> QED
      BY <3>4, <3>5
  <2>4. NothingElseSaved'
    <3> SUFFICES ASSUME NEW n \in Mutexes, n # m, \A u \in Threads : n \notin Live(u)'
                 PROVE  prev_levels'[n] = <<>>
      BY <1>5 DEF NothingElseSaved
    <3>1. \A u \in Threads : n \notin Live(u)
      BY <1>2, <1>6
    <3> QED
      BY <3>1, <1>5 DEF NothingElseSaved
  <2> QED
    BY <2>1, <2>2, <2>3, <2>4 DEF Bookkeeping
<1>9. InCall'
  <2>1. \A n \in held[t] : mutex_level[n] <= mutex_level[m]
    BY <1>1, <1>2 DEF LevelIsHighest
  <2> QED
    BY <2>1, <1>1, <1>5 DEF InCall
<1>10. OwnedIsHeld'
  BY <1>1, <1>5 DEF OwnedIsHeld
<1> QED
  BY <1>8, <1>9, <1>10

\* mtx.unlock() frees a mutex that is no longer live.
LEMMA UnlockReturns ==
  ASSUME IInv, NEW t \in Threads, unlock_returns(t)
  PROVE  Bookkeeping' /\ InCall' /\ OwnedIsHeld'
<1> DEFINE m == target[t]
<1> USE LevelMutexAssumption DEF IInv
<1>1. /\ pc[t] = "release" /\ m \in held[t] /\ m \in Mutexes
      /\ mtx' = [mtx EXCEPT ![m] = NoThread]
      /\ held' = [held EXCEPT ![t] = @ \ {m}]
      /\ Goto(t, "idle", NoMutex)
      /\ UNCHANGED <<thread_level, prev_levels>>
  BY DEF unlock_returns, InCall, TypeOK
<1>2. /\ pc'[t] = "idle" /\ held'[t] = held[t] \ {m} /\ mtx'[m] = NoThread
      /\ \A u \in Threads : u # t =>
           /\ pc'[u] = pc[u] /\ target'[u] = target[u] /\ held'[u] = held[u]
           /\ m \notin held[u]
      /\ \A n \in Mutexes : n # m => mtx'[n] = mtx[n]
      /\ mtx[m] = t
  BY <1>1 DEF Goto, TypeOK, HeldIsOwned
<1>3. \A u \in Threads : Live(u)' = Live(u)
  BY <1>1, <1>2 DEF Live
<1> HIDE DEF m
<1>4. Bookkeeping'
  <2>1. HeldIsOwned'
    <3> SUFFICES ASSUME NEW u \in Threads, NEW n \in held'[u] PROVE mtx'[n] = u
      BY DEF HeldIsOwned
    <3>1. n \in held[u] /\ n # m
      BY <1>1, <1>2
    <3> QED
      BY <3>1, <1>2, LevelTypes DEF HeldIsOwned
  <2>2. DistinctLevels'
    <3> SUFFICES ASSUME NEW u \in Threads
                 PROVE  \A n \in held'[u] :
                          /\ 0 < mutex_level[n]
                          /\ \A k \in held'[u] : mutex_level[n] = mutex_level[k] => n = k
      BY DEF DistinctLevels
    <3>1. held'[u] \subseteq held[u]
      BY <1>1, <1>2
    <3> QED
      BY <3>1 DEF DistinctLevels
  <2>3. LevelIsHighest'
    BY <1>1, <1>3 DEF LevelIsHighest
  <2>4. SavedIsNext' /\ NothingElseSaved'
    BY <1>1, <1>3 DEF SavedIsNext, NothingElseSaved
  <2> QED
    BY <2>1, <2>2, <2>3, <2>4 DEF Bookkeeping
<1>5. InCall'
  <2> SUFFICES ASSUME NEW u \in Threads, u # t
               PROVE  /\ pc'[u] \in {"acquire", "update"} =>
                           thread_level'[u] < mutex_level[target'[u]]
                      /\ pc'[u] = "update" => mtx'[target'[u]] = u
                      /\ pc'[u] = "release" =>
                           /\ target'[u] \in held'[u]
                           /\ \A n \in held'[u] : mutex_level[n] <= mutex_level[target'[u]]
    BY <1>2 DEF InCall
  <2>1. pc[u] = "update" => target[u] \in Mutexes /\ target[u] # m
    BY <1>2 DEF InCall, TypeOK
  <2> QED
    BY <2>1, <1>1, <1>2 DEF InCall
<1>6. OwnedIsHeld'
  BY <1>1, <1>2 DEF OwnedIsHeld
<1> QED
  BY <1>4, <1>5, <1>6

\* Every step of the specification preserves the invariant.
LEMMA InvariantStep == IInv /\ [Next]_vars => IInv'
<1> SUFFICES ASSUME IInv, [Next]_vars PROVE IInv'
  OBVIOUS
<1>1. TypeOK'
  BY TypeStep DEF IInv
<1>2. Bookkeeping' /\ InCall' /\ OwnedIsHeld'
  <2>1. CASE UNCHANGED vars
    <3>1. \A t \in Threads : Live(t)' = Live(t)
      BY <2>1 DEF Live, vars
    <3>2. Bookkeeping'
      BY <2>1, <3>1, QuietStep DEF Bookkeeping, IInv, vars
    <3>3. InCall' /\ OwnedIsHeld'
      BY <2>1 DEF InCall, OwnedIsHeld, IInv, vars
    <3> QED
      BY <3>2, <3>3
  <2>2. ASSUME NEW t \in Threads, NEW m \in Mutexes, Call(t, m)
        PROVE  Bookkeeping' /\ InCall' /\ OwnedIsHeld'
    BY <2>2, QuietActions, AcquireActions, UnlockStep DEF Call
  <2>3. ASSUME NEW t \in Threads, Continue(t)
        PROVE  Bookkeeping' /\ InCall' /\ OwnedIsHeld'
    <3>1. CASE lock_acquired(t)
      <4>1. target[t] \in Mutexes
        BY <3>1 DEF lock_acquired, IInv, TypeOK
      <4> QED
        BY <3>1, <4>1, AcquireActions
    <3>2. CASE lock_returns(t)
      BY <3>2, LockReturns
    <3>3. CASE lock_leaks(t)
      <4>1. target[t] \in Mutexes
        BY <3>3 DEF lock_leaks, IInv, TypeOK
      <4> QED
        BY <3>3, <4>1, QuietActions
    <3>4. CASE unlock_returns(t)
      BY <3>4, UnlockReturns
    <3>5. CASE resume(t)
      <4>1. CASE Mutexes # {}
        <5>1. PICK m \in Mutexes : TRUE
          BY <4>1
        <5> QED
          BY <3>5, <5>1, QuietActions
      <4>2. CASE Mutexes = {}
        BY <4>2, <3>5 DEF IInv, Bookkeeping, HeldIsOwned, DistinctLevels,
             LevelIsHighest, SavedIsNext, NothingElseSaved, OwnedIsHeld, InCall,
             TypeOK, resume, Goto, PCs, Live
      <4> QED
        BY <4>1, <4>2
    <3> QED
      BY <2>3, <3>1, <3>2, <3>3, <3>4, <3>5 DEF Continue
  <2> QED
    BY <2>1, <2>2, <2>3 DEF Next
<1> QED
  BY <1>1, <1>2 DEF IInv, Bookkeeping

\* The inductive invariant holds in every reachable state.
THEOREM InvariantHolds == Spec => []IInv
<1>1. Init => IInv
  BY LevelMutexAssumption DEF Init, IInv, TypeOK, PCs, HeldIsOwned, InCall,
     DistinctLevels, LevelIsHighest, SavedIsNext, NothingElseSaved, OwnedIsHeld, Live
<1> QED
  BY <1>1, InvariantStep, PTL DEF Spec

-------------------------------------------------------------------------
(* What follows from it.                                                   *)

\* LevelIsInnermost: between calls thread_level is the level of the
\* innermost mutex held, and 0 exactly when none is.
THEOREM LevelCorrect == Spec => []LevelIsInnermost
<1>1. IInv => LevelIsInnermost
  <2> SUFFICES ASSUME IInv, NEW t \in Threads, pc[t] # "release"
               PROVE  /\ \A m \in held[t] : mutex_level[m] <= thread_level[t]
                      /\ \/ thread_level[t] = 0 /\ held[t] = {}
                         \/ \E m \in held[t] : mutex_level[m] = thread_level[t]
    BY DEF LevelIsInnermost
  <2>1. Live(t) = held[t]
    BY DEF Live
  <2>2. /\ \A m \in held[t] : mutex_level[m] <= thread_level[t]
        /\ \/ thread_level[t] = 0
           \/ \E m \in held[t] : mutex_level[m] = thread_level[t]
    BY <2>1 DEF IInv, LevelIsHighest
  <2>3. thread_level[t] = 0 => held[t] = {}
    BY <2>2, LevelTypes DEF IInv, DistinctLevels
  <2> QED
    BY <2>2, <2>3
<1> QED
  BY <1>1, InvariantHolds, PTL

\* OnlyInnermostUnlocks: nested guards never see unlock() throw.
THEOREM UnlockInnermost == Spec => []OnlyInnermostUnlocks
<1>1. IInv => OnlyInnermostUnlocks
  <2> SUFFICES ASSUME IInv, NEW t \in Threads, NEW m \in Mutexes,
                      pc[t] = "idle", m \in held[t]
               PROVE  thread_level[t] = mutex_level[m] <=>
                        \A n \in held[t] \ {m} : mutex_level[n] < mutex_level[m]
    BY DEF OnlyInnermostUnlocks, is_current
  <2>1. Live(t) = held[t]
    BY DEF Live
  <2>2. /\ \A n \in held[t] : mutex_level[n] <= thread_level[t]
        /\ \/ thread_level[t] = 0
           \/ \E n \in held[t] : mutex_level[n] = thread_level[t]
        /\ \A n \in held[t] : 0 < mutex_level[n]
        /\ \A n, k \in held[t] : mutex_level[k] = mutex_level[n] => k = n
    BY <2>1 DEF IInv, LevelIsHighest, DistinctLevels
  <2>3. /\ thread_level[t] \in Nat
        /\ \A n \in held[t] : mutex_level[n] \in Nat
    BY LevelTypes DEF IInv
  <2>4. ASSUME thread_level[t] = mutex_level[m], NEW n \in held[t] \ {m}
        PROVE  mutex_level[n] < mutex_level[m]
    BY <2>2, <2>3, <2>4
  <2>5. ASSUME \A n \in held[t] \ {m} : mutex_level[n] < mutex_level[m]
        PROVE  thread_level[t] = mutex_level[m]
    <3>1. PICK k \in held[t] : mutex_level[k] = thread_level[t]
      BY <2>2, <2>3
    <3>2. mutex_level[m] <= thread_level[t]
      BY <2>2
    <3>3. CASE k = m
      BY <3>1, <3>3
    <3>4. CASE k # m
      BY <2>5, <3>1, <3>2, <3>4, <2>3
    <3> QED
      BY <3>3, <3>4
  <2> QED
    BY <2>4, <2>5
<1> QED
  BY <1>1, InvariantHolds, PTL

\* Every non-empty set of bounded levels has a highest one.
LEMMA HighestExists ==
  ASSUME NEW D \in SUBSET (0 .. ULONG_MAX), D # {}
  PROVE  \E d \in D : \A e \in D : e <= d
<1> DEFINE E == {ULONG_MAX - d : d \in D}
<1>1. \A d \in D : d \in Nat /\ ULONG_MAX \in Nat /\ ULONG_MAX - d \in Nat
  BY LevelMutexAssumption
<1>2. E \subseteq Nat /\ E # {}
  BY <1>1, Zenon
<1>3. PICK x \in E : \A y \in E : ~(<<y, x>> \in OpToRel(<, Nat))
  BY <1>2, NatLessThanWellFounded, WFMin, Zenon
<1>4. \A y \in E : ~(y < x)
  BY <1>2, <1>3 DEF OpToRel
<1>5. PICK d \in D : x = ULONG_MAX - d
  BY Zenon
<1>6. ASSUME NEW e \in D PROVE e <= d
  <2>1. ~(ULONG_MAX - e < ULONG_MAX - d)
    BY <1>4, <1>5
  <2>2. d \in Nat /\ e \in Nat /\ ULONG_MAX \in Nat
    BY <1>1
  <2> HIDE DEF E
  <2> QED
    BY <2>1, <2>2
<1> QED
  BY <1>6

\* NoDeadlock: the circle would need levels that rise all the way around.
THEOREM DeadlockFree == Spec => []NoDeadlock
<1>1. IInv => NoDeadlock
  <2> SUFFICES ASSUME IInv, NEW S \in SUBSET Threads, Deadlocked(S) PROVE FALSE
    BY DEF NoDeadlock
  <2>1. \A t \in S : target[t] \in Mutexes /\ mutex_level[target[t]] \in 0 .. ULONG_MAX
    BY LevelMutexAssumption DEF Deadlocked, IInv, TypeOK
  <2>2. ASSUME NEW t \in S
        PROVE  \E u \in S : mutex_level[target[t]] < mutex_level[target[u]]
    <3> DEFINE u == mtx[target[t]]
    <3>1. u \in S /\ pc[u] = "acquire"
      BY DEF Deadlocked
    <3>2. target[t] \in held[u]
      <4>1. CASE AllocMayFail
        BY <4>1, <3>1, <2>1 DEF Deadlocked, Leaked
      <4>2. CASE ~AllocMayFail
        BY <4>2, <3>1, <2>1 DEF IInv, OwnedIsHeld
      <4> QED
        BY <4>1, <4>2
    <3>3. target[t] \in Live(u)
      BY <3>1, <3>2 DEF Live
    <3>4. mutex_level[target[t]] <= thread_level[u]
      BY <3>1, <3>3 DEF IInv, LevelIsHighest
    <3>5. thread_level[u] < mutex_level[target[u]]
      BY <3>1 DEF IInv, InCall
    <3> QED
      BY <3>1, <3>4, <3>5, <2>1, LevelTypes DEF IInv
  <2> DEFINE D == {mutex_level[target[t]] : t \in S}
  <2>3. D \in SUBSET (0 .. ULONG_MAX) /\ D # {}
    BY <2>1 DEF Deadlocked
  <2>4. PICK d \in D : \A e \in D : e <= d
    BY <2>3, HighestExists
  <2>5. PICK t \in S : d = mutex_level[target[t]]
    OBVIOUS
  <2>6. PICK u \in S : mutex_level[target[t]] < mutex_level[target[u]]
    BY <2>2
  <2> QED
    BY <2>1, <2>4, <2>5, <2>6
<1> QED
  BY <1>1, InvariantHolds, PTL

\* SavedUnderMutex: the vector is only touched by the owner of the mutex.
THEOREM SavedIsGuarded == Spec => SavedUnderMutex
<1> DEFINE Guarded(m) == prev_levels'[m] # prev_levels[m] =>
                           \E t \in Threads : mtx[m] = t /\ mtx'[m] = t /\ pc'[t] # pc[t]
<1>1. IInv /\ [Next]_vars => [\A m \in Mutexes : Guarded(m)]_vars
  <2> SUFFICES ASSUME IInv, [Next]_vars, NEW m \in Mutexes PROVE Guarded(m)
    OBVIOUS
  <2>1. CASE UNCHANGED vars
    BY <2>1 DEF vars
  <2>2. ASSUME NEW t \in Threads, NEW n \in Mutexes, Call(t, n) PROVE Guarded(m)
    <3>1. CASE unlock(t, n)
      <4>1. m # n => prev_levels'[m] = prev_levels[m]
        BY <3>1 DEF unlock, IInv, TypeOK
      <4>2. mtx[n] = t /\ mtx' = mtx /\ pc'[t] # pc[t]
        BY <3>1 DEF unlock, Goto, IInv, TypeOK, HeldIsOwned
      <4> QED
        BY <4>1, <4>2
    <3>2. CASE ~unlock(t, n)
      <4>1. prev_levels' = prev_levels
        BY <2>2, <3>2 DEF Call, lock, lock_throws, try_lock, try_lock_refused, unlock_throws
      <4> QED
        BY <4>1
    <3> QED
      BY <3>1, <3>2
  <2>3. ASSUME NEW t \in Threads, Continue(t) PROVE Guarded(m)
    <3>1. CASE lock_returns(t)
      <4>1. m # target[t] => prev_levels'[m] = prev_levels[m]
        BY <3>1 DEF lock_returns, update_level, IInv, TypeOK
      <4>2. mtx[target[t]] = t /\ mtx' = mtx /\ pc'[t] # pc[t]
        BY <3>1 DEF lock_returns, Goto, IInv, TypeOK, InCall
      <4> QED
        BY <4>1, <4>2
    <3>2. CASE ~lock_returns(t)
      <4>1. prev_levels' = prev_levels
        BY <2>3, <3>2 DEF Continue, lock_acquired, lock_leaks, unlock_returns, resume
      <4> QED
        BY <4>1
    <3> QED
      BY <3>1, <3>2
  <2> QED
    BY <2>1, <2>2, <2>3 DEF Next
<1> QED
  BY <1>1, InvariantHolds, PTL DEF Spec, SavedUnderMutex

\* ImplementsHierarchy: lock_returns is Acquire, unlock_returns is Release,
\* and every other step stutters.
THEOREM Refinement == Spec => ImplementsHierarchy
<1>1. Init => Hierarchy!Init
  BY DEF Init, Hierarchy!Init
<1>2. IInv /\ [Next]_vars => [Hierarchy!Next]_held
  <2> SUFFICES ASSUME IInv, [Next]_vars PROVE [Hierarchy!Next]_held
    OBVIOUS
  <2>1. CASE UNCHANGED vars
    BY <2>1 DEF vars
  <2>2. ASSUME NEW t \in Threads, lock_returns(t) PROVE Hierarchy!Next
    <3> DEFINE m == target[t]
    <3>1. /\ m \in Mutexes /\ mtx[m] = t /\ thread_level[t] < mutex_level[m]
          /\ held' = [held EXCEPT ![t] = @ \cup {m}]
          /\ Live(t) = held[t]
      BY <2>2 DEF lock_returns, IInv, InCall, TypeOK, Live
    <3>2. \A n \in held[t] : mutex_level[n] <= thread_level[t]
      BY <3>1 DEF IInv, LevelIsHighest
    <3>3. 0 < mutex_level[m] /\ \A n \in held[t] : mutex_level[n] < mutex_level[m]
      BY <3>1, <3>2, LevelTypes DEF IInv
    <3>4. \A u \in Threads : m \notin held[u]
      BY <3>1, <3>3, LevelTypes DEF IInv, HeldIsOwned
    <3> QED
      BY <3>1, <3>3, <3>4 DEF Hierarchy!Next, Hierarchy!Acquire, Hierarchy!Below
  <2>3. ASSUME NEW t \in Threads, unlock_returns(t) PROVE Hierarchy!Next
    <3>1. /\ target[t] \in Mutexes /\ target[t] \in held[t]
          /\ \A n \in held[t] : mutex_level[n] <= mutex_level[target[t]]
          /\ held' = [held EXCEPT ![t] = @ \ {target[t]}]
      BY <2>3 DEF unlock_returns, IInv, InCall, TypeOK
    <3> QED
      BY <3>1 DEF Hierarchy!Next, Hierarchy!Release, Hierarchy!Innermost
  <2>4. ASSUME NEW t \in Threads, Continue(t), ~lock_returns(t), ~unlock_returns(t)
        PROVE  UNCHANGED held
    BY <2>4 DEF Continue, lock_acquired, lock_leaks, resume
  <2>5. ASSUME NEW t \in Threads, NEW m \in Mutexes, Call(t, m)
        PROVE  UNCHANGED held
    BY <2>5 DEF Call, lock, lock_throws, try_lock, try_lock_refused, unlock, unlock_throws
  <2> QED
    BY <2>1, <2>2, <2>3, <2>4, <2>5 DEF Next
<1> QED
  BY <1>1, <1>2, InvariantHolds, PTL DEF Spec, ImplementsHierarchy, Hierarchy!Spec

-------------------------------------------------------------------------
(* LevelMutex_use.cpp: the functions that nest guards of these mutexes.    *)

\* The guards that stand at each statement of a function.
ScopesOfFoo == << <<>>, <<mtx1>>, <<mtx1, mtx3>> >>

ScopesOfBar ==
  << <<>>, <<mtx1>>, <<mtx1, mtx3>>, <<mtx1>>, <<mtx1, mtx4>>, <<mtx1, mtx4, mtx5>>,
     <<mtx1, mtx4>>, <<mtx1>>, <<>> >>

\* What the variables of the program hold; foo() does not get past its third statement.
UseTypeOK ==
  /\ function \in [Threads -> {foo, bar}]
  /\ pos \in [Threads -> 1 .. 9]
  /\ guards \in [Threads -> Seq(Mutexes)]
  /\ unwinding \in [Threads -> BOOLEAN]
  /\ \A t \in Threads : function[t] = foo => pos[t] <= 3

\* The guards of a thread are on the mutexes that it holds, in ascending levels.
GuardsNest ==
  \A t \in Threads :
    /\ held[t] = {guards[t][k] : k \in 1 .. Len(guards[t])}
    /\ \A j, k \in 1 .. Len(guards[t]) :
         j < k => mutex_level[guards[t][j]] < mutex_level[guards[t][k]]

\* Unless it unwinds, a thread has the guards of the statement that it has come to; foo() also
\* has no other ones while it unwinds.
GuardsMatch ==
  \A t \in Threads :
    /\ ~unwinding[t] /\ function[t] = foo => guards[t] = ScopesOfFoo[pos[t]]
    /\ ~unwinding[t] /\ function[t] = bar => guards[t] = ScopesOfBar[pos[t]]
    /\ function[t] = foo => held[t] \subseteq {mtx1, mtx3}

\* A thread that is inside lock() is in the constructor of a guard on that mutex.
InConstructor ==
  \A t \in Threads :
    pc[t] \in {"acquire", "update"} =>
      /\ ~unwinding[t] /\ pos[t] <= Len(body(t))
      /\ target[t] = body(t)[pos[t]]

\* What an exception that is under way was thrown for.
ThrownFor ==
  \A t \in Threads :
    pc[t] = "threw" =>
      /\ ~unwinding[t]
      /\ \/ function[t] = foo /\ pos[t] = 3
         \/ \E m \in Mutexes : mtx[m] = t /\ m \notin held[t]

UseIInv == IInv /\ UseTypeOK /\ GuardsNest /\ GuardsMatch /\ InConstructor /\ ThrownFor

\* A prefix of a sequence.
LEMMA Prefix ==
  ASSUME NEW S, NEW q \in Seq(S), NEW n \in Nat, n <= Len(q)
  PROVE  /\ SubSeq(q, 1, n) \in Seq(S) /\ Len(SubSeq(q, 1, n)) = n
         /\ \A k \in 1 .. n : SubSeq(q, 1, n)[k] = q[k]
<1>1. SubSeq(q, 1, n) \in Seq(S) /\ Len(SubSeq(q, 1, n)) = n
  OBVIOUS
<1>2. ASSUME NEW k \in 1 .. n PROVE SubSeq(q, 1, n)[k] = q[k]
  OBVIOUS
<1> QED
  BY <1>1, <1>2

\* A sequence that has lost its last element.
LEMMA Shrunk ==
  ASSUME NEW S, NEW q \in Seq(S), q # <<>>
  PROVE  /\ Len(q) \in 1 .. Len(q) /\ q[Len(q)] \in S
         /\ SubSeq(q, 1, Len(q) - 1) \in Seq(S)
         /\ Len(SubSeq(q, 1, Len(q) - 1)) = Len(q) - 1
         /\ \A k \in 1 .. Len(q) - 1 : SubSeq(q, 1, Len(q) - 1)[k] = q[k]
<1>1. Len(q) \in Nat /\ Len(q) # 0
  OBVIOUS
<1>2. Len(q) \in 1 .. Len(q) /\ Len(q) - 1 \in Nat /\ Len(q) - 1 <= Len(q)
  BY <1>1
<1> QED
  BY <1>2, Prefix, PopType

\* Append() is undone by taking the last element away.
LEMMA Undone ==
  ASSUME NEW S, NEW p \in Seq(S), NEW e \in S
  PROVE  SubSeq(Append(p, e), 1, Len(Append(p, e)) - 1) = p
<1> DEFINE q == Append(p, e)
<1>1. /\ q \in Seq(S) /\ Len(q) = Len(p) + 1 /\ Len(p) \in Nat
      /\ \A k \in 1 .. Len(p) : q[k] = p[k]
  BY AppendProperties
<1>2. Len(p) <= Len(q) /\ Len(q) - 1 = Len(p)
  BY <1>1
<1> HIDE DEF q
<1>3. /\ SubSeq(q, 1, Len(p)) \in Seq(S) /\ Len(SubSeq(q, 1, Len(p))) = Len(p)
      /\ \A k \in 1 .. Len(p) : SubSeq(q, 1, Len(p))[k] = q[k]
  BY <1>1, <1>2, Prefix
<1>4. SubSeq(q, 1, Len(p)) = p
  BY <1>1, <1>3, SeqEqual
<1> QED
  BY <1>2, <1>4 DEF q

\* The two functions of the file are what is said of them, and are not the same.
LEMMA TwoFunctions ==
  /\ foo # bar /\ Len(foo) = 6 /\ Len(bar) = 8
  /\ foo[1] = mtx1 /\ foo[2] = mtx3 /\ foo[3] = mtx2
  /\ bar[1] = mtx1 /\ bar[2] = mtx3 /\ bar[3] = end /\ bar[4] = mtx4 /\ bar[5] = mtx5
  /\ bar[6] = end /\ bar[7] = end /\ bar[8] = end
  /\ \A p \in 1 .. 3 : foo[p] # end
BY UseAssumption DEF foo, bar

\* The guards at each statement, one by one.
LEMMA Scopes ==
  /\ ScopesOfFoo[1] = <<>> /\ ScopesOfFoo[2] = <<mtx1>> /\ ScopesOfFoo[3] = <<mtx1, mtx3>>
  /\ ScopesOfBar[1] = <<>> /\ ScopesOfBar[2] = <<mtx1>> /\ ScopesOfBar[3] = <<mtx1, mtx3>>
  /\ ScopesOfBar[4] = <<mtx1>> /\ ScopesOfBar[5] = <<mtx1, mtx4>>
  /\ ScopesOfBar[6] = <<mtx1, mtx4, mtx5>> /\ ScopesOfBar[7] = <<mtx1, mtx4>>
  /\ ScopesOfBar[8] = <<mtx1>> /\ ScopesOfBar[9] = <<>>
BY DEF ScopesOfFoo, ScopesOfBar

\* A guard that is constructed is there at the next statement of foo().
LEMMA NextInFoo ==
  ASSUME NEW p \in {1, 2}
  PROVE  /\ ScopesOfFoo[p + 1] = Append(ScopesOfFoo[p], foo[p])
         /\ foo[p] \in {mtx1, mtx3}
<1>1. CASE p = 1
  <2>1. p + 1 = 2 /\ <<mtx1>> = Append(<<>>, mtx1)
    BY <1>1
  <2> QED
    BY <1>1, <2>1, Scopes, TwoFunctions
<1>2. CASE p = 2
  <2>1. p + 1 = 3 /\ <<mtx1, mtx3>> = Append(<<mtx1>>, mtx3)
    BY <1>2
  <2> QED
    BY <1>2, <2>1, Scopes, TwoFunctions
<1> QED
  BY <1>1, <1>2

\* A guard that is constructed is there at the next statement of bar().
LEMMA NextInBar ==
  ASSUME NEW p \in {1, 2, 4, 5}
  PROVE  ScopesOfBar[p + 1] = Append(ScopesOfBar[p], bar[p])
<1>1. CASE p = 1
  <2>1. p + 1 = 2 /\ <<mtx1>> = Append(<<>>, mtx1)
    BY <1>1
  <2> QED
    BY <1>1, <2>1, Scopes, TwoFunctions
<1>2. CASE p = 2
  <2>1. p + 1 = 3 /\ <<mtx1, mtx3>> = Append(<<mtx1>>, mtx3)
    BY <1>2
  <2> QED
    BY <1>2, <2>1, Scopes, TwoFunctions
<1>3. CASE p = 4
  <2>1. p + 1 = 5 /\ <<mtx1, mtx4>> = Append(<<mtx1>>, mtx4)
    BY <1>3
  <2> QED
    BY <1>3, <2>1, Scopes, TwoFunctions
<1>4. CASE p = 5
  <2>1. p + 1 = 6 /\ <<mtx1, mtx4, mtx5>> = Append(<<mtx1, mtx4>>, mtx5)
    BY <1>4
  <2> QED
    BY <1>4, <2>1, Scopes, TwoFunctions
<1> QED
  BY <1>1, <1>2, <1>3, <1>4

\* At the end of a scope of bar() the innermost guard goes.
LEMMA EndInBar ==
  ASSUME NEW p \in {3, 6, 7, 8}
  PROVE  ScopesOfBar[p + 1] = SubSeq(ScopesOfBar[p], 1, Len(ScopesOfBar[p]) - 1)
<1>1. /\ <<>> \in Seq(Mutexes) /\ <<mtx1>> \in Seq(Mutexes) /\ <<mtx1, mtx4>> \in Seq(Mutexes)
      /\ mtx1 \in Mutexes /\ mtx3 \in Mutexes /\ mtx4 \in Mutexes /\ mtx5 \in Mutexes
  BY UseAssumption
<1>2. ASSUME NEW r \in Seq(Mutexes), NEW e \in Mutexes, NEW q, q = Append(r, e)
      PROVE  r = SubSeq(q, 1, Len(q) - 1)
  BY <1>2, Undone
<1>3. \A a, b, c :
        <<a>> = Append(<<>>, a) /\ <<a, b>> = Append(<<a>>, b) /\ <<a, b, c>> = Append(<<a, b>>, c)
  OBVIOUS
<1>4. CASE p = 3
  <2>1. p + 1 = 4
    BY <1>4
  <2> QED
    BY <1>1, <1>2, <1>3, <1>4, <2>1, Scopes
<1>5. CASE p = 6
  <2>1. p + 1 = 7
    BY <1>5
  <2>2. ScopesOfBar[p] = Append(<<mtx1, mtx4>>, mtx5)
    BY <1>3, <1>5, Scopes
  <2>3. <<mtx1, mtx4>> = SubSeq(ScopesOfBar[p], 1, Len(ScopesOfBar[p]) - 1)
    BY <1>1, <1>2, <2>2
  <2>4. ScopesOfBar[p + 1] = <<mtx1, mtx4>>
    BY <2>1, Scopes
  <2> QED
    BY <2>3, <2>4, Zenon
<1>6. CASE p = 7
  <2>1. p + 1 = 8
    BY <1>6
  <2> QED
    BY <1>1, <1>2, <1>3, <1>6, <2>1, Scopes
<1>7. CASE p = 8
  <2>1. p + 1 = 9
    BY <1>7
  <2>2. ScopesOfBar[p] = Append(<<>>, mtx1)
    BY <1>3, <1>7, Scopes
  <2>3. <<>> = SubSeq(ScopesOfBar[p], 1, Len(ScopesOfBar[p]) - 1)
    BY <1>1, <1>2, <2>2
  <2>4. ScopesOfBar[p + 1] = <<>>
    BY <2>1, Scopes
  <2> QED
    BY <2>3, <2>4, Zenon
<1> QED
  BY <1>4, <1>5, <1>6, <1>7

\* A step of a thread of the program is a step of LevelMutex.
LEMMA UseStepIsStep ==
  ASSUME NEW t \in Threads, UseIInv, Step(t)
  PROVE  [Next]_vars
<1>1. ASSUME at_guard(t) PROVE body(t)[pos[t]] \in Mutexes
  <2>1. pos[t] \in 1 .. 8 /\ function[t] \in {foo, bar}
    BY <1>1, TwoFunctions DEF at_guard, running, body, UseIInv, UseTypeOK
  <2>2. CASE function[t] = foo
    <3>1. pos[t] \in 1 .. 3
      BY <2>1, <2>2 DEF UseIInv, UseTypeOK
    <3>2. foo[pos[t]] \in {mtx1, mtx2, mtx3}
      BY <3>1, TwoFunctions
    <3> QED
      BY <2>2, <3>2, UseAssumption DEF body
  <2>3. CASE function[t] = bar
    <3>1. bar[pos[t]] \in {mtx1, mtx3, mtx4, mtx5, end}
      BY <2>1, TwoFunctions
    <3> QED
      BY <1>1, <2>3, <3>1, UseAssumption DEF at_guard, body
  <2> QED
    BY <2>1, <2>2, <2>3
<1>2. ASSUME guards[t] # <<>> PROVE innermost(t) \in Mutexes
  BY <1>2, Shrunk DEF innermost, UseIInv, UseTypeOK
<1> QED
  BY <1>1, <1>2 DEF Step, guard_enter, guard_continues, guard_constructed, guard_throws,
     guard_leave, guard_destroyed, thread_dies, leaving, Next, Call, Continue, vars

\* Between calls, and inside lock(), the level of a thread is the level of its innermost guard.
LEMMA LevelOfInnermost ==
  ASSUME UseIInv, NEW t \in Threads, pc[t] # "release"
  PROVE  /\ guards[t] = <<>> => thread_level[t] = 0
         /\ guards[t] # <<>> =>
              /\ innermost(t) \in held[t] /\ thread_level[t] = mutex_level[innermost(t)]
              /\ \A n \in held[t] \ {innermost(t)} : mutex_level[n] < mutex_level[innermost(t)]
<1> USE DEF UseIInv, IInv
<1>1. Live(t) = held[t]
  BY DEF Live
<1>2. /\ \A m \in held[t] : mutex_level[m] <= thread_level[t]
      /\ \/ thread_level[t] = 0
         \/ \E m \in held[t] : mutex_level[m] = thread_level[t]
  BY <1>1 DEF LevelIsHighest
<1>3. CASE guards[t] = <<>>
  <2>1. held[t] = {}
    BY <1>3 DEF GuardsNest
  <2> QED
    BY <2>1, <1>2, <1>3
<1>4. CASE guards[t] # <<>>
  <2>1. Len(guards[t]) \in 1 .. Len(guards[t]) /\ Len(guards[t]) \in Nat
    BY <1>4, Shrunk DEF UseTypeOK
  <2>2. innermost(t) \in held[t]
    BY <2>1 DEF GuardsNest, innermost
  <2>3. ASSUME NEW n \in held[t] \ {innermost(t)}
        PROVE  mutex_level[n] < mutex_level[innermost(t)]
    <3>1. PICK k \in 1 .. Len(guards[t]) : n = guards[t][k]
      BY DEF GuardsNest
    <3>2. k < Len(guards[t])
      BY <3>1, <2>1, <2>3 DEF innermost
    <3> QED
      BY <3>1, <3>2, <2>1 DEF GuardsNest, innermost
  <2>4. thread_level[t] = mutex_level[innermost(t)]
    <3>1. thread_level[t] \in Nat /\ \A m \in held[t] : mutex_level[m] \in Nat
      BY LevelTypes
    <3>2. 0 < mutex_level[innermost(t)]
      BY <2>2 DEF DistinctLevels
    <3>3. PICK m \in held[t] : mutex_level[m] = thread_level[t]
      BY <1>2, <2>2, <3>1, <3>2
    <3> QED
      BY <1>2, <2>2, <2>3, <3>1, <3>3
  <2> QED
    BY <2>2, <2>3, <2>4, <1>4
<1> QED
  BY <1>3, <1>4

\* At the constructor of a guard the level allows it, but at the third guard of foo().
LEMMA GuardsAllowed ==
  ASSUME UseIInv, NEW t \in Threads, at_guard(t), pc[t] # "release"
  PROVE  thread_level[t] < mutex_level[body(t)[pos[t]]] <=>
           ~(function[t] = foo /\ pos[t] = 3)
<1> USE DEF UseIInv, UseTypeOK, body
<1>1. ~unwinding[t] /\ pos[t] \in 1 .. 9 /\ pos[t] <= Len(body(t)) /\ body(t)[pos[t]] # end
  BY DEF at_guard, running
<1>2. ASSUME NEW m \in Mutexes, NEW q \in Seq(Mutexes), guards[t] = Append(q, m)
      PROVE  thread_level[t] = mutex_level[m]
  <2>1. guards[t] # <<>> /\ innermost(t) = m
    BY <1>2 DEF innermost
  <2> QED
    BY <2>1, LevelOfInnermost
<1>3. CASE function[t] = foo
  <2>1. pos[t] \in 1 .. 3 /\ guards[t] = ScopesOfFoo[pos[t]]
    BY <1>1, <1>3 DEF GuardsMatch
  <2>2. CASE pos[t] = 1
    BY <2>1, <2>2, <1>3, LevelOfInnermost, TwoFunctions, UseAssumption DEF ScopesOfFoo
  <2>3. CASE pos[t] = 2
    <3>1. guards[t] = Append(<<>>, mtx1)
      BY <2>1, <2>3 DEF ScopesOfFoo
    <3>2. thread_level[t] = mutex_level[mtx1]
      <4>1. <<>> \in Seq(Mutexes) /\ mtx1 \in Mutexes
        BY UseAssumption
      <4> QED
        BY <3>1, <4>1, <1>2
    <3> QED
      BY <3>2, <2>3, <1>3, TwoFunctions, UseAssumption
  <2>4. CASE pos[t] = 3
    <3>1. guards[t] = Append(<<mtx1>>, mtx3)
      BY <2>1, <2>4 DEF ScopesOfFoo
    <3>2. thread_level[t] = mutex_level[mtx3]
      <4>1. <<mtx1>> \in Seq(Mutexes) /\ mtx3 \in Mutexes
        BY UseAssumption
      <4> QED
        BY <3>1, <4>1, <1>2
    <3> QED
      BY <3>2, <2>4, <1>3, TwoFunctions, UseAssumption
  <2> QED
    BY <2>1, <2>2, <2>3, <2>4
<1>4. CASE function[t] = bar
  <2>1. pos[t] \in {1, 2, 4, 5} /\ guards[t] = ScopesOfBar[pos[t]] /\ bar # foo
    BY <1>1, <1>4, TwoFunctions DEF GuardsMatch
  <2>2. CASE pos[t] = 1
    BY <2>1, <2>2, <1>4, LevelOfInnermost, TwoFunctions, UseAssumption DEF ScopesOfBar
  <2>3. CASE pos[t] \in {2, 4}
    <3>1. guards[t] = Append(<<>>, mtx1)
      BY <2>1, <2>3 DEF ScopesOfBar
    <3>2. thread_level[t] = mutex_level[mtx1]
      <4>1. <<>> \in Seq(Mutexes) /\ mtx1 \in Mutexes
        BY UseAssumption
      <4> QED
        BY <3>1, <4>1, <1>2
    <3> QED
      BY <2>1, <3>2, <2>3, <1>4, TwoFunctions, UseAssumption
  <2>4. CASE pos[t] = 5
    <3>1. guards[t] = Append(<<mtx1>>, mtx4)
      BY <2>1, <2>4 DEF ScopesOfBar
    <3>2. thread_level[t] = mutex_level[mtx4]
      <4>1. <<mtx1>> \in Seq(Mutexes) /\ mtx4 \in Mutexes
        BY UseAssumption
      <4> QED
        BY <3>1, <4>1, <1>2
    <3> QED
      BY <2>1, <3>2, <2>4, <1>4, TwoFunctions, UseAssumption
  <2> QED
    BY <2>1, <2>2, <2>3, <2>4
<1> QED
  BY <1>3, <1>4

\* The part of the invariant that is about the program.
UseParts == UseTypeOK /\ GuardsNest /\ GuardsMatch /\ InConstructor /\ ThrownFor

\* Steps inside lock() or into unlock(): no guard comes or goes.
LEMMA GuardsStay ==
  ASSUME UseIInv, NEW t \in Threads,
         guard_enter(t) \/ guard_continues(t) \/ guard_leave(t) \/ thread_dies(t)
  PROVE  UseParts'
<1> USE DEF UseIInv, UseParts
<1>1. UNCHANGED <<function, pos, guards, unwinding, held>>
  BY DEF guard_enter, guard_continues, guard_leave, thread_dies, useVars, vars, lock,
     lock_throws, lock_acquired, lock_leaks, unlock
<1>2. UseTypeOK' /\ GuardsNest' /\ GuardsMatch'
  BY <1>1 DEF UseTypeOK, GuardsNest, GuardsMatch
<1>3. \A u \in Threads : u # t => pc'[u] = pc[u] /\ target'[u] = target[u]
  BY DEF guard_enter, guard_continues, guard_leave, thread_dies, vars, lock,
     lock_throws, lock_acquired, lock_leaks, unlock, Goto, IInv, TypeOK
<1>4. \A u \in Threads, m \in Mutexes : u # t /\ mtx[m] = u => mtx'[m] = u
  BY LevelMutexAssumption DEF guard_enter, guard_continues, guard_leave, thread_dies, vars, lock,
     lock_throws, lock_acquired, lock_leaks, unlock, IInv, TypeOK
<1>5. CASE guard_enter(t)
  <2>1. at_guard(t) /\ pc[t] = "idle" /\ mtx' = mtx
    BY <1>5 DEF guard_enter, lock, lock_throws
  <2>2. \/ /\ pc'[t] = "acquire" /\ target'[t] = body(t)[pos[t]]
        \/ /\ pc'[t] = "threw"
           /\ ~(thread_level[t] < mutex_level[body(t)[pos[t]]])
    BY <1>5 DEF guard_enter, lock, lock_throws, check_level, Goto, IInv, TypeOK
  <2>3. pc'[t] = "threw" => function[t] = foo /\ pos[t] = 3
    BY <2>1, <2>2, GuardsAllowed
  <2>4. ~unwinding[t] /\ pos[t] <= Len(body(t))
    BY <2>1 DEF at_guard, running
  <2>5. InConstructor'
    BY <1>1, <1>3, <2>2, <2>4 DEF InConstructor, body
  <2>6. ThrownFor'
    BY <1>1, <1>3, <2>1, <2>2, <2>3, <2>4 DEF ThrownFor
  <2> QED
    BY <1>2, <2>5, <2>6
<1>6. CASE guard_continues(t)
  <2>1. at_guard(t) /\ ~unwinding[t]
    BY <1>6 DEF guard_continues, at_guard, running
  <2>2. CASE lock_acquired(t)
    <3>1. pc[t] = "acquire" /\ pc'[t] = "update" /\ target'[t] = target[t]
      BY <2>2 DEF lock_acquired, Goto, IInv, TypeOK
    <3>2. InConstructor'
      BY <1>1, <1>3, <3>1 DEF InConstructor, body
    <3>3. ThrownFor'
      BY <1>1, <1>3, <1>4, <3>1 DEF ThrownFor
    <3> QED
      BY <1>2, <3>2, <3>3
  <2>3. CASE lock_leaks(t)
    <3>1. pc[t] = "update" /\ pc'[t] = "threw" /\ mtx' = mtx
      BY <2>3 DEF lock_leaks, Goto, IInv, TypeOK
    <3>2. target[t] \in Mutexes /\ mtx[target[t]] = t
      BY <3>1 DEF IInv, InCall, TypeOK
    <3>3. target[t] \notin held[t]
      <4>1. thread_level[t] < mutex_level[target[t]]
        BY <3>1 DEF IInv, InCall
      <4>2. ASSUME target[t] \in held[t] PROVE FALSE
        <5>1. mutex_level[target[t]] <= thread_level[t]
          BY <3>1, <4>2 DEF IInv, LevelIsHighest, Live
        <5> QED
          BY <4>1, <5>1, <3>2, LevelTypes DEF IInv
      <4> QED
        BY <4>2
    <3>4. InConstructor'
      BY <1>1, <1>3, <3>1 DEF InConstructor, body
    <3>5. ThrownFor'
      BY <1>1, <1>3, <2>1, <3>1, <3>2, <3>3 DEF ThrownFor
    <3> QED
      BY <1>2, <3>4, <3>5
  <2> QED
    BY <1>6, <2>2, <2>3 DEF guard_continues
<1>7. CASE guard_leave(t)
  <2>1. pc'[t] = "release" /\ mtx' = mtx
    BY <1>7 DEF guard_leave, unlock, Goto, IInv, TypeOK
  <2>2. InConstructor' /\ ThrownFor'
    BY <1>1, <1>3, <2>1 DEF InConstructor, ThrownFor, body
  <2> QED
    BY <1>2, <2>2
<1>8. CASE thread_dies(t)
  <2>1. InConstructor' /\ ThrownFor'
    BY <1>1, <1>8 DEF thread_dies, vars, InConstructor, ThrownFor, body
  <2> QED
    BY <1>2, <2>1
<1> QED
  BY <1>5, <1>6, <1>7, <1>8

\* The constructor of a guard returns.
LEMMA GuardConstructed ==
  ASSUME UseIInv, NEW t \in Threads, guard_constructed(t)
  PROVE  UseParts'
<1> DEFINE m == target[t]
<1> USE DEF UseIInv, UseParts
<1>1. /\ at_guard(t) /\ pc[t] = "update" /\ lock_returns(t)
      /\ m = body(t)[pos[t]] /\ m \in Mutexes
      /\ thread_level[t] < mutex_level[m]
      /\ UNCHANGED <<function, unwinding, mtx>>
  BY DEF guard_constructed, lock_returns, InConstructor, IInv, TypeOK, InCall
<1>2. /\ ~unwinding[t] /\ ~(function[t] = foo /\ pos[t] = 3)
      /\ pos[t] <= Len(function[t]) /\ function[t][pos[t]] # end
  BY <1>1, GuardsAllowed DEF at_guard, running, body
<1>3. /\ guards'[t] = Append(guards[t], m) /\ pos'[t] = pos[t] + 1
      /\ held'[t] = held[t] \cup {m} /\ pc'[t] = "idle"
      /\ \A u \in Threads : u # t =>
           /\ guards'[u] = guards[u] /\ pos'[u] = pos[u] /\ held'[u] = held[u]
           /\ pc'[u] = pc[u] /\ target'[u] = target[u]
  BY DEF guard_constructed, lock_returns, Goto, UseTypeOK, IInv, TypeOK
<1> HIDE DEF m
<1>4. /\ function[t] = foo => pos[t] \in {1, 2}
      /\ function[t] = bar => pos[t] \in {1, 2, 4, 5}
  <2>1. pos[t] \in 1 .. 9 /\ (function[t] = foo => pos[t] <= 3)
    BY DEF UseTypeOK
  <2>2. function[t] = foo => pos[t] \in {1, 2}
    BY <2>1, <1>2
  <2>3. ASSUME function[t] = bar PROVE pos[t] \in {1, 2, 4, 5}
    <3>1. pos[t] <= 8 /\ bar[pos[t]] # end
      BY <2>3, <1>2, TwoFunctions
    <3>2. pos[t] # 3 /\ pos[t] # 6 /\ pos[t] # 7 /\ pos[t] # 8
      BY <3>1, TwoFunctions
    <3> QED
      BY <2>1, <3>1, <3>2
  <2> QED
    BY <2>2, <2>3
<1>5. UseTypeOK'
  <2>1. Append(guards[t], m) \in Seq(Mutexes)
    BY <1>1 DEF UseTypeOK
  <2>2. /\ function' = function /\ unwinding' = unwinding
        /\ guards' = [guards EXCEPT ![t] = Append(@, m)]
        /\ pos' = [pos EXCEPT ![t] = @ + 1]
    BY DEF guard_constructed, m
  <2>3. pos[t] + 1 \in 1 .. 9 /\ (function[t] = foo => pos[t] + 1 <= 3)
    BY <1>4 DEF UseTypeOK
  <2> QED
    BY <2>1, <2>2, <2>3 DEF UseTypeOK
<1>6. GuardsNest'
  <2> SUFFICES ASSUME NEW u \in Threads
               PROVE  /\ held'[u] = {guards'[u][k] : k \in 1 .. Len(guards'[u])}
                      /\ \A j, k \in 1 .. Len(guards'[u]) : j < k =>
                           mutex_level[guards'[u][j]] < mutex_level[guards'[u][k]]
    BY DEF GuardsNest
  <2>1. CASE u # t
    BY <2>1, <1>3 DEF GuardsNest
  <2>2. CASE u = t
    <3>1. /\ Len(guards'[t]) = Len(guards[t]) + 1 /\ Len(guards[t]) \in Nat
          /\ guards'[t][Len(guards[t]) + 1] = m
          /\ \A k \in 1 .. Len(guards[t]) : guards'[t][k] = guards[t][k]
      BY <1>1, <1>3, AppendProperties DEF UseTypeOK
    <3>2. held'[t] = {guards'[t][k] : k \in 1 .. Len(guards'[t])}
      BY <1>3, <3>1 DEF GuardsNest
    <3>3. \A n \in held[t] : mutex_level[n] < mutex_level[m]
      <4>1. \A n \in held[t] : mutex_level[n] <= thread_level[t]
        BY <1>1 DEF IInv, LevelIsHighest, Live
      <4> QED
        BY <4>1, <1>1, LevelTypes DEF IInv
    <3>4. ASSUME NEW j \in 1 .. Len(guards'[t]), NEW k \in 1 .. Len(guards'[t]), j < k
          PROVE  mutex_level[guards'[t][j]] < mutex_level[guards'[t][k]]
      <4>1. j \in 1 .. Len(guards[t]) /\ guards[t][j] \in held[t]
        BY <3>1, <3>4 DEF GuardsNest
      <4>2. CASE k = Len(guards[t]) + 1
        BY <4>1, <4>2, <3>1, <3>3
      <4>3. CASE k # Len(guards[t]) + 1
        BY <4>1, <4>3, <3>1, <3>4 DEF GuardsNest
      <4> QED
        BY <4>2, <4>3
    <3> QED
      BY <2>2, <3>2, <3>4
  <2> QED
    BY <2>1, <2>2
<1>7. GuardsMatch'
  <2>1. CASE function[t] = foo
    <3>1. guards[t] = ScopesOfFoo[pos[t]] /\ held[t] \subseteq {mtx1, mtx3} /\ m = foo[pos[t]]
      BY <2>1, <1>1, <1>2 DEF GuardsMatch, body
    <3>2. guards'[t] = ScopesOfFoo[pos'[t]] /\ held'[t] \subseteq {mtx1, mtx3}
      BY <2>1, <3>1, <1>3, <1>4, NextInFoo
    <3> QED
      BY <2>1, <3>2, <1>1, <1>3, TwoFunctions DEF GuardsMatch
  <2>2. CASE function[t] = bar
    <3>1. guards[t] = ScopesOfBar[pos[t]] /\ m = bar[pos[t]]
      BY <2>2, <1>1, <1>2 DEF GuardsMatch, body
    <3>2. guards'[t] = ScopesOfBar[pos'[t]]
      BY <2>2, <3>1, <1>3, <1>4, NextInBar
    <3> QED
      BY <2>2, <3>2, <1>1, <1>3, TwoFunctions DEF GuardsMatch
  <2> QED
    BY <2>1, <2>2 DEF UseTypeOK
<1>8. InConstructor' /\ ThrownFor'
  BY <1>1, <1>3 DEF InConstructor, ThrownFor, body
<1> QED
  BY <1>5, <1>6, <1>7, <1>8

\* The constructor of a guard throws.
LEMMA GuardThrows ==
  ASSUME UseIInv, NEW t \in Threads, guard_throws(t)
  PROVE  UseParts'
<1> USE DEF UseIInv, UseParts
<1>1. /\ pc[t] = "threw"
      /\ UNCHANGED <<function, pos, guards, held, mtx>>
      /\ \A u \in Threads : u # t =>
           pc'[u] = pc[u] /\ target'[u] = target[u] /\ unwinding'[u] = unwinding[u]
      /\ \/ unwinding'[t] = unwinding[t] /\ pc'[t] = "threw"
         \/ unwinding'[t] = TRUE /\ pc'[t] = "idle"
      /\ unwinding' \in [Threads -> BOOLEAN]
  BY DEF guard_throws, resume, Goto, vars, UseTypeOK, IInv, TypeOK
<1>2. UseTypeOK' /\ GuardsNest'
  BY <1>1 DEF UseTypeOK, GuardsNest
<1>3. GuardsMatch'
  BY <1>1 DEF GuardsMatch
<1>4. InConstructor' /\ ThrownFor'
  BY <1>1 DEF InConstructor, ThrownFor, body
<1> QED
  BY <1>2, <1>3, <1>4

\* The destructor of the innermost guard returns.
LEMMA GuardDestroyed ==
  ASSUME UseIInv, NEW t \in Threads, guard_destroyed(t)
  PROVE  UseParts'
<1> DEFINE g == guards[t]
<1> DEFINE front == SubSeq(g, 1, Len(g) - 1)
<1> USE DEF UseIInv, UseParts
<1>1. /\ g # <<>> /\ g \in Seq(Mutexes) /\ pc[t] = "release"
      /\ target[t] \in held[t]
      /\ \A n \in held[t] : mutex_level[n] <= mutex_level[target[t]]
      /\ at_end(t) \/ unwinding[t]
      /\ UNCHANGED <<function, unwinding>>
  BY DEF guard_destroyed, leaving, unlock_returns, UseTypeOK, IInv, InCall
<1>2. /\ Len(g) \in 1 .. Len(g) /\ Len(g) \in Nat
      /\ front \in Seq(Mutexes) /\ Len(front) = Len(g) - 1
      /\ \A k \in 1 .. Len(g) - 1 : front[k] = g[k]
  BY <1>1, Shrunk
<1>3. /\ guards'[t] = front /\ held'[t] = held[t] \ {target[t]} /\ pc'[t] = "idle"
      /\ guards' = [guards EXCEPT ![t] = front]
      /\ pos' = IF unwinding[t] THEN pos ELSE [pos EXCEPT ![t] = @ + 1]
      /\ \A u \in Threads : u # t =>
           /\ guards'[u] = guards[u] /\ held'[u] = held[u] /\ pos'[u] = pos[u]
           /\ pc'[u] = pc[u] /\ target'[u] = target[u]
  BY DEF guard_destroyed, unlock_returns, Goto, UseTypeOK, IInv, TypeOK
<1>4. \A m \in Mutexes, u \in Threads : u # t /\ mtx[m] = u => mtx'[m] = u
  BY <1>1 DEF guard_destroyed, unlock_returns, IInv, TypeOK, HeldIsOwned
<1>5. ~unwinding[t] => function[t] = bar /\ pos[t] \in {3, 6, 7, 8}
  <2>1. ASSUME ~unwinding[t] PROVE function[t] = bar /\ pos[t] \in {3, 6, 7, 8}
    <3>1. pos[t] <= Len(function[t]) /\ function[t][pos[t]] = end /\ pos[t] \in 1 .. 9
      BY <1>1, <2>1 DEF at_end, running, body, UseTypeOK
    <3>2. function[t] # foo
      BY <3>1, TwoFunctions DEF UseTypeOK
    <3>3. function[t] = bar /\ pos[t] <= 8 /\ bar[pos[t]] = end
      BY <3>1, <3>2, TwoFunctions DEF UseTypeOK
    <3>4. pos[t] # 1 /\ pos[t] # 2 /\ pos[t] # 4 /\ pos[t] # 5
      BY <3>3, TwoFunctions, UseAssumption
    <3> QED
      BY <3>1, <3>3, <3>4
  <2> QED
    BY <2>1
<1> HIDE DEF g, front
<1>6. target[t] = g[Len(g)]
  <2>1. PICK k \in 1 .. Len(g) : target[t] = g[k]
    BY <1>1 DEF GuardsNest, g
  <2>2. g[Len(g)] \in held[t] /\ (k < Len(g) => mutex_level[g[k]] < mutex_level[g[Len(g)]])
    BY <1>2 DEF GuardsNest, g
  <2>3. mutex_level[g[k]] \in Nat /\ mutex_level[g[Len(g)]] \in Nat
    BY <1>1, <2>1, <2>2, LevelTypes DEF IInv
  <2>4. ~(k < Len(g))
    BY <1>1, <2>1, <2>2, <2>3
  <2> QED
    BY <1>2, <2>1, <2>4
<1>7. UseTypeOK'
  <2>1. ~unwinding[t] => pos[t] + 1 \in 1 .. 9
    BY <1>5
  <2>2. function[t] = foo => pos'[t] <= 3
    BY <1>3, <1>5, TwoFunctions DEF UseTypeOK
  <2> QED
    BY <2>1, <2>2, <1>1, <1>2, <1>3 DEF UseTypeOK
<1>8. GuardsNest'
  <2> SUFFICES ASSUME NEW u \in Threads
               PROVE  /\ held'[u] = {guards'[u][k] : k \in 1 .. Len(guards'[u])}
                      /\ \A j, k \in 1 .. Len(guards'[u]) : j < k =>
                           mutex_level[guards'[u][j]] < mutex_level[guards'[u][k]]
    BY DEF GuardsNest
  <2>1. CASE u # t
    BY <2>1, <1>3 DEF GuardsNest
  <2>2. CASE u = t
    <3>1. \A k \in 1 .. Len(front) : k \in 1 .. Len(g) /\ k < Len(g) /\ front[k] = g[k]
      BY <1>2
    <3>2. \A k \in 1 .. Len(g) : k \in 1 .. Len(front) \/ k = Len(g)
      BY <1>2
    <3>3. held[t] = {g[k] : k \in 1 .. Len(g)}
      BY DEF GuardsNest, g
    <3>4. \A k \in 1 .. Len(front) : g[k] # g[Len(g)]
      <4>1. \A k \in 1 .. Len(front) : mutex_level[g[k]] < mutex_level[g[Len(g)]]
        BY <3>1, <1>2 DEF GuardsNest, g
      <4>2. mutex_level[g[Len(g)]] \in Nat
        BY <1>1, <1>6, LevelTypes DEF IInv
      <4> QED
        BY <4>1, <4>2
    <3>5. held[t] \ {g[Len(g)]} = {front[k] : k \in 1 .. Len(front)}
      BY <3>1, <3>2, <3>3, <3>4
    <3>6. \A j, k \in 1 .. Len(front) : j < k => mutex_level[front[j]] < mutex_level[front[k]]
      BY <3>1 DEF GuardsNest, g
    <3>7. guards'[u] = front /\ held'[u] = held[t] \ {g[Len(g)]}
      BY <2>2, <1>3, <1>6
    <3> QED
      BY <3>5, <3>6, <3>7, Zenon
  <2> QED
    BY <2>1, <2>2
<1>9. GuardsMatch'
  <2>1. ASSUME ~unwinding[t] PROVE guards'[t] = ScopesOfBar[pos'[t]] /\ function[t] = bar
    <3>1. g = ScopesOfBar[pos[t]] /\ pos'[t] = pos[t] + 1
      BY <2>1, <1>3, <1>5 DEF GuardsMatch, UseTypeOK, g
    <3> QED
      BY <2>1, <3>1, <1>3, <1>5, EndInBar DEF front
  <2>2. \A u \in Threads : held'[u] \subseteq held[u]
    BY <1>3
  <2> QED
    BY <2>1, <2>2, <1>1, <1>3, TwoFunctions DEF GuardsMatch
<1>10. InConstructor'
  BY <1>1, <1>3 DEF InConstructor, body
<1>11. ThrownFor'
  BY <1>1, <1>3, <1>4 DEF ThrownFor
<1> QED
  BY <1>7, <1>8, <1>9, <1>10, <1>11

\* Every step of the program preserves the invariant.
LEMMA UseInvariantStep == UseIInv /\ [UseNext]_allVars => UseIInv'
<1> SUFFICES ASSUME UseIInv, [UseNext]_allVars PROVE UseIInv'
  OBVIOUS
<1>1. CASE UNCHANGED allVars
  <2>1. IInv'
    BY <1>1, InvariantStep DEF UseIInv, allVars
  <2>2. UseTypeOK' /\ GuardsNest' /\ GuardsMatch' /\ InConstructor' /\ ThrownFor'
    BY <1>1 DEF UseIInv, allVars, vars, useVars, UseTypeOK, GuardsNest, GuardsMatch,
       InConstructor, ThrownFor, body
  <2> QED
    BY <2>1, <2>2 DEF UseIInv
<1>2. ASSUME NEW t \in Threads, Step(t) PROVE UseIInv'
  <2>1. IInv'
    BY <1>2, UseStepIsStep, InvariantStep DEF UseIInv
  <2>2. UseParts'
    BY <1>2, GuardsStay, GuardConstructed, GuardThrows, GuardDestroyed DEF Step
  <2> QED
    BY <2>1, <2>2 DEF UseIInv, UseParts
<1> QED
  BY <1>1, <1>2 DEF UseNext, Terminating

\* The inductive invariant of the program holds in every reachable state.
THEOREM UseInvariantHolds == UseSpec => []UseIInv
<1>1. UseInit => UseIInv
  <2> SUFFICES ASSUME UseInit PROVE UseIInv
    OBVIOUS
  <2>1. IInv
    BY LevelMutexAssumption DEF UseInit, Init, IInv, TypeOK, PCs, HeldIsOwned, InCall,
       DistinctLevels, LevelIsHighest, SavedIsNext, NothingElseSaved, OwnedIsHeld, Live
  <2>2. UseTypeOK
    BY DEF UseInit, UseTypeOK
  <2>3. GuardsNest
    <3>1. \A t \in Threads : guards[t] = <<>> /\ held[t] = {}
      BY DEF UseInit, Init
    <3>2. Len(<<>>) = 0 /\ 1..0 = {}
      OBVIOUS
    <3> QED
      BY <3>1, <3>2 DEF GuardsNest
  <2>4. GuardsMatch
    BY Scopes DEF UseInit, Init, GuardsMatch
  <2>5. InConstructor /\ ThrownFor
    BY DEF UseInit, Init, InConstructor, ThrownFor
  <2> QED
    BY <2>1, <2>2, <2>3, <2>4, <2>5 DEF UseIInv
<1> QED
  BY <1>1, UseInvariantStep, PTL DEF UseSpec

\* DestructorsNeverThrow: the guards of a thread nest in ascending levels, so the innermost one,
\* whose destructor is next, is on the mutex of the current level.
THEOREM DestructorsHold == UseSpec => []DestructorsNeverThrow
<1>1. UseIInv => DestructorsNeverThrow
  <2> SUFFICES ASSUME UseIInv, NEW t \in Threads, guards[t] # <<>>, pc[t] = "idle"
               PROVE  innermost(t) \in held[t] /\ thread_level[t] = mutex_level[innermost(t)]
    BY DEF DestructorsNeverThrow, leaving, is_current
  <2> QED
    BY LevelOfInnermost
<1> QED
  BY <1>1, UseInvariantHolds, PTL

\* OnlyFooFails: at each guard the level is below the level of its mutex, but at the third of foo().
THEOREM OnlyFooHolds == UseSpec => []OnlyFooFails
<1>1. UseIInv => OnlyFooFails
  <2> SUFFICES ASSUME UseIInv, NEW t \in Threads
               PROVE  /\ function[t] = foo => pos[t] <= 3 /\ mtx2 \notin held[t]
                      /\ pc[t] = "threw" => \/ function[t] = foo /\ pos[t] = 3
                                            \/ \E m \in Mutexes : mtx[m] = t /\ m \notin held[t]
    BY DEF OnlyFooFails
  <2>1. mtx2 # mtx1 /\ mtx2 # mtx3
    BY UseAssumption
  <2> QED
    BY <2>1 DEF UseIInv, UseTypeOK, GuardsMatch, ThrownFor
<1> QED
  BY <1>1, UseInvariantHolds, PTL

=========================================================================
