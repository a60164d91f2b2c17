--------------------------- MODULE LevelMutex ---------------------------
(***************************************************************************)
(* class LevelMutex (LevelMutex.h): a std::mutex that may only be locked   *)
(* by a thread whose current level is below the level of the mutex.  The   *)
(* current level is a thread_local; each mutex saves, in prev_levels, the  *)
(* level its owner goes back to.                                           *)
(*                                                                         *)
(* Any thread may call lock() or try_lock() on any mutex, and unlock() on  *)
(* any mutex it has locked, in any order: std::lock_guard would unlock     *)
(* innermost first, std::unique_lock need not.  Unlocking a mutex another  *)
(* thread owns is undefined for the std::mutex inside and is not modelled. *)
(***************************************************************************)
EXTENDS Naturals, Sequences

CONSTANTS
  Threads,       \* the threads of the program
  Mutexes,       \* the LevelMutex objects
  mutex_level,   \* member mutex_level, fixed by the constructor
  ULONG_MAX,     \* levels are unsigned long
  AllocMayFail,  \* may prev_levels.push_back throw std::bad_alloc?
  NoThread,      \* owner of a std::mutex that is not locked
  NoMutex        \* target of a thread that is not inside a call

ASSUME LevelMutexAssumption ==
  /\ ULONG_MAX \in Nat
  /\ mutex_level \in [Mutexes -> 0 .. ULONG_MAX]
  /\ AllocMayFail \in BOOLEAN
  /\ NoThread \notin Threads
  /\ NoMutex \notin Mutexes

VARIABLES
  thread_level,  \* the thread_local current level
  mtx,           \* the owner of the std::mutex inside each LevelMutex
  prev_levels,   \* the saved levels in each LevelMutex, a vector
  pc,            \* where each thread stands in its call
  target,        \* the mutex its call is about
  held           \* the mutexes whose lock() returned and unlock() did not

vars == <<thread_level, mtx, prev_levels, pc, target, held>>

(***************************************************************************)
(* pc: "idle"    in the caller's code                                      *)
(*     "acquire" past check_level(), blocked in mtx.lock()                 *)
(*     "update"  owns mtx, about to run update_level()                     *)
(*     "release" has restored the level, about to call mtx.unlock()        *)
(*     "threw"   an exception is on its way to the caller                  *)
(*     "refused" try_lock() has returned false                             *)
(***************************************************************************)
PCs == {"idle", "acquire", "update", "release", "threw", "refused"}

Goto(t, label, m) ==
  /\ pc' = [pc EXCEPT ![t] = label]
  /\ target' = [target EXCEPT ![t] = m]

-------------------------------------------------------------------------
(* The methods.                                                            *)

\* Mutation: only a second mutex of the same level is refused.
check_level_different(t, m) == thread_level[t] # mutex_level[m]

\* check_level() returns; otherwise it throws std::logic_error.
check_level(t, m) == thread_level[t] < mutex_level[m]

\* unlock() does not throw: the mutex is the innermost one.
is_current(t, m) == thread_level[t] = mutex_level[m]

\* Mutation: the level is raised but the old one is not saved.
update_level_unsaved(t, m) ==
  /\ UNCHANGED prev_levels
  /\ thread_level' = [thread_level EXCEPT ![t] = mutex_level[m]]

update_level(t, m) ==
  /\ prev_levels' = [prev_levels EXCEPT ![m] = Append(@, thread_level[t])]
  /\ thread_level' = [thread_level EXCEPT ![t] = mutex_level[m]]

\* lock(), up to the call of mtx.lock().
lock(t, m) ==
  /\ pc[t] = "idle"
  /\ check_level(t, m)
  /\ Goto(t, "acquire", m)
  /\ UNCHANGED <<thread_level, mtx, prev_levels, held>>

\* lock() and try_lock() begin with check_level(); here it throws.
lock_throws(t, m) ==
  /\ pc[t] = "idle"
  /\ ~check_level(t, m)
  /\ Goto(t, "threw", NoMutex)
  /\ UNCHANGED <<thread_level, mtx, prev_levels, held>>

\* mtx.lock() returns.
lock_acquired(t) ==
  /\ pc[t] = "acquire"
  /\ mtx[target[t]] = NoThread
  /\ mtx' = [mtx EXCEPT ![target[t]] = t]
  /\ Goto(t, "update", target[t])
  /\ UNCHANGED <<thread_level, prev_levels, held>>

\* Mutation: the result of mtx.try_lock() is not looked at.
try_lock_unchecked(t, m) ==
  /\ pc[t] = "idle"
  /\ check_level(t, m)
  /\ mtx' = [mtx EXCEPT ![m] = t]
  /\ Goto(t, "update", m)
  /\ UNCHANGED <<thread_level, prev_levels, held>>

\* try_lock() with the std::mutex free.
try_lock(t, m) ==
  /\ pc[t] = "idle"
  /\ check_level(t, m)
  /\ mtx[m] = NoThread
  /\ mtx' = [mtx EXCEPT ![m] = t]
  /\ Goto(t, "update", m)
  /\ UNCHANGED <<thread_level, prev_levels, held>>

\* try_lock() returns false; std::mutex::try_lock may fail spuriously.
try_lock_refused(t, m) ==
  /\ pc[t] = "idle"
  /\ check_level(t, m)
  /\ Goto(t, "refused", NoMutex)
  /\ UNCHANGED <<thread_level, mtx, prev_levels, held>>

\* update_level() completes lock() or try_lock().
lock_returns(t) ==
  /\ pc[t] = "update"
  /\ update_level(t, target[t])
  /\ held' = [held EXCEPT ![t] = @ \cup {target[t]}]
  /\ Goto(t, "idle", NoMutex)
  /\ UNCHANGED mtx

\* push_back throws before it changes anything; mtx stays locked and no
\* guard was constructed that would ever unlock it.
lock_leaks(t) ==
  /\ AllocMayFail
  /\ pc[t] = "update"
  /\ Goto(t, "threw", NoMutex)
  /\ UNCHANGED <<thread_level, mtx, prev_levels, held>>

\* Mutation: the mutex is released before the saved level is popped.
unlock_early(t, m) ==
  LET saved == prev_levels[m] IN
  /\ pc[t] = "idle"
  /\ m \in held[t]
  /\ is_current(t, m)
  /\ thread_level' = [thread_level EXCEPT ![t] =
                        IF saved = <<>> THEN 0 ELSE saved[Len(saved)]]
  /\ prev_levels' = [prev_levels EXCEPT ![m] =
                       IF @ = <<>> THEN @ ELSE SubSeq(@, 1, Len(@) - 1)]
  /\ mtx' = [mtx EXCEPT ![m] = NoThread]
  /\ Goto(t, "release", m)
  /\ UNCHANGED held

\* Mutation: the level is reset instead of restored.
unlock_to_zero(t, m) ==
  /\ pc[t] = "idle"
  /\ m \in held[t]
  /\ is_current(t, m)
  /\ thread_level' = [thread_level EXCEPT ![t] = 0]
  /\ prev_levels' = [prev_levels EXCEPT ![m] = <<>>]
  /\ Goto(t, "release", m)
  /\ UNCHANGED <<mtx, held>>

\* unlock() of the innermost mutex, up to the call of mtx.unlock().
unlock(t, m) ==
  LET saved == prev_levels[m] IN
  /\ pc[t] = "idle"
  /\ m \in held[t]
  /\ is_current(t, m)
  /\ thread_level' = [thread_level EXCEPT ![t] =
                        IF saved = <<>> THEN 0 ELSE saved[Len(saved)]]
  /\ prev_levels' = [prev_levels EXCEPT ![m] =
                       IF @ = <<>> THEN @ ELSE SubSeq(@, 1, Len(@) - 1)]
  /\ Goto(t, "release", m)
  /\ UNCHANGED <<mtx, held>>

\* unlock() out of order: the level does not match and it throws.
unlock_throws(t, m) ==
  /\ pc[t] = "idle"
  /\ m \in held[t]
  /\ ~is_current(t, m)
  /\ Goto(t, "threw", NoMutex)
  /\ UNCHANGED <<thread_level, mtx, prev_levels, held>>

\* mtx.unlock() completes unlock().
unlock_returns(t) ==
  /\ pc[t] = "release"
  /\ mtx' = [mtx EXCEPT ![target[t]] = NoThread]
  /\ held' = [held EXCEPT ![t] = @ \ {target[t]}]
  /\ Goto(t, "idle", NoMutex)
  /\ UNCHANGED <<thread_level, prev_levels>>

\* The caller handles the exception, or the false, and goes on.  No call
\* changed anything before it threw, so there is nothing to roll back here;
\* unwinding is a series of unlock() calls.
resume(t) ==
  /\ pc[t] \in {"threw", "refused"}
  /\ Goto(t, "idle", NoMutex)
  /\ UNCHANGED <<thread_level, mtx, prev_levels, held>>

-------------------------------------------------------------------------

Init ==
  /\ thread_level = [t \in Threads |-> 0]
  /\ mtx = [m \in Mutexes |-> NoThread]
  /\ prev_levels = [m \in Mutexes |-> <<>>]
  /\ pc = [t \in Threads |-> "idle"]
  /\ target = [t \in Threads |-> NoMutex]
  /\ held = [t \in Threads |-> {}]

Call(t, m) ==
  \/ lock(t, m)
  \/ lock_throws(t, m)
  \/ try_lock(t, m)
  \/ try_lock_refused(t, m)
  \/ unlock(t, m)
  \/ unlock_throws(t, m)

Continue(t) ==
  \/ lock_acquired(t)
  \/ lock_returns(t)
  \/ lock_leaks(t)
  \/ unlock_returns(t)
  \/ resume(t)

Next == \E t \in Threads : Continue(t) \/ \E m \in Mutexes : Call(t, m)

Spec == Init /\ [][Next]_vars

-------------------------------------------------------------------------
(* Properties.                                                             *)

\* Type invariant; levels stay within unsigned long.
TypeOK ==
  /\ thread_level \in [Threads -> 0 .. ULONG_MAX]
  /\ mtx \in [Mutexes -> Threads \cup {NoThread}]
  /\ prev_levels \in [Mutexes -> Seq(0 .. ULONG_MAX)]
  /\ pc \in [Threads -> PCs]
  /\ target \in [Threads -> Mutexes \cup {NoMutex}]
  /\ held \in [Threads -> SUBSET Mutexes]
  /\ \A t \in Threads :
       pc[t] \in {"acquire", "update", "release"} => target[t] \in Mutexes

\* Locked for good: owned by a thread that is past the failed push_back and
\* has no guard that would unlock it.
Leaked(m) ==
  \E t \in Threads :
    /\ mtx[m] = t
    /\ m \notin held[t]
    /\ ~(pc[t] = "update" /\ target[t] = m)

\* S is a set of threads each blocked on a mutex another member must unlock.
Deadlocked(S) ==
  /\ S # {}
  /\ \A t \in S : /\ pc[t] = "acquire"
                  /\ mtx[target[t]] \in S
                  /\ AllocMayFail => ~Leaked(target[t])

\* The purpose of the hierarchy (check_level): no set of threads, whatever
\* they lock, ever waits for each other in a circle.  Only a mutex leaked by
\* a failed push_back, which nobody will ever unlock, can block for good.
NoDeadlock == \A S \in SUBSET Threads : ~Deadlocked(S)

\* The thread_local level always is the level of the innermost mutex the
\* thread holds, and 0 when it holds none: unlock() puts back the right
\* level whatever the thread and others did since lock().
LevelIsInnermost ==
  \A t \in Threads : pc[t] # "release" =>
    /\ \A m \in held[t] : mutex_level[m] <= thread_level[t]
    /\ \/ thread_level[t] = 0 /\ held[t] = {}
       \/ \E m \in held[t] : mutex_level[m] = thread_level[t]

\* unlock() throws exactly when the mutex is not the innermost one held, so
\* the destructors of nested lock_guards never throw.
OnlyInnermostUnlocks ==
  \A t \in Threads, m \in Mutexes :
    pc[t] = "idle" /\ m \in held[t] =>
      (is_current(t, m) <=>
         \A n \in held[t] \ {m} : mutex_level[n] < mutex_level[m])

\* prev_levels has no lock of its own: only the thread that owns the mutex
\* before and after the step may take a step that changes it (lines 33 and
\* 59 to 63), or two threads would race.
SavedUnderMutex ==
  [][\A m \in Mutexes : prev_levels'[m] # prev_levels[m] =>
       \E t \in Threads : mtx[m] = t /\ mtx'[m] = t /\ pc'[t] # pc[t]]_vars

\* LevelMutex implements the abstract hierarchy: every lock() that returns
\* acquired a free mutex above all levels held, every unlock() that returns
\* released the innermost one.
Hierarchy == INSTANCE HierarchicalLocking
ImplementsHierarchy == Hierarchy!Spec

=========================================================================
