----------------------------- MODULE UniqueLock -----------------------------
(***************************************************************************)
(* The two functions of the repository that use what only a unique_lock    *)
(* can do.  process_data() (unique_lock.cpp) gets a lock from get_lock(),  *)
(* which locks mtx, prepares data and hands the ownership over to its      *)
(* caller.  wait_for_flag() (sleep_for.cpp) unlocks m while it sleeps      *)
(* between two looks at a flag.  Who sets the flag is not in the           *)
(* repository: here a thread that locks m to do so (external).             *)
(***************************************************************************)
EXTENDS Naturals

CONSTANTS
  Processors,   \* the threads that call process_data()
  Waiters,      \* the threads that call wait_for_flag()
  Setter,       \* the thread that sets the flag
  NoThread

UniqueLockAssumption ==
  /\ Setter \notin Waiters
  /\ Processors \cap (Waiters \cup {Setter}) = {}
  /\ NoThread \notin Processors \cup Waiters \cup {Setter}

Flaggers == Waiters \cup {Setter}
Callers == Processors \cup Flaggers

VARIABLES
  mtx, m,     \* who owns the two mutexes
  flag,
  data,       \* the thread that has prepared the data last
  held,       \* the threads in whose stack frame a unique_lock owns a mutex
  pc          \* where each thread stands

vars == <<mtx, m, flag, data, held, pc>>

(***************************************************************************)
(* Processors: "lock" line 44, "prepare" 45, "return" 48, "work" 54,       *)
(*             "leave" 55, "ended"                                         *)
(* Waiters:    "lock" lines 9 and 14, "test" 10, "unlock" 12, "sleep" 13,  *)
(*             "leave" 16, "ended"                                         *)
(* Setter:     "lock", "set", "leave", "ended"                             *)
(***************************************************************************)
Init ==
  /\ mtx = NoThread /\ m = NoThread
  /\ flag = FALSE
  /\ data = NoThread
  /\ held = {}
  /\ pc = [t \in Callers |-> "lock"]

Go(t, from, to) == pc[t] = from /\ pc' = [pc EXCEPT ![t] = to]

\* The constructor of lk, in get_lock().
lock_mtx(t) ==
  /\ Go(t, "lock", "prepare") /\ mtx = NoThread
  /\ mtx' = t /\ held' = held \cup {t}
  /\ UNCHANGED <<m, flag, data>>

prepare_data(t) ==
  /\ Go(t, "prepare", "return")
  /\ data' = t
  /\ UNCHANGED <<mtx, m, flag, held>>

\* Mutation: the lock is not returned but destroyed, as a lock_guard would be.
return_unlocks(t) ==
  /\ Go(t, "return", "work")
  /\ mtx' = NoThread /\ held' = held \ {t}
  /\ UNCHANGED <<m, flag, data>>

\* return lk: the lock of the caller owns the mutex now, the local one does not and unlocks
\* nothing when it is destroyed.
return(t) ==
  /\ Go(t, "return", "work")
  /\ UNCHANGED <<mtx, m, flag, data, held>>

work(t) ==
  /\ Go(t, "work", "leave")
  /\ UNCHANGED <<mtx, m, flag, data, held>>

\* The destructor of lk, in process_data().
leave_mtx(t) ==
  /\ Go(t, "leave", "ended")
  /\ mtx' = IF t \in held THEN NoThread ELSE mtx
  /\ held' = held \ {t}
  /\ UNCHANGED <<m, flag, data>>

-------------------------------------------------------------------------

\* The constructor of lk, lk.lock(), and the setter.
lock_m(t) ==
  /\ Go(t, "lock", IF t = Setter THEN "set" ELSE "test") /\ m = NoThread
  /\ m' = t /\ held' = held \cup {t}
  /\ UNCHANGED <<mtx, flag, data>>

\* while (!flag).
test(t) ==
  /\ Go(t, "test", IF flag THEN "leave" ELSE "unlock")
  /\ UNCHANGED <<mtx, m, flag, data, held>>

\* lk.unlock().
unlock(t) ==
  /\ Go(t, "unlock", "sleep")
  /\ m' = NoThread /\ held' = held \ {t}
  /\ UNCHANGED <<mtx, flag, data>>

sleep_for(t) ==
  /\ Go(t, "sleep", "lock")
  /\ UNCHANGED <<mtx, m, flag, data, held>>

set(t) ==
  /\ Go(t, "set", "leave")
  /\ flag' = TRUE
  /\ UNCHANGED <<mtx, m, data, held>>

\* The destructor of lk.
leave_m(t) ==
  /\ Go(t, "leave", "ended")
  /\ m' = IF t \in held THEN NoThread ELSE m
  /\ held' = held \ {t}
  /\ UNCHANGED <<mtx, flag, data>>

Process(t) == lock_mtx(t) \/ prepare_data(t) \/ return(t) \/ work(t) \/ leave_mtx(t)
Flagging(t) == test(t) \/ unlock(t) \/ sleep_for(t) \/ set(t) \/ leave_m(t)

Finished == (\A t \in Callers : pc[t] = "ended") /\ UNCHANGED vars

Next ==
  \/ \E t \in Processors : Process(t)
  \/ \E t \in Flaggers : lock_m(t) \/ Flagging(t)
  \/ Finished

Spec == Init /\ [][Next]_vars

\* Every thread goes on in the end.  The waiters lock and unlock m again and again: that another
\* thread gets it nevertheless is strong fairness, for which the sleep of line 13 makes room.
FairSpec ==
  /\ Spec
  /\ \A t \in Processors : WF_vars(Process(t))
  /\ \A t \in Flaggers : WF_vars(Flagging(t)) /\ SF_vars(lock_m(t))

-------------------------------------------------------------------------

\* What process_data() works on is what its own get_lock() has prepared: nobody else has come
\* between the two functions (the comment of line 53).
WorkIsMine == \A t \in Processors : pc[t] \in {"return", "work"} => data = t

\* Every function has returned.
Over == \A t \in Callers : pc[t] = "ended"

=============================================================================
