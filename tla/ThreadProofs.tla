---------------------------- MODULE ThreadProofs ----------------------------
(***************************************************************************)
(* Machine-checked proofs about                                            *)
(*   - ThreadOwners, for every set of objects and threads: a started       *)
(*     thread is owned once until it is joined or detached, and only an    *)
(*     empty thread_guard terminates the process;                          *)
(*   - WaitingPrograms, for every number of threads, blocks and chunks:    *)
(*     what the programs with a latch, a barrier and a condition variable  *)
(*     rely on when a wait is over.                                        *)
(* The two share no variable.                                              *)
(***************************************************************************)
EXTENDS ThreadOwners, WaitingPrograms, FiniteSetTheorems, TLAPS

-------------------------------------------------------------------------
(* The inductive invariant.                                                *)

OwnersTypeOK ==
  /\ alive \subseteq Objects
  /\ thread \in [Holders -> Threads \cup {NoThread}]
  /\ running \subseteq Threads /\ finished \subseteq Threads
  /\ joined \subseteq finished /\ detached \subseteq Started
  /\ joined \cap detached = {}

\* The threads that must have an owner.
Owed == Started \ (joined \cup detached)

Owners == \A o \in Holders : joinable(o) => o \in alive \cup {Parameter} /\ thread[o] \in Owed
OneEach == \A o, p \in Holders : joinable(o) /\ thread[o] = thread[p] => o = p
AllOwned == \A t \in Owed : \E o \in Holders : thread[o] = t

Ownership == OwnersTypeOK /\ Owners /\ OneEach /\ AllOwned

\* What is known at each point of a call: after the join the member has no thread, and after the
\* assignment the thread has left where it came from.
Calls ==
  /\ call = "idle" => ~joinable(Parameter)
  /\ call # "idle" => self \in alive
  /\ joinable(Parameter) => rhs = Parameter /\ self \notin Guards
  /\ call \in {"assign", "move"} => rhs \in alive \cup {Parameter}
  /\ call \in {"destroy", "member"} => rhs = NoObject
  /\ call \in {"move", "member"} => ~joinable(self)
  /\ call = "leave" => ~joinable(Parameter)

OwnersInv == Ownership /\ Calls /\ OnlyEmptyGuardTerminates

\* The inductive invariant says more than OwnedOnce.
LEMMA OwnersInvOwned == OwnersInv => OwnedOnce
  BY ThreadAssumption DEF OwnersInv, Ownership, OwnersTypeOK, Owners, OneEach, AllOwned, Calls, Owed,
     OwnedOnce, joinable, Started, Holders

\* An object without a thread has no finished thread either.
LEMMA NoThreadIsNotFinished == Ownership => NoThread \notin finished
  BY ThreadAssumption DEF Ownership, OwnersTypeOK

\* An object that does not exist has no thread.
LEMMA NewIsEmpty ==
  ASSUME Ownership, NEW o \in Objects, o \notin alive
  PROVE  ~joinable(o)
  BY ThreadAssumption DEF Ownership, Owners, Holders

-------------------------------------------------------------------------
(* The ways in which the operations change who owns which thread.          *)

\* An object without a thread is made or goes, or nothing of this changes.
LEMMA NoThreadStep ==
  ASSUME Ownership,
         \/ alive' = alive
         \/ \E o \in Objects : alive' = alive \cup {o} \/ (~joinable(o) /\ alive' = alive \ {o}),
         UNCHANGED <<thread, running, finished, joined, detached>>
  PROVE  Ownership'
<1>1. Started' = Started /\ Owed' = Owed
  BY DEF Owed, Started
<1> QED
  BY <1>1 DEF Ownership, OwnersTypeOK, Owners, OneEach, AllOwned, joinable

\* A thread that finishes leaves its owner as it is.
LEMMA FinishStep == ASSUME Ownership, NEW t \in Threads, Finish(t) PROVE Ownership'
<1>1. Started' = Started /\ Owed' = Owed
  BY DEF Finish, Started, Owed, Ownership, OwnersTypeOK, released
<1> QED
  BY <1>1 DEF Ownership, OwnersTypeOK, Owners, OneEach, AllOwned, joinable, Finish, released

\* o, which has no thread, gets the new thread t.
LEMMA StartStep ==
  ASSUME Ownership, NEW o \in Holders, ~joinable(o), NEW t \in Threads, Start(o, t),
         alive' \in {alive, alive \cup {o}} /\ alive' \subseteq Objects,
         o \in alive' \cup {Parameter}
  PROVE  Ownership'
<1> USE ThreadAssumption DEF Ownership, Start, released
<1>1. /\ Started' = Started \cup {t} /\ t \notin joined \cup detached
      /\ Owed' = Owed \cup {t}
  BY DEF Started, Owed, OwnersTypeOK
<1>2. OwnersTypeOK'
  BY <1>1 DEF OwnersTypeOK
<1>3. \A p \in Holders : thread'[p] = IF p = o THEN t ELSE thread[p]
  BY DEF OwnersTypeOK
<1>4. Owners' /\ OneEach'
  <2>1. \A p \in Holders : joinable(p) => thread[p] # t
    BY DEF Owners, Owed
  <2> QED
    BY <1>1, <1>3, <2>1 DEF Owners, OneEach, joinable
<1>5. AllOwned'
  <2> SUFFICES ASSUME NEW u \in Owed \cup {t}
               PROVE  \E q \in Holders : thread'[q] = u
    BY <1>1 DEF AllOwned
  <2>1. CASE u = t
    BY <1>3, <2>1
  <2>2. CASE u # t
    <3>1. PICK q \in Holders : thread[q] = u
      BY <2>2 DEF AllOwned
    <3>2. u \in Threads
      BY <2>2 DEF OwnersTypeOK, Owed, Started
    <3>3. q # o
      BY <3>1, <3>2 DEF joinable
    <3> QED
      BY <1>3, <3>1, <3>3
  <2> QED
    BY <2>1, <2>2
<1> QED
  BY <1>2, <1>4, <1>5

\* o lets go of its thread, which was joined or is detached.
LEMMA LetGoStep ==
  ASSUME Ownership, NEW o \in Holders, joinable(o),
         \/ thread[o] \in finished /\ joined' = joined \cup {thread[o]} /\ UNCHANGED detached
         \/ detached' = detached \cup {thread[o]} /\ UNCHANGED joined,
         thread' = [thread EXCEPT ![o] = NoThread],
         UNCHANGED <<alive, running, finished>>
  PROVE  Ownership'
<1> USE ThreadAssumption DEF Ownership
<1>1. Started' = Started /\ Owed' = Owed \ {thread[o]}
  BY DEF Started, Owed
<1>2. thread[o] \in Owed
  BY DEF Owners
<1>3. OwnersTypeOK'
  BY <1>1, <1>2 DEF OwnersTypeOK, Owed, Started
<1>4. \A p \in Holders : thread'[p] = IF p = o THEN NoThread ELSE thread[p]
  BY DEF OwnersTypeOK
<1>5. Owners' /\ OneEach'
  BY <1>1, <1>4 DEF Owners, OneEach, joinable
<1>6. AllOwned'
  BY <1>1, <1>4 DEF AllOwned
<1> QED
  BY <1>3, <1>5, <1>6

\* o, which has no thread, takes the thread of p, which may be o.
LEMMA TakeStep ==
  ASSUME Ownership, NEW o \in Holders, ~joinable(o), NEW p \in Holders, Take(o, p),
         alive' \in {alive, alive \cup {o}} /\ alive' \subseteq Objects,
         o \in alive' \cup {Parameter}
  PROVE  Ownership'
<1> USE ThreadAssumption DEF Ownership, Take, released
<1>1. Started' = Started /\ Owed' = Owed
  BY DEF Started, Owed
<1>2. OwnersTypeOK'
  BY <1>1 DEF OwnersTypeOK
<1>3. \A q \in Holders :
        thread'[q] = IF q = p THEN NoThread ELSE IF q = o THEN thread[p] ELSE thread[q]
  BY DEF OwnersTypeOK
<1>4. Owners'
  <2> SUFFICES ASSUME NEW q \in Holders, thread'[q] # NoThread
               PROVE  q \in alive' \cup {Parameter} /\ thread'[q] \in Owed
    BY <1>1 DEF Owners, joinable
  <2>1. CASE q = o
    BY <1>3, <2>1 DEF Owners, joinable
  <2>2. CASE q # o
    BY <1>3, <2>2 DEF Owners, joinable
  <2> QED
    BY <2>1, <2>2
<1>5. OneEach'
  BY <1>3 DEF OneEach, joinable
<1>6. AllOwned'
  <2> SUFFICES ASSUME NEW u \in Owed PROVE \E q \in Holders : thread'[q] = u
    BY <1>1 DEF AllOwned
  <2>1. PICK q \in Holders : thread[q] = u
    BY DEF AllOwned
  <2>2. u # NoThread
    BY DEF OwnersTypeOK, Owed, Started
  <2>3. q # o
    BY <2>1, <2>2 DEF joinable
  <2>4. thread'[IF q = p THEN o ELSE q] = u
    BY <1>3, <2>1, <2>3
  <2> QED
    BY <2>4
<1> QED
  BY <1>2, <1>4, <1>5, <1>6

\* Two objects change their threads.
LEMMA SwapStep ==
  ASSUME Ownership, NEW o \in Objects, NEW p \in Objects, swap(o, p)
  PROVE  Ownership'
<1> USE ThreadAssumption DEF Ownership, Holders
<1>1. Started' = Started /\ Owed' = Owed
  BY DEF Started, Owed, swap, released
<1>2. OwnersTypeOK'
  BY <1>1 DEF OwnersTypeOK, swap, released
<1>3. \A q \in Holders :
        thread'[q] = IF q = p THEN thread[o] ELSE IF q = o THEN thread[p] ELSE thread[q]
  BY DEF OwnersTypeOK, swap
<1>4. Owners'
  <2> SUFFICES ASSUME NEW q \in Holders, thread'[q] # NoThread
               PROVE  q \in alive' \cup {Parameter} /\ thread'[q] \in Owed
    BY <1>1 DEF Owners, joinable
  <2>1. {o, p} \subseteq alive /\ alive' = alive
    BY DEF swap, Ready
  <2>2. \E r \in Holders : thread'[q] = thread[r] /\ (q \in {o, p} \/ r = q)
    BY <1>3
  <2> QED
    BY <2>1, <2>2 DEF Owners, joinable
<1>5. OneEach'
  BY <1>3 DEF OneEach, joinable
<1>6. AllOwned'
  BY <1>1, <1>3 DEF AllOwned
<1> QED
  BY <1>2, <1>4, <1>5, <1>6

-------------------------------------------------------------------------
(* The steps.                                                              *)

\* A call begins: nothing is known of it yet but what it works on.
LEMMA BeginStep ==
  ASSUME OwnersInv, NEW o \in alive, Ready(o), NEW p,
         \/ call' = "assign" /\ p \in alive /\ UNCHANGED thread
         \/ call' = "assign" /\ p = Parameter /\ o \notin Guards
         \/ call' = "destroy" /\ p = NoObject /\ UNCHANGED thread,
         self' = o, rhs' = p, UNCHANGED <<alive, terminated>>
  PROVE  Calls' /\ OnlyEmptyGuardTerminates'
  BY ThreadAssumption DEF OwnersInv, Calls, OnlyEmptyGuardTerminates, Ready, joinable

\* Nothing is called, and the parameter stays empty.
LEMMA IdleStep ==
  ASSUME OwnersInv, call = "idle", UNCHANGED <<frame, terminated>>, ~joinable(Parameter)'
  PROVE  Calls' /\ OnlyEmptyGuardTerminates'
  BY DEF OwnersInv, Calls, OnlyEmptyGuardTerminates, frame

\* What the rest of a call does, in either class, once the join is over.
LEMMA RestStep ==
  ASSUME OwnersInv, NEW o \in Objects, move_assign(o) \/ leave(o) \/ destroy_member(o)
  PROVE  OwnersInv'
<1> USE ThreadAssumption DEF OwnersInv
<1>0. o \in Holders /\ Parameter \in Holders /\ alive \subseteq Objects /\ NoObject \notin alive
  BY DEF Holders, Ownership, OwnersTypeOK
<1>1. CASE move_assign(o)
  <2>1. /\ ~joinable(o) /\ call = "move" /\ self = o /\ o \in alive
        /\ call' = "leave" /\ UNCHANGED <<self, rhs, alive, terminated>> /\ ~terminated
        /\ Take(o, rhs)
    BY <1>1 DEF move_assign, Go, Calls, Take
  <2>2. rhs \in Holders
    BY <1>0, <2>1 DEF Calls, Holders
  <2>3. Ownership'
    BY <1>0, <2>1, <2>2, TakeStep
  <2>4. ~joinable(Parameter)'
    <3>1. \A q \in Holders : thread'[q] =
            IF q = rhs THEN NoThread ELSE IF q = o THEN thread[rhs] ELSE thread[q]
      BY <1>0, <2>1, <2>2 DEF Take, Ownership, OwnersTypeOK
    <3> QED
      BY <1>0, <2>1, <3>1 DEF Calls, joinable
  <2>5. Calls' /\ OnlyEmptyGuardTerminates'
    BY <2>1, <2>4 DEF Calls, OnlyEmptyGuardTerminates
  <2> QED
    BY <2>3, <2>5
<1>2. CASE leave(o)
  <2>1. /\ call' = "idle" /\ ~terminated
        /\ UNCHANGED <<alive, thread, running, finished, joined, detached, terminated>>
        /\ ~joinable(Parameter)
    BY <1>2 DEF leave, Calls, Return, released
  <2> QED
    BY <2>1, NoThreadStep DEF Calls, OnlyEmptyGuardTerminates, joinable
<1>3. CASE destroy_member(o)
  <2>1. /\ call = "member" /\ self = o /\ ~joinable(o) /\ ~terminated
        /\ call' = "idle" /\ alive' = alive \ {o}
        /\ UNCHANGED <<thread, running, finished, joined, detached, terminated>>
    BY <1>3 DEF destroy_member, Calls, Return, released
  <2>2. ~joinable(Parameter)
    BY <2>1 DEF Calls
  <2> QED
    BY <2>1, <2>2, NoThreadStep DEF Calls, OnlyEmptyGuardTerminates, joinable
<1> QED
  BY <1>1, <1>2, <1>3

\* After the join the member has no thread.
LEMMA JoinedStep ==
  ASSUME OwnersInv, NEW o \in Objects, self = o, Go("assign", "move") \/ Go("destroy", "member"),
         \/ Join(o)
         \/ ~joinable(o) /\ UNCHANGED <<alive, thread, running, finished, released, terminated>>
  PROVE  OwnersInv'
<1> USE ThreadAssumption DEF OwnersInv
<1>0. o \in Holders /\ Parameter \in Holders /\ o # Parameter /\ ~terminated
  BY DEF Holders, Go
<1>1. CASE Join(o)
  <2>1. joinable(o)
    BY <1>1, NoThreadIsNotFinished DEF Join, joinable
  <2>2. Ownership'
    BY <1>0, <1>1, <2>1, LetGoStep DEF Join
  <2>3. \A p \in Holders : thread'[p] = IF p = o THEN NoThread ELSE thread[p]
    BY <1>1 DEF Join, Ownership, OwnersTypeOK
  <2>4. joinable(Parameter)' = joinable(Parameter) /\ ~joinable(o)'
    BY <1>0, <2>3 DEF joinable
  <2> QED
    BY <1>0, <1>1, <2>2, <2>4 DEF Join, Go, Calls, OnlyEmptyGuardTerminates
<1>2. CASE ~joinable(o) /\ UNCHANGED <<alive, thread, running, finished, released, terminated>>
  <2>1. Ownership'
    BY <1>2, NoThreadStep DEF released
  <2> QED
    BY <1>0, <1>2, <2>1 DEF Go, Calls, OnlyEmptyGuardTerminates, joinable
<1> QED
  BY <1>1, <1>2

\* Every step of JThread keeps the invariant.
LEMMA JThreadStep == ASSUME OwnersInv, JThreadNext(Objects \ Guards) PROVE OwnersInv'
<1> USE ThreadAssumption
<1> PICK o \in Objects \ Guards :
      \/ construct(o) \/ join(o) \/ detach(o) \/ destroy(o)
      \/ \E t \in Threads : construct_callable(o, t) \/ assign_callable(o, t)
      \/ \E p \in Objects \ Guards :
           construct_move(o, p) \/ assign(o, p) \/ assign_as_thread(o, p) \/ swap(o, p)
      \/ testJoin(o) \/ move_assign(o) \/ leave(o) \/ destroy_member(o)
  BY DEF JThreadNext
<1>1. /\ o \in Holders /\ Parameter \in Holders /\ o # Parameter /\ alive \subseteq Objects
      /\ Objects \subseteq Holders /\ Ownership /\ Calls
  BY DEF Holders, OwnersInv, Ownership, OwnersTypeOK
<1>2. call = "idle" => ~joinable(Parameter)
  BY <1>1 DEF Calls
<1>3. thread \in [Holders -> Threads \cup {NoThread}]
  BY <1>1 DEF Ownership, OwnersTypeOK
<1>4. CASE construct(o)
  <2>1. Ownership'
    BY <1>1, <1>4, NoThreadStep DEF construct, New, released
  <2> QED
    BY <1>2, <1>4, <2>1, IdleStep DEF construct, New, OwnersInv, joinable
<1>5. CASE join(o)
  <2>1. Ownership'
    BY <1>1, <1>5, LetGoStep DEF join, Join
  <2>2. ~joinable(Parameter)'
    BY <1>1, <1>2, <1>3, <1>5 DEF join, Join, Ready, joinable
  <2> QED
    BY <1>5, <2>1, <2>2, IdleStep DEF join, Join, Ready, OwnersInv
<1>6. CASE detach(o)
  <2>1. Ownership'
    BY <1>1, <1>6, LetGoStep DEF detach
  <2>2. ~joinable(Parameter)'
    BY <1>1, <1>2, <1>3, <1>6 DEF detach, Ready, joinable
  <2> QED
    BY <1>6, <2>1, <2>2, IdleStep DEF detach, Ready, OwnersInv
<1>7. CASE destroy(o)
  <2>1. Ownership'
    BY <1>1, <1>7, NoThreadStep DEF destroy, released
  <2>2. Calls' /\ OnlyEmptyGuardTerminates'
    BY <1>7, BeginStep DEF destroy, Begin, Ready
  <2> QED
    BY <2>1, <2>2 DEF OwnersInv
<1>8. ASSUME NEW t \in Threads, construct_callable(o, t) PROVE OwnersInv'
  <2>1. Ownership'
    BY <1>1, <1>8, NewIsEmpty, StartStep DEF construct_callable, New
  <2>2. ~joinable(Parameter)'
    BY <1>1, <1>2, <1>3, <1>8 DEF construct_callable, New, Start, joinable
  <2> QED
    BY <1>8, <2>1, <2>2, IdleStep DEF construct_callable, New, Start, OwnersInv
<1>9. ASSUME NEW t \in Threads, assign_callable(o, t) PROVE OwnersInv'
  <2>1. Ownership'
    BY <1>1, <1>2, <1>9, StartStep DEF assign_callable, Ready
  <2>2. Calls' /\ OnlyEmptyGuardTerminates'
    BY <1>9, BeginStep DEF assign_callable, Begin, Start, Ready
  <2> QED
    BY <2>1, <2>2 DEF OwnersInv
<1>10. ASSUME NEW p \in Objects \ Guards, construct_move(o, p) PROVE OwnersInv'
  <2>1. Ownership'
    BY <1>1, <1>10, NewIsEmpty, TakeStep DEF construct_move, New
  <2>2. ~joinable(Parameter)'
    BY <1>1, <1>2, <1>3, <1>10 DEF construct_move, New, Take, joinable
  <2> QED
    BY <1>10, <2>1, <2>2, IdleStep DEF construct_move, New, Take, OwnersInv
<1>11. ASSUME NEW p \in Objects \ Guards, assign(o, p) PROVE OwnersInv'
  <2>1. Ownership'
    BY <1>1, <1>11, NoThreadStep DEF assign, released
  <2>2. Calls' /\ OnlyEmptyGuardTerminates'
    BY <1>11, BeginStep DEF assign, Begin, Ready
  <2> QED
    BY <2>1, <2>2 DEF OwnersInv
<1>12. ASSUME NEW p \in Objects \ Guards, assign_as_thread(o, p) PROVE OwnersInv'
  <2>1. Ownership'
    BY <1>1, <1>2, <1>12, TakeStep DEF assign_as_thread, Ready
  <2>2. Calls' /\ OnlyEmptyGuardTerminates'
    BY <1>12, BeginStep DEF assign_as_thread, Begin, Take, Ready
  <2> QED
    BY <2>1, <2>2 DEF OwnersInv
<1>13. ASSUME NEW p \in Objects \ Guards, swap(o, p) PROVE OwnersInv'
  <2>1. Ownership'
    BY <1>1, <1>13, SwapStep
  <2>2. ~joinable(Parameter)'
    BY <1>1, <1>2, <1>3, <1>13 DEF swap, Ready, joinable
  <2> QED
    BY <1>13, <2>1, <2>2, IdleStep DEF swap, Ready, OwnersInv
<1>14. CASE testJoin(o)
  BY <1>14, JoinedStep DEF testJoin
<1>15. CASE move_assign(o) \/ leave(o) \/ destroy_member(o)
  BY <1>15, RestStep
<1> QED
  BY <1>4, <1>5, <1>6, <1>7, <1>8, <1>9, <1>10, <1>11, <1>12, <1>13, <1>14, <1>15

\* Every step of the Thread of thread_guard.cpp keeps the invariant.
LEMMA GuardStep == ASSUME OwnersInv, GuardNext(Guards) PROVE OwnersInv'
<1> USE ThreadAssumption, GuardAssumption
<1> PICK o \in Guards :
      \/ guard_construct_empty(o) \/ guard_destroy(o)
      \/ \E t \in Threads : guard_construct(o, t)
      \/ \E p \in Guards : guard_construct_move(o, p) \/ guard_assign(o, p)
      \/ guard_join(o) \/ guard_assign_throws(o) \/ guard_destroy_throws(o)
      \/ move_assign(o) \/ leave(o) \/ destroy_member(o)
  BY DEF GuardNext
<1>1. /\ o \in Holders /\ Parameter \in Holders /\ o # Parameter /\ alive \subseteq Objects
      /\ Objects \subseteq Holders /\ o \in Objects /\ Ownership /\ Calls
  BY DEF Holders, OwnersInv, Ownership, OwnersTypeOK
<1>2. call = "idle" => ~joinable(Parameter)
  BY <1>1 DEF Calls
<1>3. thread \in [Holders -> Threads \cup {NoThread}]
  BY <1>1 DEF Ownership, OwnersTypeOK
<1>4. CASE guard_construct_empty(o)
  <2>1. Ownership'
    BY <1>1, <1>4, NoThreadStep DEF guard_construct_empty, vars
  <2> QED
    BY <1>2, <1>4, <2>1, IdleStep DEF guard_construct_empty, vars, frame, OwnersInv, joinable
<1>5. CASE guard_destroy(o)
  <2>1. Ownership'
    BY <1>1, <1>5, NoThreadStep DEF guard_destroy, released
  <2>2. Calls' /\ OnlyEmptyGuardTerminates'
    BY <1>5, BeginStep DEF guard_destroy, Begin, Ready
  <2> QED
    BY <2>1, <2>2 DEF OwnersInv
<1>6. ASSUME NEW t \in Threads, guard_construct(o, t) PROVE OwnersInv'
  <2>1. Ownership'
    BY <1>1, <1>6, NewIsEmpty, StartStep DEF guard_construct, New
  <2>2. ~joinable(Parameter)'
    BY <1>1, <1>2, <1>3, <1>6 DEF guard_construct, New, Start, joinable
  <2> QED
    BY <1>6, <2>1, <2>2, IdleStep DEF guard_construct, New, Start, OwnersInv
<1>7. ASSUME NEW p \in Guards, guard_construct_move(o, p) PROVE OwnersInv'
  <2>1. Ownership'
    BY <1>1, <1>7, NewIsEmpty, TakeStep DEF guard_construct_move, New
  <2>2. ~joinable(Parameter)'
    BY <1>1, <1>2, <1>3, <1>7 DEF guard_construct_move, New, Take, joinable
  <2> QED
    BY <1>7, <2>1, <2>2, IdleStep DEF guard_construct_move, New, Take, OwnersInv
<1>8. ASSUME NEW p \in Guards, guard_assign(o, p) PROVE OwnersInv'
  <2>1. Ownership'
    BY <1>1, <1>8, NoThreadStep DEF guard_assign, released
  <2>2. Calls' /\ OnlyEmptyGuardTerminates'
    BY <1>8, BeginStep DEF guard_assign, Begin, Ready
  <2> QED
    BY <2>1, <2>2 DEF OwnersInv
<1>9. CASE guard_join(o)
  BY <1>1, <1>9, JoinedStep DEF guard_join
<1>10. CASE guard_assign_throws(o)
  <2>1. Ownership'
    BY <1>1, <1>10, NoThreadStep DEF guard_assign_throws, released
  <2>2. ~joinable(Parameter)
    BY <1>1, <1>10 DEF guard_assign_throws, Calls
  <2> QED
    BY <1>1, <1>10, <2>1, <2>2 DEF guard_assign_throws, Return, OwnersInv, Calls, OnlyEmptyGuardTerminates, joinable
<1>11. CASE guard_destroy_throws(o)
  <2>1. Ownership'
    BY <1>1, <1>11, NoThreadStep DEF guard_destroy_throws, Terminate, released
  <2> QED
    BY <1>1, <1>11, <2>1 DEF guard_destroy_throws, Terminate, frame, released, OwnersInv, Calls,
       OnlyEmptyGuardTerminates, joinable
<1>12. CASE move_assign(o) \/ leave(o) \/ destroy_member(o)
  BY <1>1, <1>12, RestStep
<1> QED
  BY <1>4, <1>5, <1>6, <1>7, <1>8, <1>9, <1>10, <1>11, <1>12

\* The inductive invariant holds for all objects and threads.
THEOREM OwnersInvariantHolds == Spec => []OwnersInv
<1>1. Init => OwnersInv
  BY ThreadAssumption DEF Init, OwnersInv, Ownership, OwnersTypeOK, Owners, OneEach, AllOwned, Owed, Started,
     Calls, OnlyEmptyGuardTerminates, joinable, Holders
<1>2. OwnersInv /\ [Next]_vars => OwnersInv'
  <2> SUFFICES ASSUME OwnersInv, [Next]_vars PROVE OwnersInv'
    OBVIOUS
  <2>1. CASE UNCHANGED vars
    <3>1. Ownership'
      BY <2>1, NoThreadStep DEF vars, OwnersInv
    <3> QED
      BY <2>1, <3>1 DEF vars, OwnersInv, Calls, OnlyEmptyGuardTerminates, joinable
  <2>2. ASSUME NEW t \in Threads, Finish(t) PROVE OwnersInv'
    <3>1. Ownership'
      BY <2>2, FinishStep DEF OwnersInv
    <3> QED
      BY <2>2, <3>1 DEF Finish, frame, released, OwnersInv, Calls, OnlyEmptyGuardTerminates, joinable
  <2> QED
    BY <2>1, <2>2, JThreadStep, GuardStep DEF Next
<1> QED
  BY <1>1, <1>2, PTL DEF Spec

\* Whatever objects of the two classes do, every started thread that was neither joined nor
\* detached has exactly one owner.
THEOREM OwnedOnceHolds == Spec => []OwnedOnce
  BY OwnersInvariantHolds, OwnersInvOwned, PTL

\* Only the destruction of an empty Thread of thread_guard.cpp ends in std::terminate: no
\* std::thread is joinable when it is overwritten or destroyed.
THEOREM OneWayToTerminate == Spec => []OnlyEmptyGuardTerminates
  BY OwnersInvariantHolds, PTL DEF OwnersInv

\* A step that takes a thread from somebody leaves all threads started, and detaches a thread
\* only in a call of detach().
LEMMA LettingGo ==
  ASSUME Next, thread' # thread
  PROVE  /\ finished' = finished /\ Started \subseteq Started'
         /\ \/ detached' = detached
            \/ call = "idle" /\ \E o \in Objects : detached' = detached \cup {thread[o]}
<1>1. ~ \E t \in Threads : Finish(t)
  BY DEF Finish
<1> USE DEF Started, Start, Take, Join, Terminate, Begin, Go, Return, New, Ready, released, frame,
            move_assign, leave, destroy_member
<1>2. CASE JThreadNext(Objects \ Guards)
  BY <1>2 DEF JThreadNext, construct, join, detach, destroy, construct_callable, assign_callable,
              construct_move, assign, assign_as_thread, swap, testJoin
<1>3. CASE GuardNext(Guards)
  BY <1>3, GuardAssumption
     DEF GuardNext, guard_construct_empty, guard_destroy, guard_construct, guard_construct_move,
         guard_assign, guard_join, guard_assign_throws, guard_destroy_throws, vars
<1> QED
  BY <1>1, <1>2, <1>3 DEF Next

\* The two classes join a thread, or leave it to another owner or to detach(), before they let
\* go of it.
THEOREM WaitsHolds == Spec => WaitsBeforeLetGo
<1> DEFINE Waits == \A o \in Holders : joinable(o) /\ thread'[o] # thread[o] =>
                     \/ thread[o] \in finished
                     \/ \E p \in Holders : thread'[p] = thread[o]
                     \/ call = "idle" /\ detached' = detached \cup {thread[o]}
<1>1. OwnersInv /\ OwnersInv' /\ [Next]_vars => [Waits]_vars
  <2> SUFFICES ASSUME OwnersInv, OwnersInv', Next, NEW o \in Holders, joinable(o), thread'[o] # thread[o],
                      thread[o] \notin finished, ~ \E p \in Holders : thread'[p] = thread[o]
               PROVE  call = "idle" /\ detached' = detached \cup {thread[o]}
    OBVIOUS
  <2>1. /\ finished' = finished /\ Started \subseteq Started'
        /\ \/ detached' = detached
           \/ call = "idle" /\ \E p \in Objects : detached' = detached \cup {thread[p]}
    BY LettingGo
  <2>2. thread[o] \in Started /\ thread[o] \notin detached
    BY DEF OwnersInv, Ownership, Owners, Owed
  <2>3. thread[o] \notin joined' /\ thread[o] \notin Owed'
    BY <2>1 DEF OwnersInv, Ownership, OwnersTypeOK, AllOwned
  <2>4. thread[o] \in detached'
    BY <2>1, <2>2, <2>3 DEF Owed
  <2> QED
    BY <2>1, <2>2, <2>4
<1> QED
  BY <1>1, OwnersInvariantHolds, PTL DEF Spec, WaitsBeforeLetGo

USE DEF L!ThreadCountAssumption, B!BarrierAssumption, C!CVAssumption

-------------------------------------------------------------------------
(* The latch.                                                              *)

Counted == {w \in L!Workers : worker[w] \in {"further", "finished"}}

\* What the main thread has taken off the latch.
MainCounted ==
  IF main \in {"wait", "wait_again", "process", "join", "returned"} THEN 1 ELSE 0

LatchType ==
  /\ count \in Int
  /\ data \in [L!Workers -> BOOLEAN]
  /\ worker \in [L!Workers -> {"unborn", "make", "count_down", "further", "finished"}]
  /\ i \in Nat

\* Unless it has wrapped, the latch has not lost more than one for each thread that counted down.
NotAhead == count = -1 \/ (count >= 0 /\ count + Cardinality(Counted) + MainCounted >= thread_count)

CountedIsMade == \A w \in L!Workers : worker[w] \in {"count_down", "further", "finished"} => data[w]

Enough ==
  /\ main = "quick" => L!Made = L!Workers
  /\ main \in {"wait_again", "process", "join"} => Cardinality(L!Workers \ L!Made) <= 1

NotStarted == main = "spawn" => \A w \in L!Workers : w >= i => worker[w] = "unborn"

LatchInv == LatchType /\ NotAhead /\ CountedIsMade /\ Enough /\ NotStarted

\* There are thread_count workers, and finitely many in every set of them.
LEMMA LatchWorkers ==
  /\ IsFiniteSet(L!Workers) /\ Cardinality(L!Workers) = thread_count
  /\ \A S \in SUBSET L!Workers :
       IsFiniteSet(S) /\ Cardinality(S) \in Nat /\ Cardinality(S) <= thread_count
<1>1. thread_count \in Nat \ {0}
  BY WaitingAssumption
<1>2. IsFiniteSet(L!Workers) /\ Cardinality(L!Workers) = thread_count
  BY <1>1, FS_Interval DEF L!Workers
<1> QED
  BY <1>2, FS_Subset, FS_CardinalityType

\* A set of workers that counts at most one has no two.
LEMMA AtMostOne ==
  ASSUME Cardinality(L!Workers \ L!Made) <= 1, NEW v \in L!Workers \ L!Made, NEW w \in L!Workers \ L!Made
  PROVE  v = w
<1> SUFFICES ASSUME v # w PROVE FALSE
  OBVIOUS
<1>1. Cardinality({v, w}) = 2
  <2>1. {v, w} = {v} \cup {w} /\ w \notin {v} /\ IsFiniteSet({v}) /\ Cardinality({v}) = 1
    BY FS_Singleton
  <2> QED
    BY <2>1, FS_AddElement
<1>2. Cardinality({v, w}) <= Cardinality(L!Workers \ L!Made)
  <2>1. IsFiniteSet(L!Workers \ L!Made)
    BY LatchWorkers
  <2> QED
    BY <2>1, FS_Subset
<1>3. Cardinality(L!Workers \ L!Made) \in Nat
  BY LatchWorkers
<1> QED
  BY <1>1, <1>2, <1>3

\* What is missing when the latch is ready.
LEMMA WakesReady ==
  ASSUME LatchInv, count = 0
  PROVE  /\ MainCounted = 0 => L!Made = L!Workers
         /\ Cardinality(L!Workers \ L!Made) <= 1
<1>1. Counted \subseteq L!Made /\ L!Made \subseteq L!Workers
  BY DEF LatchInv, CountedIsMade, Counted, L!Made
<1>2. thread_count \in Nat /\ MainCounted \in {0, 1}
  BY WaitingAssumption DEF MainCounted
<1>3. /\ Cardinality(L!Made) \in Nat /\ Cardinality(Counted) \in Nat
      /\ Cardinality(Counted) <= Cardinality(L!Made)
  <2>1. Counted \in SUBSET L!Workers /\ L!Made \in SUBSET L!Workers
    BY <1>1
  <2>2. IsFiniteSet(L!Made) /\ Cardinality(L!Made) \in Nat /\ Cardinality(Counted) \in Nat
    BY <2>1, LatchWorkers
  <2> QED
    BY <1>1, <2>2, FS_Subset
<1>4. Cardinality(Counted) + MainCounted >= thread_count
  BY <1>2, <1>3 DEF LatchInv, NotAhead
<1>5. Cardinality(L!Workers \ L!Made) = thread_count - Cardinality(L!Made)
  <2>1. L!Workers \cap L!Made = L!Made
    BY <1>1
  <2>2. IsFiniteSet(L!Workers) /\ Cardinality(L!Workers) = thread_count
    BY LatchWorkers
  <2> QED
    BY <2>1, <2>2, FS_Difference
<1>6. ASSUME MainCounted = 0 PROVE L!Made = L!Workers
  <2>1. Cardinality(L!Made) >= thread_count
    BY <1>2, <1>3, <1>4, <1>6
  <2>2. IsFiniteSet(L!Workers) /\ Cardinality(L!Workers) = thread_count
    BY LatchWorkers
  <2>3. Cardinality(L!Made) <= thread_count
    BY <1>1, <2>2, FS_Subset
  <2> QED
    BY <1>1, <1>2, <1>3, <2>1, <2>2, <2>3, FS_Subset
<1>7. Cardinality(L!Workers \ L!Made) <= 1
  BY <1>2, <1>3, <1>4, <1>5
<1> QED
  BY <1>6, <1>7

\* foo() of latch.cpp begins with the invariant.
LEMMA LatchInit == L!Init => LatchInv
<1> SUFFICES ASSUME L!Init PROVE LatchInv
  OBVIOUS
<1>1. thread_count \in Nat \ {0}
  BY WaitingAssumption
<1>2. Cardinality(Counted) = 0 /\ MainCounted = 0
  <2>1. Counted = {}
    BY DEF L!Init, Counted
  <2> QED
    BY <2>1, FS_EmptySet DEF L!Init, MainCounted
<1> QED
  BY <1>1, <1>2 DEF L!Init, LatchInv, LatchType, NotAhead, CountedIsMade, Enough, NotStarted

\* The main thread moves, and the latch does not.
LEMMA LatchMainStep ==
  ASSUME LatchInv, UNCHANGED <<count, data>>, i' \in Nat,
         MainCounted' >= MainCounted, Counted' = Counted, MainCounted' \in {0, 1},
         worker' \in [L!Workers -> {"unborn", "make", "count_down", "further", "finished"}],
         \A w \in L!Workers : worker'[w] = worker[w] \/ worker'[w] = "make",
         NotStarted', main' = "quick" => count = 0 /\ MainCounted = 0,
         main' \in {"wait_again", "process", "join"} =>
           count = 0 \/ main \in {"wait_again", "process", "join"}
  PROVE  LatchInv'
<1>1. LatchType' /\ CountedIsMade'
  BY DEF LatchInv, LatchType, CountedIsMade
<1>2. NotAhead'
  <2>1. MainCounted \in {0, 1} /\ Cardinality(Counted) \in Nat
    BY LatchWorkers DEF MainCounted, Counted
  <2>2. thread_count \in Nat
    BY WaitingAssumption
  <2> QED
    BY <2>1, <2>2 DEF LatchInv, LatchType, NotAhead
<1>3. Enough'
  <2>1. L!Made' = L!Made
    BY DEF L!Made
  <2>2. main' = "quick" => L!Made = L!Workers
    BY WakesReady
  <2>3. main' \in {"wait_again", "process", "join"} => Cardinality(L!Workers \ L!Made) <= 1
    BY WakesReady DEF LatchInv, Enough
  <2> QED
    BY <2>1, <2>2, <2>3 DEF Enough, L!Workers
<1> QED
  BY <1>1, <1>2, <1>3 DEF LatchInv

\* A worker moves, without the latch.
LEMMA LatchWorkerStep ==
  ASSUME LatchInv, NEW w \in L!Workers, L!makeData(w) \/ L!furtherWork(w)
  PROVE  LatchInv'
<1>1. /\ LatchType' /\ CountedIsMade' /\ NotStarted' /\ UNCHANGED <<count, main>>
      /\ \A v \in L!Workers : data[v] => data'[v]
  BY DEF LatchInv, LatchType, CountedIsMade, NotStarted, L!Workers, L!makeData, L!furtherWork, L!Go
<1>2. Counted' = Counted
  BY DEF LatchInv, LatchType, Counted, L!makeData, L!furtherWork, L!Go
<1>3. NotAhead'
  BY <1>1, <1>2 DEF LatchInv, NotAhead, MainCounted
<1>4. Enough'
  <2>1. L!Made \subseteq L!Made' /\ L!Made' \subseteq L!Workers
    BY <1>1 DEF L!Made
  <2>2. /\ IsFiniteSet(L!Workers \ L!Made) /\ Cardinality(L!Workers \ L!Made) \in Nat
        /\ Cardinality(L!Workers \ L!Made') \in Nat
    BY LatchWorkers
  <2>3. Cardinality(L!Workers \ L!Made') <= Cardinality(L!Workers \ L!Made)
    BY <2>1, <2>2, FS_Subset
  <2>4. main \in {"wait_again", "process", "join"} => Cardinality(L!Workers \ L!Made') <= 1
    BY <2>2, <2>3 DEF LatchInv, Enough
  <2>5. main = "quick" => L!Made' = L!Workers
    BY <2>1 DEF LatchInv, Enough
  <2> QED
    BY <1>1, <2>4, <2>5 DEF Enough, L!Workers
<1> QED
  BY <1>1, <1>3, <1>4 DEF LatchInv

\* A decrement takes the latch one down, or below zero, or leaves it at zero.
LEMMA Decrement ==
  ASSUME LatchInv, L!decrement
  PROVE  /\ count' \in Int
         /\ count' = -1 \/ (count >= 0 /\ count' >= 0 /\ count' + 1 >= count)
  BY DEF LatchInv, LatchType, NotAhead, L!decrement

\* A worker that counts down has made its data.
LEMMA CountDownStep ==
  ASSUME LatchInv, NEW w \in L!Workers, L!count_down(w) PROVE LatchInv'
<1>1. LatchType' /\ CountedIsMade' /\ NotStarted' /\ UNCHANGED <<data, main>>
  BY Decrement DEF LatchInv, LatchType, CountedIsMade, NotStarted, L!Workers, L!count_down, L!Go
<1>2. Cardinality(Counted') = Cardinality(Counted) + 1
  <2>1. Counted' = Counted \cup {w} /\ w \notin Counted /\ Counted \in SUBSET L!Workers
    BY DEF LatchInv, LatchType, Counted, L!count_down, L!Go, L!Workers
  <2>2. IsFiniteSet(Counted)
    BY <2>1, LatchWorkers
  <2> QED
    BY <2>1, <2>2, FS_AddElement
<1>3. NotAhead'
  <2>1. Cardinality(Counted) \in Nat /\ MainCounted \in {0, 1} /\ MainCounted' = MainCounted
    BY <1>1, LatchWorkers DEF Counted, MainCounted
  <2>2. thread_count \in Nat
    BY WaitingAssumption
  <2>3. count' = -1 \/ (count >= 0 /\ count' >= 0 /\ count' + 1 >= count)
    BY Decrement DEF L!count_down
  <2> QED
    BY <1>2, <2>1, <2>2, <2>3, Decrement DEF L!count_down, LatchInv, LatchType, NotAhead
<1>4. Enough'
  BY <1>1 DEF LatchInv, Enough, L!Made, L!Workers
<1> QED
  BY <1>1, <1>3, <1>4 DEF LatchInv

\* The main thread takes from the latch what no worker did.
LEMMA CountDownAndWaitStep ==
  ASSUME LatchInv, L!count_down_and_wait PROVE LatchInv'
<1>1. LatchType' /\ CountedIsMade' /\ Enough' /\ NotStarted'
  BY Decrement DEF LatchInv, LatchType, CountedIsMade, Enough, NotStarted, L!count_down_and_wait, L!Step
<1>2. NotAhead'
  <2>1. Cardinality(Counted) \in Nat /\ MainCounted = 0 /\ MainCounted' = 1
    BY LatchWorkers DEF Counted, MainCounted, L!count_down_and_wait, L!Step
  <2>2. thread_count \in Nat
    BY WaitingAssumption
  <2>3. count' = -1 \/ (count >= 0 /\ count' >= 0 /\ count' + 1 >= count)
    BY Decrement DEF L!count_down_and_wait
  <2>4. Counted' = Counted
    BY DEF Counted, L!count_down_and_wait, L!Workers
  <2> QED
    BY <2>1, <2>2, <2>3, <2>4, Decrement DEF L!count_down_and_wait, LatchInv, LatchType, NotAhead
<1> QED
  BY <1>1, <1>2 DEF LatchInv

\* Every step of latch.cpp keeps the invariant.
LEMMA LatchNext == ASSUME LatchInv, L!Next PROVE LatchInv'
<1>1. CASE L!spawn
  <2>1. i \in L!Workers /\ i' \in Nat /\ UNCHANGED <<count, data, main>>
    BY <1>1, WaitingAssumption DEF L!spawn, L!Workers, LatchInv, LatchType
  <2>2. \A w \in L!Workers : worker'[w] = IF w = i THEN "make" ELSE worker[w]
    BY <1>1 DEF L!spawn, LatchInv, LatchType
  <2>3. worker[i] = "unborn" /\ i \in Nat
    BY <1>1, <2>1 DEF L!spawn, LatchInv, LatchType, NotStarted
  <2>4. Counted' = Counted
    BY <2>2, <2>3 DEF Counted, L!Workers
  <2>5. NotStarted'
    BY <1>1, <2>2, <2>3 DEF L!spawn, LatchInv, NotStarted, L!Workers
  <2>6. worker' \in [L!Workers -> {"unborn", "make", "count_down", "further", "finished"}]
    BY <1>1 DEF L!spawn, LatchInv, LatchType
  <2>7. MainCounted = 0 /\ MainCounted' = 0 /\ main' = "spawn"
    BY <1>1, <2>1 DEF L!spawn, MainCounted
  <2> QED
    BY <2>1, <2>2, <2>4, <2>5, <2>6, <2>7, LatchMainStep
<1>2. CASE L!all_spawned \/ L!test \/ L!quickProcessData \/ L!released \/ L!wait \/ L!processData
            \/ L!join_future \/ L!return \/ L!Stopped
  <2>1. UNCHANGED <<count, data, worker>> /\ i' \in Nat
    BY <1>2 DEF LatchInv, LatchType, L!all_spawned, L!test, L!quickProcessData, L!released, L!wait,
                L!processData, L!join_future, L!return, L!Stopped, L!vars
  <2>2. /\ MainCounted' >= MainCounted /\ MainCounted' \in {0, 1}
        /\ main' = "quick" => count = 0 /\ MainCounted = 0
        /\ main' \in {"wait_again", "process", "join"} =>
             count = 0 \/ main \in {"wait_again", "process", "join"}
    BY <1>2 DEF L!all_spawned, L!test, L!quickProcessData, L!released, L!wait,
                L!processData, L!join_future, L!return, L!Stopped, L!vars, L!Step, MainCounted,
                L!is_ready
  <2>3. NotStarted'
    BY <1>2 DEF L!all_spawned, L!test, L!quickProcessData, L!released, L!wait, L!processData,
                L!join_future, L!return, L!Stopped, L!vars, L!Step, LatchInv, NotStarted, L!Workers
  <2> QED
    BY <2>1, <2>2, <2>3, LatchMainStep DEF LatchInv, LatchType, Counted, L!Workers
<1>3. CASE L!count_down_and_wait
  BY <1>3, CountDownAndWaitStep
<1>4. CASE \E w \in L!Workers : L!Worker(w)
  BY <1>4, LatchWorkerStep, CountDownStep DEF L!Worker
<1> QED
  BY <1>1, <1>2, <1>3, <1>4 DEF L!Next, L!Main

-------------------------------------------------------------------------
(* The barrier.                                                            *)

Parallel == {"process", "arrive2", "gathered2"}

BarrierType ==
  /\ taken \in Nat /\ chunks \in Nat /\ i \in Nat
  /\ result \in [B!Threads -> Nat]
  /\ written \in Seq([B!Threads -> Nat])
  /\ pc \in [B!Threads -> {"unborn", "loop", "get", "divide", "arrive", "gathered", "write", "ended"}
                          \cup Parallel]

\* The serial work is thread 0's, and a thread is started once.
Roles ==
  /\ \A t \in B!Threads : pc[t] \in {"get", "divide", "write"} => t = 0
  /\ main = "spawn" => \A t \in B!Threads : t >= i => pc[t] = "unborn"

\* The threads go into the parallel region and leave it all at once.
Together == \A t, u \in B!Threads : pc[t] \in Parallel => pc[u] \in Parallel

\* Of the blocks that were taken, all but the one that is being worked on were written.
WrittenSoFar ==
  /\ \A k \in 1 .. Len(written) : \A t \in B!Threads : written[k][t] = k
  /\ taken = IF pc[0] \in {"unborn", "loop", "get", "ended"} THEN Len(written) ELSE Len(written) + 1

\* What the chunks and the results are made from.
ChunksCurrent == pc[0] \in {"arrive", "gathered"} \cup Parallel => chunks = taken
ResultsCurrent ==
  \A t \in B!Threads : pc[t] \in {"arrive2", "gathered2"} \/ pc[0] = "write" => result[t] = taken

BarrierInv == BarrierType /\ Roles /\ Together /\ WrittenSoFar /\ ChunksCurrent /\ ResultsCurrent

\* Thread 0, which does the serial work, is one of the threads.
LEMMA FirstThread == 0 \in B!Threads /\ n_threads \in Nat
  BY WaitingAssumption DEF B!Threads

\* The inductive invariant says more than the two properties.
LEMMA BarrierImplies == BarrierInv => B!SerialIsAlone /\ B!WritesAreComplete
<1> SUFFICES ASSUME BarrierInv PROVE B!SerialIsAlone /\ B!WritesAreComplete
  OBVIOUS
<1>1. B!SerialIsAlone
  BY FirstThread DEF BarrierInv, Together, Parallel, B!SerialIsAlone
<1>2. ASSUME NEW k \in 1 .. Len(written) PROVE written[k] = [t \in B!Threads |-> k]
  <2>1. written[k] \in [B!Threads -> Nat]
    BY DEF BarrierInv, BarrierType
  <2>2. \A t \in B!Threads : written[k][t] = k
    BY DEF BarrierInv, WrittenSoFar
  <2> QED
    BY <2>1, <2>2
<1>3. pc[0] \in {"loop", "get", "ended"} => Len(written) = taken
  BY DEF BarrierInv, WrittenSoFar
<1> QED
  BY <1>1, <1>2, <1>3 DEF B!WritesAreComplete

\* process_data() of barrier.cpp begins with the invariant.
LEMMA BarrierInit == B!Init => BarrierInv
  BY FirstThread DEF B!Init, BarrierInv, BarrierType, Roles, Together, Parallel, WrittenSoFar,
     ChunksCurrent, ResultsCurrent, B!NoBlock

\* The main thread, and a thread that uses what is destroyed, change nothing of a round.
LEMMA BarrierMainStep ==
  ASSUME BarrierInv, B!Main \/ B!Stopped \/ (B!UseOfDestroyed /\ UNCHANGED <<main, i>>)
  PROVE  BarrierInv'
<1> USE FirstThread
<1>1. CASE B!spawn
  <2>1. UNCHANGED <<taken, chunks, result, written, main>> /\ i \in B!Threads /\ i' = i + 1
    BY <1>1 DEF B!spawn, BarrierInv, BarrierType, B!Threads
  <2>2. pc[i] = "unborn"
    BY <1>1, <2>1 DEF B!spawn, BarrierInv, BarrierType, Roles
  <2>3. \A t \in B!Threads : pc'[t] = IF t = i THEN "loop" ELSE pc[t]
    BY <1>1 DEF B!spawn, B!Goto, BarrierInv, BarrierType
  <2>4. BarrierType'
    BY <1>1, <2>1 DEF B!spawn, B!Goto, BarrierInv, BarrierType
  <2>5. Roles'
    <3>1. \A t \in B!Threads : pc'[t] \in {"get", "divide", "write"} => t = 0
      BY <2>3 DEF BarrierInv, Roles
    <3>2. ASSUME NEW t \in B!Threads, t >= i + 1 PROVE pc'[t] = "unborn"
      <4>1. t >= i /\ t # i
        BY <3>2 DEF BarrierInv, BarrierType, B!Threads
      <4> QED
        BY <1>1, <2>3, <4>1 DEF B!spawn, BarrierInv, Roles
    <3> QED
      BY <2>1, <3>1, <3>2 DEF Roles, B!Threads
  <2>6. Together'
    BY <2>1, <2>2, <2>3 DEF BarrierInv, Together, Parallel
  <2>7. WrittenSoFar' /\ ChunksCurrent' /\ ResultsCurrent'
    BY <2>1, <2>2, <2>3 DEF BarrierInv, WrittenSoFar, ChunksCurrent, ResultsCurrent, Parallel
  <2> QED
    BY <2>4, <2>5, <2>6, <2>7 DEF BarrierInv
<1>2. CASE \/ B!all_spawned \/ B!destroy_locals \/ B!join \/ B!return \/ B!Stopped
           \/ B!UseOfDestroyed /\ UNCHANGED <<main, i>>
  <2>1. UNCHANGED <<taken, chunks, result, written, pc>> /\ i' \in Nat
        /\ (main' = "spawn" => main = "spawn" /\ i' = i)
    BY <1>2 DEF B!all_spawned, B!destroy_locals, B!join, B!return, B!Stopped, B!UseOfDestroyed,
                B!vars, BarrierInv, BarrierType
  <2> QED
    BY <2>1 DEF BarrierInv, BarrierType, Roles, Together, WrittenSoFar, ChunksCurrent,
                ResultsCurrent
<1> QED
  BY <1>1, <1>2 DEF B!Main

\* What a step of a thread does to pc, one thread or all of them together.
LEMMA PcStep ==
  ASSUME BarrierInv, NEW t \in B!Threads, NEW label, B!Goto(t, label)
  PROVE  \A u \in B!Threads : pc'[u] = IF u = t THEN label ELSE pc[u]
  BY DEF B!Goto, BarrierInv, BarrierType

\* A thread looks at the loop condition outside the parallel region.
LEMMA TestStep == ASSUME BarrierInv, NEW t \in B!Threads, B!test(t) PROVE BarrierInv'
<1> USE FirstThread DEF BarrierInv
<1>1. PICK label \in {"ended", "get", "arrive"} :
        /\ label = "get" => t = 0
        /\ label = "arrive" => t # 0
        /\ \A u \in B!Threads : pc'[u] = IF u = t THEN label ELSE pc[u]
  BY DEF BarrierType, B!test, B!Goto
<1>2. /\ UNCHANGED <<taken, chunks, result, written, main, i>> /\ pc[t] = "loop"
      /\ pc' \in [B!Threads -> {"unborn", "loop", "get", "divide", "arrive", "gathered", "write",
                                "ended"} \cup Parallel]
  BY DEF BarrierType, B!test, B!Goto, B!At
<1>3. BarrierType'
  BY <1>2 DEF BarrierType
<1>4. Roles' /\ Together'
  BY <1>1, <1>2 DEF Roles, Together, Parallel
<1>5. WrittenSoFar' /\ ChunksCurrent' /\ ResultsCurrent'
  BY <1>1, <1>2 DEF WrittenSoFar, ChunksCurrent, ResultsCurrent, Parallel
<1> QED
  BY <1>3, <1>4, <1>5

\* Thread 0 takes a block when all that were taken before are written.
LEMMA GetStep ==
  ASSUME BarrierInv, NEW t \in B!Threads, B!get_next_data_block(t) PROVE BarrierInv'
<1> USE FirstThread DEF BarrierInv
<1>1. \A u \in B!Threads : pc'[u] = IF u = t THEN "divide" ELSE pc[u]
  BY PcStep DEF B!get_next_data_block
<1>2. /\ UNCHANGED <<chunks, result, written, main, i>> /\ pc[t] = "get" /\ taken' = taken + 1
      /\ t = 0
  BY DEF Roles, B!get_next_data_block, B!At
<1>3. BarrierType'
  BY <1>2 DEF BarrierType, B!get_next_data_block, B!Goto
<1>4. Roles' /\ Together'
  BY <1>1, <1>2 DEF Roles, Together, Parallel
<1>5. WrittenSoFar' /\ ChunksCurrent' /\ ResultsCurrent'
  BY <1>1, <1>2 DEF Together, WrittenSoFar, ChunksCurrent, ResultsCurrent, Parallel
<1> QED
  BY <1>3, <1>4, <1>5

\* Thread 0 divides the block that it took.
LEMMA DivideStep ==
  ASSUME BarrierInv, NEW t \in B!Threads, B!divide_into_chunks(t) PROVE BarrierInv'
<1> USE FirstThread DEF BarrierInv
<1>1. CASE B!UseOfDestroyed
  BY <1>1, BarrierMainStep DEF B!divide_into_chunks
<1>2. CASE ~B!UseOfDestroyed
  <2>1. \A u \in B!Threads : pc'[u] = IF u = t THEN "arrive" ELSE pc[u]
    BY <1>2, PcStep DEF B!divide_into_chunks
  <2>2. /\ UNCHANGED <<taken, result, written, main, i>> /\ pc[t] = "divide" /\ chunks' = taken
        /\ t = 0
    BY <1>2 DEF Roles, B!divide_into_chunks, B!At
  <2>3. BarrierType'
    BY <1>2, <2>2 DEF BarrierType, B!divide_into_chunks, B!Goto
  <2>4. Roles' /\ Together'
    BY <2>1, <2>2 DEF Roles, Together, Parallel
  <2>5. WrittenSoFar' /\ ChunksCurrent' /\ ResultsCurrent'
    BY <2>1, <2>2 DEF WrittenSoFar, ChunksCurrent, ResultsCurrent, Parallel
  <2> QED
    BY <2>3, <2>4, <2>5
<1> QED
  BY <1>1, <1>2

\* The last thread to arrive takes all of them into the parallel region.
LEMMA ArriveStep ==
  ASSUME BarrierInv, NEW t \in B!Threads, B!arrive_and_wait(t) PROVE BarrierInv'
<1> USE FirstThread DEF BarrierInv
<1>1. UNCHANGED <<taken, chunks, result, written, main, i>> /\ pc[t] = "arrive"
  BY DEF B!arrive_and_wait, B!At
<1>2. CASE \A u \in B!Threads \ {t} : pc[u] = "gathered"
  <2>1. pc' = [u \in B!Threads |-> "process"]
    BY <1>2 DEF B!arrive_and_wait, B!gather
  <2>2. BarrierType' /\ Roles' /\ Together'
    BY <1>1, <1>2, <2>1 DEF BarrierType, Roles, Together, Parallel
  <2>3. WrittenSoFar' /\ ChunksCurrent' /\ ResultsCurrent'
    BY <1>1, <1>2, <2>1 DEF WrittenSoFar, ChunksCurrent, ResultsCurrent, Parallel
  <2> QED
    BY <2>2, <2>3
<1>3. CASE ~ \A u \in B!Threads \ {t} : pc[u] = "gathered"
  <2>1. pc' = [pc EXCEPT ![t] = "gathered"]
    BY <1>3 DEF B!arrive_and_wait, B!gather
  <2>2. \A u \in B!Threads : pc'[u] = IF u = t THEN "gathered" ELSE pc[u]
    BY <2>1 DEF BarrierType
  <2>3. BarrierType'
    BY <1>1, <2>1 DEF BarrierType
  <2>4. Roles' /\ Together'
    BY <1>1, <2>2 DEF Roles, Together, Parallel
  <2>5. WrittenSoFar' /\ ChunksCurrent' /\ ResultsCurrent'
    BY <1>1, <2>2 DEF WrittenSoFar, ChunksCurrent, ResultsCurrent, Parallel
  <2> QED
    BY <2>3, <2>4, <2>5
<1> QED
  BY <1>2, <1>3

\* What a thread puts into result is made from the current block.
LEMMA SetChunkStep ==
  ASSUME BarrierInv, NEW t \in B!Threads, B!set_chunk(t) PROVE BarrierInv'
<1> USE FirstThread DEF BarrierInv
<1>1. CASE B!UseOfDestroyed
  BY <1>1, BarrierMainStep DEF B!set_chunk
<1>2. CASE ~B!UseOfDestroyed
  <2>1. \A u \in B!Threads : pc'[u] = IF u = t THEN "arrive2" ELSE pc[u]
    BY <1>2, PcStep DEF B!set_chunk
  <2>2. /\ UNCHANGED <<taken, chunks, written, main, i>> /\ pc[t] = "process"
        /\ result' = [result EXCEPT ![t] = chunks]
    BY <1>2 DEF B!set_chunk, B!At
  <2>3. pc[0] \in Parallel /\ chunks = taken
    BY <2>2 DEF Together, Parallel, ChunksCurrent
  <2>4. BarrierType'
    BY <1>2, <2>2 DEF BarrierType, B!set_chunk, B!Goto, Parallel
  <2>5. Roles' /\ Together'
    BY <2>1, <2>2 DEF Roles, Together, Parallel
  <2>6. WrittenSoFar' /\ ChunksCurrent'
    BY <2>1, <2>2, <2>3 DEF WrittenSoFar, ChunksCurrent, Parallel
  <2>7. ResultsCurrent'
    <3>1. \A u \in B!Threads : result'[u] = IF u = t THEN taken ELSE result[u]
      BY <2>2, <2>3 DEF BarrierType
    <3> QED
      BY <2>1, <2>2, <2>3, <3>1 DEF ResultsCurrent, Parallel
  <2> QED
    BY <2>4, <2>5, <2>6, <2>7
<1> QED
  BY <1>1, <1>2

\* The last thread to arrive again takes all of them out, with a complete result.
LEMMA ArriveAgainStep ==
  ASSUME BarrierInv, NEW t \in B!Threads, B!arrive_and_wait_again(t) PROVE BarrierInv'
<1> USE FirstThread DEF BarrierInv
<1>1. UNCHANGED <<taken, chunks, result, written, main, i>> /\ pc[t] = "arrive2"
  BY DEF B!arrive_and_wait_again, B!At
<1>2. CASE \A u \in B!Threads \ {t} : pc[u] = "gathered2"
  <2>1. pc' = [u \in B!Threads |-> IF u = 0 THEN "write" ELSE "loop"]
    BY <1>2 DEF B!arrive_and_wait_again, B!gather, B!AfterRound
  <2>2. \A u \in B!Threads : pc[u] \in {"arrive2", "gathered2"}
    BY <1>1, <1>2
  <2>3. BarrierType' /\ Roles' /\ Together'
    BY <1>1, <2>1, <2>2 DEF BarrierType, Roles, Together, Parallel
  <2>4. WrittenSoFar' /\ ChunksCurrent' /\ ResultsCurrent'
    BY <1>1, <2>1, <2>2 DEF WrittenSoFar, ChunksCurrent, ResultsCurrent, Parallel
  <2> QED
    BY <2>3, <2>4
<1>3. CASE ~ \A u \in B!Threads \ {t} : pc[u] = "gathered2"
  <2>1. pc' = [pc EXCEPT ![t] = "gathered2"]
    BY <1>3 DEF B!arrive_and_wait_again, B!gather
  <2>2. \A u \in B!Threads : pc'[u] = IF u = t THEN "gathered2" ELSE pc[u]
    BY <2>1 DEF BarrierType
  <2>3. BarrierType'
    BY <1>1, <2>1 DEF BarrierType, Parallel
  <2>4. Roles' /\ Together'
    BY <1>1, <2>2 DEF Roles, Together, Parallel
  <2>5. WrittenSoFar' /\ ChunksCurrent' /\ ResultsCurrent'
    BY <1>1, <2>2 DEF WrittenSoFar, ChunksCurrent, ResultsCurrent, Parallel
  <2> QED
    BY <2>3, <2>4, <2>5
<1> QED
  BY <1>2, <1>3

\* Thread 0 writes the result of the block that it took last.
LEMMA WriteStep ==
  ASSUME BarrierInv, NEW t \in B!Threads, B!write_data(t) PROVE BarrierInv'
<1> USE FirstThread DEF BarrierInv
<1>1. CASE B!UseOfDestroyed
  BY <1>1, BarrierMainStep DEF B!write_data
<1>2. CASE ~B!UseOfDestroyed
  <2>1. \A u \in B!Threads : pc'[u] = IF u = t THEN "loop" ELSE pc[u]
    BY <1>2, PcStep DEF B!write_data
  <2>2. /\ UNCHANGED <<taken, chunks, main, i>> /\ pc[t] = "write" /\ t = 0
        /\ written' = Append(written, result)
        /\ result' = [u \in B!Threads |-> B!NoBlock]
    BY <1>2 DEF Roles, B!write_data, B!At
  <2>3. BarrierType'
    BY <1>2, <2>2 DEF BarrierType, B!write_data, B!Goto, B!NoBlock
  <2>4. Roles' /\ Together'
    BY <2>1, <2>2 DEF Roles, Together, Parallel
  <2>5. WrittenSoFar'
    <3>1. Len(written') = Len(written) + 1 /\ Len(written) \in Nat /\ taken = Len(written) + 1
      BY <2>2 DEF BarrierType, WrittenSoFar
    <3>2. \A u \in B!Threads : result[u] = Len(written')
      BY <2>2, <3>1 DEF ResultsCurrent
    <3>3. \A k \in 1 .. Len(written') :
            written'[k] = IF k = Len(written') THEN result ELSE written[k]
      BY <2>2, <3>1 DEF BarrierType
    <3>4. \A k \in 1 .. Len(written') : \A u \in B!Threads : written'[k][u] = k
      <4> SUFFICES ASSUME NEW k \in 1 .. Len(written'), NEW u \in B!Threads
                   PROVE  written'[k][u] = k
        OBVIOUS
      <4>1. CASE k = Len(written')
        BY <3>2, <3>3, <4>1
      <4>2. CASE k # Len(written')
        <5>1. k \in 1 .. Len(written)
          BY <3>1, <4>2
        <5> QED
          BY <3>3, <4>2, <5>1 DEF WrittenSoFar
      <4> QED
        BY <4>1, <4>2
    <3> QED
      BY <2>1, <2>2, <3>1, <3>4 DEF WrittenSoFar
  <2>6. ChunksCurrent' /\ ResultsCurrent'
    BY <2>1, <2>2 DEF Together, ChunksCurrent, ResultsCurrent, Parallel
  <2> QED
    BY <2>3, <2>4, <2>5, <2>6
<1> QED
  BY <1>1, <1>2

\* Every step of barrier.cpp keeps the invariant.
LEMMA BarrierNext == ASSUME BarrierInv, B!Next PROVE BarrierInv'
<1>1. CASE B!Main
  BY <1>1, BarrierMainStep
<1>2. CASE B!Stopped
  BY <1>2, BarrierMainStep
<1>3. CASE \E t \in B!Threads : B!Thread(t)
  BY <1>3, TestStep, GetStep, DivideStep, ArriveStep, SetChunkStep, ArriveAgainStep, WriteStep
     DEF B!Thread
<1> QED
  BY <1>1, <1>2, <1>3 DEF B!Next

-------------------------------------------------------------------------
(* The condition variable.                                                 *)

\* How many chunks were popped, and how many were pushed.
Popped == IF consumer = "pop" THEN Len(processed) - 1 ELSE Len(processed)
Pushed == IF producer \in {"lock", "push"} THEN prepared - 1 ELSE prepared

CondvarType ==
  /\ prepared \in Nat /\ Pushed \in Nat
  /\ data_queue \in Seq(Nat) /\ processed \in Seq(Nat)
  /\ consumer = "pop" => Len(processed) > 0

QueueIsTheRest ==
  /\ Len(data_queue) = Pushed - Popped
  /\ \A k \in 1 .. Len(data_queue) : data_queue[k] = Popped + k

NotYetStarted ==
  /\ main = "t1" => consumer = "unborn"
  /\ main \in {"t1", "t2"} => producer = "unborn"

CondvarInv ==
  /\ CondvarType
  /\ NotYetStarted
  /\ QueueIsTheRest
  /\ consumer \in {"front", "pop"} => data_queue # <<>>
  /\ \A k \in 1 .. Len(processed) : processed[k] = k

\* The inductive invariant says more than InOrder.
LEMMA CondvarImplies == CondvarInv => C!InOrder
<1> SUFFICES ASSUME CondvarInv PROVE C!InOrder
  OBVIOUS
<1>1. data_queue = [k \in 1 .. Pushed - Popped |-> Popped + k]
  BY DEF CondvarInv, CondvarType, QueueIsTheRest
<1> QED
  BY <1>1 DEF CondvarInv, Pushed, Popped, C!InOrder

\* main() of condition_variable.cpp begins with the invariant.
LEMMA CondvarInit == C!Init => CondvarInv
  BY DEF C!Init, CondvarInv, CondvarType, NotYetStarted, QueueIsTheRest, Pushed, Popped

\* Steps that leave the chunks where they are.
LEMMA CondvarStill ==
  ASSUME CondvarInv, UNCHANGED <<data_queue, processed>>, Pushed' = Pushed, Popped' = Popped,
         NotYetStarted', prepared' \in Nat, consumer' = "pop" => consumer = "pop",
         consumer' = "front" => data_queue # <<>>
  PROVE  CondvarInv'
<1>1. CondvarType'
  BY DEF CondvarInv, CondvarType
<1>2. QueueIsTheRest'
  BY DEF CondvarInv, QueueIsTheRest
<1> QED
  BY <1>1, <1>2 DEF CondvarInv

\* The chunk that is pushed is the next one.
LEMMA PushStep == ASSUME CondvarInv, C!push PROVE CondvarInv'
<1>1. /\ data_queue' = Append(data_queue, prepared) /\ UNCHANGED <<consumer, prepared, processed>>
      /\ Pushed = prepared - 1 /\ Pushed' = prepared /\ Popped' = Popped
  BY DEF C!push, C!P, Pushed, Popped
<1>2. CondvarType'
  BY <1>1 DEF CondvarInv, CondvarType
<1>3. /\ Len(data_queue') = Len(data_queue) + 1 /\ Len(data_queue) \in Nat
      /\ \A k \in 1 .. Len(data_queue') :
           data_queue'[k] = IF k = Len(data_queue) + 1 THEN prepared ELSE data_queue[k]
  BY <1>1 DEF CondvarInv, CondvarType
<1>4. Popped \in Nat
  BY DEF CondvarInv, CondvarType, Popped
<1>5. QueueIsTheRest'
  <2>1. Len(data_queue') = Pushed' - Popped' /\ prepared = Popped + Len(data_queue) + 1
    BY <1>1, <1>3, <1>4 DEF CondvarInv, CondvarType, QueueIsTheRest
  <2>2. \A k \in 1 .. Len(data_queue') : data_queue'[k] = Popped' + k
    <3>1. \A k \in 1 .. Len(data_queue) : data_queue[k] = Popped + k
      BY DEF CondvarInv, QueueIsTheRest
    <3> QED
      BY <1>1, <1>3, <1>4, <2>1, <3>1
  <2> QED
    BY <2>1, <2>2 DEF QueueIsTheRest
<1>6. data_queue' # <<>>
  BY <1>3
<1>7. NotYetStarted'
  BY DEF CondvarInv, NotYetStarted, C!push, C!P
<1> QED
  BY <1>1, <1>2, <1>5, <1>6, <1>7 DEF CondvarInv

\* The chunk at the front is the next one to process.
LEMMA FrontStep == ASSUME CondvarInv, C!front PROVE CondvarInv'
<1>1. /\ processed' = Append(processed, Head(data_queue)) /\ data_queue # <<>>
      /\ UNCHANGED <<producer, prepared, data_queue>> /\ consumer = "front" /\ consumer' = "pop"
  BY DEF C!front, C!C
<1>2. /\ Len(processed') = Len(processed) + 1 /\ Len(processed) \in Nat
      /\ Popped = Len(processed) /\ Popped' = Popped /\ Pushed' = Pushed
  BY <1>1 DEF CondvarInv, CondvarType, Pushed, Popped
<1>3. Head(data_queue) = Len(processed) + 1
  <2>1. Head(data_queue) = data_queue[1] /\ 1 \in 1 .. Len(data_queue)
    BY <1>1 DEF CondvarInv, CondvarType
  <2> QED
    BY <1>2, <2>1 DEF CondvarInv, QueueIsTheRest
<1>4. CondvarType'
  BY <1>1, <1>2, <1>3 DEF CondvarInv, CondvarType
<1>5. QueueIsTheRest'
  BY <1>1, <1>2 DEF CondvarInv, QueueIsTheRest
<1>6. \A k \in 1 .. Len(processed') : processed'[k] = k
  BY <1>1, <1>2, <1>3 DEF CondvarInv, CondvarType
<1>7. NotYetStarted'
  BY DEF CondvarInv, NotYetStarted, C!front, C!C
<1> QED
  BY <1>1, <1>4, <1>5, <1>6, <1>7 DEF CondvarInv

\* The chunk that is popped was processed.
LEMMA PopStep == ASSUME CondvarInv, C!pop PROVE CondvarInv'
<1>1. /\ data_queue' = Tail(data_queue) /\ data_queue # <<>>
      /\ UNCHANGED <<producer, prepared, processed>> /\ consumer = "pop" /\ consumer' = "unlock"
  BY DEF C!pop, C!C
<1>2. Popped' = Popped + 1 /\ Pushed' = Pushed /\ Popped \in Nat
  BY <1>1 DEF CondvarInv, CondvarType, Pushed, Popped
<1>3. /\ Len(data_queue) \in Nat /\ Len(data_queue') = Len(data_queue) - 1
      /\ \A k \in 1 .. Len(data_queue') : data_queue'[k] = data_queue[k + 1]
  BY <1>1 DEF CondvarInv, CondvarType
<1>4. CondvarType'
  BY <1>1, <1>2 DEF CondvarInv, CondvarType
<1>5. QueueIsTheRest'
  <2>1. Len(data_queue') = Pushed' - Popped'
    BY <1>2, <1>3 DEF CondvarInv, CondvarType, QueueIsTheRest
  <2>2. ASSUME NEW k \in 1 .. Len(data_queue') PROVE data_queue'[k] = Popped' + k
    <3>1. k + 1 \in 1 .. Len(data_queue)
      BY <1>3
    <3>2. data_queue[k + 1] = Popped + (k + 1)
      BY <3>1 DEF CondvarInv, QueueIsTheRest
    <3> QED
      BY <1>2, <1>3, <3>2
  <2> QED
    BY <2>1, <2>2 DEF QueueIsTheRest
<1>7. NotYetStarted'
  BY DEF CondvarInv, NotYetStarted, C!pop, C!C
<1> QED
  BY <1>1, <1>4, <1>5, <1>7 DEF CondvarInv

\* Every step of condition_variable.cpp keeps the invariant.
LEMMA CondvarNext == ASSUME CondvarInv, C!Next PROVE CondvarInv'
<1>1. CASE C!more \/ C!prepare_data \/ C!producer_locks \/ C!producer_unlocks \/ C!notify_one
  <2>1. UNCHANGED <<data_queue, processed>> /\ Pushed' = Pushed /\ prepared' \in Nat
    BY <1>1 DEF C!more, C!there_is_more_data, C!prepare_data, C!producer_locks, C!producer_unlocks,
                C!notify_one, C!P, Pushed, CondvarInv, CondvarType
  <2>2. /\ consumer' = consumer \/ (consumer' = "relock" /\ consumer = "waiting")
        /\ main' = main /\ producer # "unborn"
    BY <1>1 DEF C!P, C!more, C!prepare_data, C!producer_locks, C!producer_unlocks, C!notify_one
  <2> QED
    BY <2>1, <2>2, CondvarStill DEF Popped, CondvarInv, NotYetStarted
<1>2. CASE \/ C!consumer_locks \/ C!wait \/ C!minimal_wait \/ C!relock \/ C!wait_returns
           \/ C!consumer_unlocks \/ C!process \/ C!spurious_wakeup
  <2>1. UNCHANGED <<data_queue, processed, prepared, producer, main>>
    BY <1>2 DEF C!consumer_locks, C!wait, C!minimal_wait, C!relock, C!wait_returns,
                C!consumer_unlocks, C!process, C!spurious_wakeup
  <2>2. /\ consumer \notin {"pop", "unborn"} /\ consumer' # "pop"
        /\ consumer' = "front" => data_queue # <<>>
    BY <1>2 DEF C!consumer_locks, C!wait, C!minimal_wait, C!relock, C!wait_returns, C!C,
                C!consumer_unlocks, C!process, C!spurious_wakeup
  <2> QED
    BY <2>1, <2>2, CondvarStill DEF Pushed, Popped, CondvarInv, CondvarType, NotYetStarted
<1>3. CASE C!MNext \/ C!Terminated
  <2>1. UNCHANGED <<data_queue, processed, prepared>>
    BY <1>3 DEF C!MNext, C!M, C!Terminated, C!vars, C!start_t1, C!start_t2, C!join_t1, C!join_t2
  <2>2. /\ consumer' = consumer \/ (consumer' = "lock" /\ consumer # "pop")
        /\ producer' = producer \/ (producer' = "more" /\ producer \notin {"lock", "push"})
    BY <1>3 DEF CondvarInv, NotYetStarted, C!MNext, C!M, C!Terminated, C!vars, C!start_t1,
                C!start_t2, C!join_t1, C!join_t2
  <2>3. NotYetStarted'
    BY <1>3 DEF CondvarInv, NotYetStarted, C!MNext, C!M, C!Terminated, C!vars, C!start_t1,
                C!start_t2, C!join_t1, C!join_t2
  <2> QED
    BY <2>1, <2>2, <2>3, CondvarStill DEF Pushed, Popped, CondvarInv, CondvarType
<1> QED
  BY <1>1, <1>2, <1>3, PushStep, FrontStep, PopStep DEF C!Next, C!PNext, C!CNext

-------------------------------------------------------------------------
(* The three programs, one of which runs.                                  *)

ProgramInv ==
  /\ chosen = "latch" => LatchInv
  /\ chosen = "barrier" => BarrierInv
  /\ chosen = "condvar" => CondvarInv

\* Whichever of the three programs runs, for all numbers of threads and blocks, its invariant holds.
THEOREM ProgramInvariantHolds == ProgramSpec => []ProgramInv
<1>1. ProgramInit => ProgramInv
  BY LatchInit, BarrierInit, CondvarInit DEF ProgramInit, ProgramInv
<1>2. ProgramInv /\ [ProgramNext]_programVars => ProgramInv'
  <2> SUFFICES ASSUME ProgramInv, [ProgramNext]_programVars PROVE ProgramInv'
    OBVIOUS
  <2>1. CASE UNCHANGED programVars
    BY <2>1 DEF programVars, latchVars, barrierVars, condvarVars, ProgramInv, LatchInv, LatchType, NotAhead,
       Counted, MainCounted, CountedIsMade, Enough, L!Made, L!Workers, NotStarted, BarrierInv,
       BarrierType, Roles, Together, WrittenSoFar, ChunksCurrent, ResultsCurrent, CondvarInv,
       CondvarType, NotYetStarted, QueueIsTheRest, Pushed, Popped
  <2>2. CASE ProgramNext
    BY <2>2, LatchNext, BarrierNext, CondvarNext DEF ProgramNext, ProgramInv
  <2> QED
    BY <2>1, <2>2
<1> QED
  BY <1>1, <1>2, PTL DEF ProgramSpec

\* The latch lets the main thread on when the data are complete, or but one, for all numbers of workers.
THEOREM EnoughDataHolds == ProgramSpec => []EnoughData
<1>1. ProgramInv => EnoughData
  BY AtMostOne DEF ProgramInv, LatchInv, Enough, EnoughData, L!EnoughData
<1> QED
  BY <1>1, ProgramInvariantHolds, PTL

\* No thread processes a chunk while thread 0 does the serial work of a round.
THEOREM SerialIsAloneHolds == ProgramSpec => []SerialIsAlone
<1>1. ProgramInv => SerialIsAlone
  BY BarrierImplies DEF ProgramInv, SerialIsAlone
<1> QED
  BY <1>1, ProgramInvariantHolds, PTL

\* What is written is block after block, each from the chunks of all threads.
THEOREM WritesHold == ProgramSpec => []WritesAreComplete
<1>1. ProgramInv => WritesAreComplete
  BY BarrierImplies DEF ProgramInv, WritesAreComplete
<1> QED
  BY <1>1, ProgramInvariantHolds, PTL

\* The consumer finds a chunk after its wait, and takes the chunks in their order.
THEOREM OrderHolds == ProgramSpec => []InOrder
<1>1. ProgramInv => InOrder
  BY CondvarImplies DEF ProgramInv, InOrder
<1> QED
  BY <1>1, ProgramInvariantHolds, PTL

=============================================================================
