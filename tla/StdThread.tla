----------------------------- MODULE StdThread -----------------------------
(***************************************************************************)
(* std::thread as JThread.h and thread_guard.cpp use it: objects with one  *)
(* std::thread member each, and the threads they refer to.                 *)
(* The objects belong to one thread, the owner, which blocks in join()     *)
(* until the joined thread has finished; the threads run beside it.        *)
(*                                                                         *)
(* The assignments and the destructors of the two classes have several     *)
(* statements; `call' is the one the owner is about to execute.  The       *)
(* std::thread member itself calls std::terminate when it is assigned to,  *)
(* or destroyed, while it is joinable.                                     *)
(***************************************************************************)
EXTENDS Naturals

CONSTANTS
  Objects,   \* the objects that hold a std::thread
  Parameter, \* the std::thread that is passed by value to operator=
  Threads,   \* the threads that can be started, each at most once
  NoThread,  \* what a std::thread refers to that is not joinable
  NoObject

ASSUME ThreadAssumption ==
  /\ NoThread \notin Threads
  /\ Parameter \notin Objects
  /\ NoObject \notin Objects \cup {Parameter}

Holders == Objects \cup {Parameter}

VARIABLES
  alive,      \* the objects that exist
  thread,     \* the thread each object, and the parameter, refers to
  running,    \* the threads that run
  finished,   \* the threads that have run
  joined,     \* the threads that were joined
  detached,   \* the threads that were detached
  call,       \* what the owner is about to do, in which call
  self, rhs,  \* the object whose function it is, and the object or parameter it assigns from
  terminated  \* was std::terminate called?

vars == <<alive, thread, running, finished, joined, detached, call, self, rhs, terminated>>
released == <<joined, detached>>
frame == <<call, self, rhs>>

(***************************************************************************)
(* call: "idle", "assign" about to join in operator=, "move" about to      *)
(*       assign to the member, "leave" at the end of operator=,            *)
(*       "destroy" about to join in the destructor, "member" about to      *)
(*       destroy the member                                                *)
(***************************************************************************)
Started == running \cup finished

Init ==
  /\ alive = {}
  /\ thread = [o \in Holders |-> NoThread]
  /\ running = {} /\ finished = {}
  /\ joined = {} /\ detached = {}
  /\ call = "idle" /\ self = NoObject /\ rhs = NoObject
  /\ terminated = FALSE

joinable(o) == thread[o] # NoThread

\* o can be used; o is made.
Ready(o) == call = "idle" /\ o \in alive
New(o) == call = "idle" /\ o \notin alive /\ alive' = alive \cup {o}

Begin(what, o, p) == call' = what /\ self' = o /\ rhs' = p
Go(from, to) == call = from /\ ~terminated /\ call' = to /\ UNCHANGED <<self, rhs>>
Return == call' = "idle" /\ self' = NoObject /\ rhs' = NoObject

Finish(t) ==
  /\ t \in running /\ ~terminated
  /\ running' = running \ {t}
  /\ finished' = finished \cup {t}
  /\ UNCHANGED <<alive, thread, released, frame, terminated>>

\* A new thread is started and o refers to it.
Start(o, t) ==
  /\ t \notin Started
  /\ running' = running \cup {t}
  /\ thread' = [thread EXCEPT ![o] = t]
  /\ UNCHANGED <<finished, released, terminated>>

\* o is made from the thread of p, which loses it.
Take(o, p) ==
  /\ thread' = [thread EXCEPT ![o] = thread[p], ![p] = NoThread]
  /\ UNCHANGED <<running, finished, released, terminated>>

\* thread.join() in o, which has a thread, returns.
Join(o) ==
  /\ thread[o] \in finished
  /\ joined' = joined \cup {thread[o]}
  /\ thread' = [thread EXCEPT ![o] = NoThread]
  /\ UNCHANGED <<alive, running, finished, detached, terminated>>

\* std::terminate ends the program: nothing happens after it.
Terminate ==
  /\ terminated' = TRUE
  /\ UNCHANGED <<alive, thread, running, finished, released, frame>>

\* thread = std::move(rhs.thread), or std::move(rhs).
move_assign(o) ==
  /\ call = "move" /\ self = o /\ ~terminated
  /\ IF joinable(o) THEN Terminate
     ELSE Go("move", "leave") /\ Take(o, rhs) /\ UNCHANGED alive

\* operator= returns, and its parameter is destroyed.
leave(o) ==
  /\ call = "leave" /\ self = o /\ ~terminated
  /\ IF joinable(Parameter) THEN Terminate
     ELSE Return /\ UNCHANGED <<alive, thread, running, finished, released, terminated>>

\* The member is destroyed at the end of the destructor, and the object is gone.
destroy_member(o) ==
  /\ call = "member" /\ self = o /\ ~terminated
  /\ IF joinable(o) THEN Terminate
     ELSE /\ Return /\ alive' = alive \ {o}
          /\ UNCHANGED <<thread, running, finished, released, terminated>>

-------------------------------------------------------------------------

\* Whatever is moved, assigned, swapped, joined or destroyed, a started thread that was neither
\* joined nor detached has exactly one owner, an object that exists or the parameter of the call
\* that goes on; no object refers to any other thread, and none was both joined and detached.
OwnedOnce ==
  /\ \A t \in Started \ (joined \cup detached) :
       \E o \in alive \cup {Parameter} :
         thread[o] = t /\ \A p \in Holders \ {o} : thread[p] # t
  /\ \A o \in Objects : joinable(o) => o \in alive /\ thread[o] \in Started \ (joined \cup detached)
  /\ joinable(Parameter) => rhs = Parameter /\ thread[Parameter] \in Started \ (joined \cup detached)
  /\ joined \cap detached = {}

=============================================================================
