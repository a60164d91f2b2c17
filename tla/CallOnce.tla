------------------------------ MODULE CallOnce ------------------------------
(***************************************************************************)
(* call_once.cpp: threads that need a resource call foo(), or send_data()  *)
(* and receive_data() of a Communication.  Each runs std::call_once with   *)
(* the same flag first, so that whoever comes first makes the resource or  *)
(* opens the connection and the others wait until it is there.             *)
(*                                                                         *)
(* std::call_once runs one function at a time; one that throws leaves the  *)
(* flag as it was, and another caller runs it again.                       *)
(***************************************************************************)
EXTENDS Naturals

CONSTANTS
  Threads,
  MaxCalls,     \* bound: how many calls each thread makes
  MaxFailures,  \* bound: how many times the initialisation throws
  NoThread

CallOnceAssumption == NoThread \notin Threads /\ MaxCalls \in Nat /\ MaxFailures \in Nat

VARIABLES
  once,       \* the flag: "new", "running" or "done"
  runner,     \* the thread that runs the initialisation
  resource,   \* how many resources were made and live
  assigned,   \* does resource_ptr, or connection, refer to one?
  pc,         \* where each thread stands
  calls,
  failures    \* how many times the initialisation has thrown

vars == <<once, runner, resource, assigned, pc, calls, failures>>

(***************************************************************************)
(* pc: "idle", "call_once" about to look at the flag, "make" about to      *)
(*     allocate or open, "assign" about to assign the result, "return"     *)
(*     about to mark the flag, "use" behind call_once                      *)
(***************************************************************************)
PCs == {"idle", "call_once", "make", "assign", "return", "use"}

Init ==
  /\ once = "new" /\ runner = NoThread
  /\ resource = 0 /\ assigned = FALSE
  /\ pc = [t \in Threads |-> "idle"]
  /\ calls = [t \in Threads |-> 0]
  /\ failures = 0

Go(t, from, to) ==
  /\ pc[t] = from
  /\ pc' = [pc EXCEPT ![t] = to]

\* foo(), send_data() or receive_data().
call(t) ==
  /\ Go(t, "idle", "call_once") /\ calls[t] < MaxCalls
  /\ calls' = [calls EXCEPT ![t] = @ + 1]
  /\ UNCHANGED <<once, runner, resource, assigned, failures>>

\* Mutation: if (!resource_ptr) init_resource(), without the flag.
begin_unless_assigned(t) ==
  /\ Go(t, "call_once", "make")
  /\ ~assigned
  /\ once' = "running" /\ runner' = t
  /\ UNCHANGED <<resource, assigned, calls, failures>>

begin(t) ==
  /\ Go(t, "call_once", "make")
  /\ once = "new"
  /\ once' = "running" /\ runner' = t
  /\ UNCHANGED <<resource, assigned, calls, failures>>

pass(t) ==
  /\ Go(t, "call_once", "use")
  /\ once = "done"
  /\ UNCHANGED <<once, runner, resource, assigned, calls, failures>>

\* new some_resource, or manager.open(connection_details).
make(t) ==
  /\ Go(t, "make", "assign")
  /\ resource' = resource + 1
  /\ UNCHANGED <<once, runner, assigned, calls, failures>>

\* It throws, or the assignment of its result does, which deletes what was made.  The exception
\* passes through call_once and the call.
throw(t) ==
  /\ \/ Go(t, "make", "idle") /\ UNCHANGED resource
     \/ Go(t, "assign", "idle") /\ resource' = resource - 1
  /\ failures < MaxFailures
  /\ failures' = failures + 1
  /\ once' = "new" /\ runner' = NoThread
  /\ UNCHANGED <<assigned, calls>>

\* resource_ptr.reset(...), or connection = ...
assign(t) ==
  /\ Go(t, "assign", "return")
  /\ assigned' = TRUE
  /\ UNCHANGED <<once, runner, resource, calls, failures>>

return(t) ==
  /\ Go(t, "return", "use")
  /\ once' = "done" /\ runner' = NoThread
  /\ UNCHANGED <<resource, assigned, calls, failures>>

\* do_something(), connection.send_data() or connection.receive_data().
use(t) ==
  /\ Go(t, "use", "idle")
  /\ UNCHANGED <<once, runner, resource, assigned, calls, failures>>

Step(t) == \/ begin(t) \/ pass(t) \/ make(t) \/ throw(t) \/ assign(t) \/ return(t) \/ use(t)

Finished == (\A t \in Threads : pc[t] = "idle" /\ calls[t] = MaxCalls) /\ UNCHANGED vars

Next == (\E t \in Threads : call(t) \/ Step(t)) \/ Finished

Spec == Init /\ [][Next]_vars

\* A thread inside a call goes on in the end.
FairSpec == Spec /\ \A t \in Threads : WF_vars(Step(t))

-------------------------------------------------------------------------

\* The resource is made once, also when earlier attempts have thrown; nobody uses it before
\* resource_ptr or connection refers to it; and once somebody may use it nobody is about to
\* assign it again under the feet of the users, who take no lock (lines 13, 18 to 19, 42, 51 to
\* 52 and 57 to 58).
MadeOnce ==
  /\ resource <= 1
  /\ \A t \in Threads : pc[t] = "use" =>
       /\ assigned /\ resource = 1
       /\ \A u \in Threads : pc[u] \notin {"make", "assign", "return"}

\* t is in no call.
Idle(t) == pc[t] = "idle"

=============================================================================
