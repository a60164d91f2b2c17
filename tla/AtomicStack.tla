--------------------------- MODULE AtomicStack ---------------------------
(***************************************************************************)
(* What a thread-safe stack promises: every operation takes effect at one  *)
(* instant, returns what it should at that instant, or fails and changes   *)
(* nothing.                                                                *)
(***************************************************************************)
EXTENDS Naturals, Sequences

CONSTANTS Threads, Values

VARIABLES
  stack,   \* bottom first
  result   \* what the last operation of each thread returned or threw

Result(kind, vals) == [kind |-> kind, vals |-> vals]

Returns(t, kind, vals) == result' = [result EXCEPT ![t] = Result(kind, vals)]

Top == stack[Len(stack)]

-------------------------------------------------------------------------

Push(t, v) ==
  /\ stack' = Append(stack, v)
  /\ Returns(t, "pushed", <<>>)

Pop(t) ==
  /\ stack # <<>>
  /\ stack' = SubSeq(stack, 1, Len(stack) - 1)
  /\ Returns(t, "popped", <<Top>>)

\* pop() on an empty stack throws empty_stack.
Underflow(t) ==
  /\ stack = <<>>
  /\ Returns(t, "empty_stack", <<>>)
  /\ UNCHANGED stack

IsEmpty(t) ==
  /\ Returns(t, IF stack = <<>> THEN "true" ELSE "false", <<>>)
  /\ UNCHANGED stack

Copy(t) ==
  /\ Returns(t, "copied", stack)
  /\ UNCHANGED stack

\* Copying an element fails: nothing happens.
Fail(t) ==
  /\ Returns(t, "threw", <<>>)
  /\ UNCHANGED stack

Init ==
  /\ stack = <<>>
  /\ result = [t \in Threads |-> Result("none", <<>>)]

Next ==
  \E t \in Threads :
    \/ \E v \in Values : Push(t, v)
    \/ Pop(t) \/ Underflow(t) \/ IsEmpty(t) \/ Copy(t) \/ Fail(t)

Spec == Init /\ [][Next]_<<stack, result>>

=========================================================================
