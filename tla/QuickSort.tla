----------------------------- MODULE QuickSort -----------------------------
(***************************************************************************)
(* sequential_quick_sort and parallel_quick_sort (quick_sort.cpp).  The    *)
(* two take the same steps: parallel_quick_sort keeps the sorted lower     *)
(* part in a std::future, but it calls itself to compute it there and      *)
(* then, in the same thread, whatever the comment on line 74 says.         *)
(*                                                                         *)
(* The lists are lists of nodes, which splice() moves and never copies; a  *)
(* node is an index of the list that is sorted, and Value says what it     *)
(* holds.  std::partition may leave each of its parts in any order.        *)
(***************************************************************************)
EXTENDS Naturals, Sequences, SequencesExt

CONSTANTS
  Values,  \* what the nodes hold
  MaxLen   \* bound: the longest list

QuickSortAssumption == Values \subseteq Nat /\ MaxLen \in Nat

VARIABLES
  Value,     \* the list that is sorted: the value of each node
  calls,     \* the calls that are under way, the innermost last
  returned   \* what the last call has returned

vars == <<Value, calls, returned>>

Nodes == DOMAIN Value

(***************************************************************************)
(* A call: its lists, with the sorted parts once they are there, and the   *)
(* statement it has come to:                                               *)
(*   "enter"  lines 6 to 13       "partition" lines 20 to 28               *)
(*   "lower"  line 31             "higher"    line 34                      *)
(*   "piece"  lines 37 to 40                                               *)
(***************************************************************************)
Call(input) ==
  [at |-> "enter", input |-> input, result |-> <<>>, lower_part |-> <<>>, new_lower |-> <<>>]

Init ==
  /\ Value \in UNION {[1 .. n -> Values] : n \in 0 .. MaxLen}
  /\ calls = <<Call([k \in Nodes |-> k])>>
  /\ returned = <<>>

top == calls[Len(calls)]

At(statement) == calls # <<>> /\ top.at = statement

\* The innermost call goes on; it calls itself; it returns.
Continue(c) == calls' = ReplaceAt(calls, Len(calls), c)
Recurse(c, input) == calls' = Append(ReplaceAt(calls, Len(calls), c), Call(input))
Return(list) == calls' = Front(calls) /\ returned' = list

-------------------------------------------------------------------------

return_empty ==
  /\ At("enter") /\ top.input = <<>>
  /\ Return(top.input)
  /\ UNCHANGED Value

\* The first node is the pivot.
take_pivot ==
  /\ At("enter") /\ top.input # <<>>
  /\ Continue([top EXCEPT !.at = "partition",
                          !.result = <<Head(top.input)>>, !.input = Tail(top.input)])
  /\ UNCHANGED <<Value, returned>>

pivot == Head(top.result)

BelowPivot == {n \in ToSet(top.input) : Value[n] < Value[pivot]}

\* Mutation: the values equal to the pivot are left behind.
partition_drops_equal ==
  /\ At("partition")
  /\ \E low \in SetToSeqs(BelowPivot),
        rest \in SetToSeqs({n \in ToSet(top.input) : Value[n] > Value[pivot]}) :
       Continue([top EXCEPT !.at = "lower", !.lower_part = low, !.input = rest])
  /\ UNCHANGED <<Value, returned>>

\* The values less than the pivot go to lower_part, the others stay.
partition ==
  /\ At("partition")
  /\ \E low \in SetToSeqs(BelowPivot), rest \in SetToSeqs(ToSet(top.input) \ BelowPivot) :
       Continue([top EXCEPT !.at = "lower", !.lower_part = low, !.input = rest])
  /\ UNCHANGED <<Value, returned>>

\* new_lower(sequential_quick_sort(std::move(lower_part))).
sort_lower ==
  /\ At("lower")
  /\ Recurse([top EXCEPT !.at = "higher", !.lower_part = <<>>], top.lower_part)
  /\ UNCHANGED <<Value, returned>>

\* new_lower has been returned; new_higher(sequential_quick_sort(std::move(input))).
sort_higher ==
  /\ At("higher")
  /\ Recurse([top EXCEPT !.at = "piece", !.new_lower = returned, !.input = <<>>], top.input)
  /\ returned' = <<>>
  /\ UNCHANGED Value

\* new_higher has been returned: it goes behind the pivot, new_lower before it.
piece_together ==
  /\ At("piece")
  /\ Return(top.new_lower \o top.result \o returned)
  /\ UNCHANGED Value

Finished == calls = <<>> /\ UNCHANGED vars

Next == \/ return_empty \/ take_pivot \/ partition \/ sort_lower \/ sort_higher
        \/ piece_together \/ Finished

Spec == Init /\ [][Next]_vars

\* There is one thread, and it goes on.
FairSpec == Spec /\ WF_vars(Next)

-------------------------------------------------------------------------

Ordered(list) ==
  \A k \in 1 .. Len(list) - 1 : Value[list[k]] <= Value[list[k + 1]]

\* The list that the outermost call returns has every node of the list that was sorted, once,
\* and is in order: splice() loses and doubles none, also of equal values and empty parts (lines
\* 13, 20 to 28 and 37 to 40).
ReturnsSorted ==
  calls = <<>> =>
    Ordered(returned) /\ Len(returned) = Len(Value) /\ ToSet(returned) = Nodes

\* The outermost call has returned.
Over == calls = <<>>

=============================================================================
