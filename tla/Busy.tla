-------------------------------- MODULE Busy --------------------------------
(***************************************************************************)
(* class Busy (Busy.h), the work that the programs of Future/ give to      *)
(* their threads: it draws sums of two random numbers and counts the ones  *)
(* that isPrime() finds prime.  unsigned is counted modulo WordSize.       *)
(***************************************************************************)
EXTENDS Integers

CONSTANTS
  WordSize,     \* 2^32 in the code
  MaxOperand,   \* 999999 in the code
  Draws         \* 10000 in the code

BusyAssumption ==
  /\ WordSize \in Nat /\ MaxOperand \in Nat \ {0} /\ Draws \in Nat
  /\ 2 * MaxOperand < WordSize

VARIABLES
  n, i, sqroot,   \* the argument and the locals of isPrime()
  counter,
  drawn,          \* the i of operator()
  pc              \* "draw", "loop" at the condition of the for of line 10, "return"

vars == <<n, i, sqroot, counter, drawn, pc>>

Operands == 1 .. MaxOperand

Root(m) == CHOOSE r \in 0 .. m : r * r <= m /\ (r + 1) * (r + 1) > m

Init ==
  /\ n = 0 /\ i = 0 /\ sqroot = 0 /\ counter = 0 /\ drawn = 0
  /\ pc = "draw"

\* Mutation: the first divisor that is tried is 1.
draw_from_one ==
  /\ pc = "draw" /\ drawn # Draws
  /\ \E a, b \in Operands :
       /\ n' = a + b
       /\ sqroot' = Root(a + b)
  /\ i' = 1
  /\ pc' = "loop"
  /\ UNCHANGED <<counter, drawn>>

\* operator() draws a number and calls isPrime() with it.
draw ==
  /\ pc = "draw" /\ drawn # Draws
  /\ \E a, b \in Operands :
       /\ n' = a + b
       /\ sqroot' = Root(a + b)
  /\ i' = 2
  /\ pc' = "loop"
  /\ UNCHANGED <<counter, drawn>>

\* i != sqroot && n % i
loops == i # sqroot /\ n % i # 0

next ==
  /\ pc = "loop" /\ loops
  /\ i' = (i + 1) % WordSize
  /\ UNCHANGED <<n, sqroot, counter, drawn, pc>>

\* return i == sqroot, and ++counter.
count ==
  /\ pc = "loop" /\ ~loops
  /\ counter' = IF i = sqroot THEN counter + 1 ELSE counter
  /\ drawn' = drawn + 1
  /\ pc' = "draw"
  /\ UNCHANGED <<n, i, sqroot>>

Finished == drawn = Draws /\ UNCHANGED vars

Next == draw \/ next \/ count \/ Finished

Spec == Init /\ [][Next]_vars

\* There is one thread, and it goes on.
FairSpec == Spec /\ WF_vars(Next)

-------------------------------------------------------------------------

LeastDivisor(m) == CHOOSE k \in 2 .. m : m % k = 0 /\ \A l \in 2 .. k - 1 : m % l # 0

\* What is counted when isPrime() returns: every prime but 2 and 3, whose root is below the first
\* divisor that is tried, and of the other numbers exactly those whose least divisor is the
\* root, which is not tried.  The loop compares with != from beyond the root, and still does
\* not divide by an i that has wrapped to 0 (lines 9 to 11).
CountsBelowRoot ==
  count => counter' - counter = IF n > 3 /\ LeastDivisor(n) \in {n, sqroot} THEN 1 ELSE 0

\* All numbers have been drawn.
Over == drawn = Draws

=============================================================================
