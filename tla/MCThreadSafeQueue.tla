------------------------ MODULE MCThreadSafeQueue ------------------------
(***************************************************************************)
(* Instances of ThreadSafeQueue: two consumers, a producer or two, and a   *)
(* thread that observes and copies.                                        *)
(***************************************************************************)
EXTENDS ThreadSafeQueue

CONSTANTS p1, p2, c1, c2, o1

Producers == {p1, p2}
Consumers == {c1, c2}

MCMayCall ==
  [t \in Threads |->
     IF t \in Producers THEN {"push"}
     ELSE IF t \in Consumers THEN {"wait_and_pop", "try_pop"}
     ELSE {"empty", "copy"}]

=========================================================================
