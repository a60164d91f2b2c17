----------------------- MODULE MCThreadSafeStackUse -----------------------
(***************************************************************************)
(* Instances of ThreadSafeStackUse: the two threads of main() and a third  *)
(* one, with fewer pairs than its ten.                                     *)
(***************************************************************************)
EXTENDS ThreadSafeStackUse

=========================================================================
