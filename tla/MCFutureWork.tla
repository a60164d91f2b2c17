---------------------------- MODULE MCFutureWork ----------------------------
(* Four pushes in the place of 1000; every list of up to four of three values, so *)
(* that equal values meet on both sides of a pivot; two draws of operands up to   *)
(* 30 in words of 64.                                                             *)
EXTENDS FutureWork

FourPushes == 4
ThreeValues == 1 .. 3
FourNodes == 4

=============================================================================
