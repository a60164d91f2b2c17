--------------------------- MODULE MCThreadOwners ---------------------------
(* Instance of ThreadOwners for TLC: two JThreads, two Threads and three threads to own. *)
EXTENDS ThreadOwners

CONSTANTS j1, j2, g1, g2, t1, t2, t3

MCObjects == {j1, j2, g1, g2}
MCGuards == {g1, g2}
MCThreads == {t1, t2, t3}

=============================================================================
