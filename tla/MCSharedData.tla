---------------------------- MODULE MCSharedData ----------------------------
(* Three threads, which may all read or wait while another one writes or makes; two *)
(* calls each and two failures of the initialisation; a call each of the cache with *)
(* two domains and two entries; the six threads of mutex.cpp; two threads of each   *)
(* kind for the locks.                                                              *)
EXTENDS SharedData

CONSTANTS t1, t2, t3, t4, t5, com, org, e1, e2

MCThreads == {t1, t2, t3}
MCDomains == {com, org}
MCEntries == {e1, e2}
MCProcessors == {t1, t2}
MCWaiters == {t3, t4}

=============================================================================
