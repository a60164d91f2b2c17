----------------------------- MODULE SharedData -----------------------------
(***************************************************************************)
(* The small programs in which threads share data behind one lock of the   *)
(* library: a flag that lets one thread make them (CallOnce), a lock of    *)
(* many readers (DnsCache), a plain mutex (ProtVector), a lock that moves  *)
(* or is given up for a while (UniqueLock).  They share nothing with one   *)
(* another; one of them is chosen and runs, and the variables that it does *)
(* not have are Absent.                                                    *)
(***************************************************************************)
EXTENDS Naturals

CONSTANTS
  Threads, NoThread,
  MaxCalls, MaxFailures,                        \* of CallOnce
  CacheCalls, Domains, Entries, DnsEntry, Torn, NoDomain,   \* of DnsCache
  Pairs,                                        \* of ProtVector
  Processors, Waiters, Setter,                  \* of UniqueLock
  Absent

VARIABLES
  chosen,                                                    \* the program that runs
  pc, calls,                                                 \* of its threads
  once, runner, resource, assigned, failures,                \* of CallOnce
  entries, readers, writer, domain, entry, found, meanwhile, \* of DnsCache
  vec, mutex, elem, line, lines, main, i,                    \* of ProtVector
  mtx, m, flag, data, held                                   \* of UniqueLock

O == INSTANCE CallOnce
D == INSTANCE DnsCache WITH MaxCalls <- CacheCalls
V == INSTANCE ProtVector
U == INSTANCE UniqueLock

ASSUME SharedDataAssumption ==
  /\ O!CallOnceAssumption /\ D!CacheAssumption
  /\ V!ProtVectorAssumption /\ U!UniqueLockAssumption

onceVars == <<once, runner, resource, assigned, failures>>
cacheVars == <<entries, readers, writer, domain, entry, found, meanwhile>>
vectorVars == <<vec, mutex, elem, line, lines, main, i>>
lockVars == <<mtx, m, flag, data, held>>
vars == <<chosen, pc, calls, onceVars, cacheVars, vectorVars, lockVars>>

NoOnce ==
  /\ once = Absent /\ runner = Absent /\ resource = Absent
  /\ assigned = Absent /\ failures = Absent

NoCache ==
  /\ entries = Absent /\ readers = Absent /\ writer = Absent /\ domain = Absent
  /\ entry = Absent /\ found = Absent /\ meanwhile = Absent

NoVector ==
  /\ vec = Absent /\ mutex = Absent /\ elem = Absent /\ line = Absent
  /\ lines = Absent /\ main = Absent /\ i = Absent

NoLock == mtx = Absent /\ m = Absent /\ flag = Absent /\ data = Absent /\ held = Absent

Init ==
  \/ chosen = "once" /\ O!Init /\ NoCache /\ NoVector /\ NoLock
  \/ chosen = "cache" /\ D!Init /\ NoOnce /\ NoVector /\ NoLock
  \/ chosen = "vector" /\ V!Init /\ calls = Absent /\ NoOnce /\ NoCache /\ NoLock
  \/ chosen = "lock" /\ U!Init /\ calls = Absent /\ NoOnce /\ NoCache /\ NoVector

Next ==
  /\ UNCHANGED chosen
  /\ \/ chosen = "once" /\ O!Next /\ UNCHANGED <<cacheVars, vectorVars, lockVars>>
     \/ chosen = "cache" /\ D!Next /\ UNCHANGED <<onceVars, vectorVars, lockVars>>
     \/ chosen = "vector" /\ V!Next /\ UNCHANGED <<calls, onceVars, cacheVars, lockVars>>
     \/ chosen = "lock" /\ U!Next /\ UNCHANGED <<calls, onceVars, cacheVars, vectorVars>>

Spec == Init /\ [][Next]_vars

\* The fairness of the program that runs.
FairSpec ==
  /\ Spec
  /\ \A t \in Threads : WF_(O!vars)(chosen = "once" /\ O!Step(t))
  /\ \A t \in Threads : WF_(D!vars)(chosen = "cache" /\ D!Step(t))
  /\ WF_(V!vars)(chosen = "vector" /\ V!Main)
  /\ \A t \in V!Spawned : WF_(V!vars)(chosen = "vector" /\ V!Step(t))
  /\ \A t \in Processors : WF_(U!vars)(chosen = "lock" /\ U!Process(t))
  /\ \A t \in U!Flaggers : /\ WF_(U!vars)(chosen = "lock" /\ U!Flagging(t))
                           /\ SF_(U!vars)(chosen = "lock" /\ U!lock_m(t))

-------------------------------------------------------------------------

\* What CallOnce initialises is made once and before it is used (call_once.cpp, lines 13 to 19
\* and 42 to 58).
MadeOnce == chosen = "once" => O!MadeOnce

\* What a thread has read, shown or prepared under its lock is what it may rely on: an entry of
\* the cache is one that was there during the call, a line is what the vector held at one moment,
\* the data of get_lock() are still those when its caller works on them (shared_mutex.cpp, lines
\* 17 to 27; mutex.cpp, 17 to 25; unique_lock.cpp, 44 to 54).
ReadsAreCurrent ==
  /\ chosen = "cache" => D!FindIsCurrent
  /\ chosen = "vector" => V!LinesAreWhole
  /\ chosen = "lock" => U!WorkIsMine

\* Nobody changes the map of DnsCache or the vector of ProtVector while another thread holds an
\* iterator into it (shared_mutex.cpp, lines 18 to 19 and 27; mutex.cpp, 18 and 23).
StillWhileRead ==
  [][/\ chosen = "cache" => D!StillWhileRead
     /\ chosen = "vector" => V!StillWhileRead]_vars

\* Every call returns: it is not left waiting for an initialisation that has thrown, for readers
\* or writers that hold each other up, for a mutex that a lock has taken along, or for a flag that
\* is set (call_once.cpp, lines 18 and 51; shared_mutex.cpp, 17 and 26; mutex.cpp, 42 to 47;
\* unique_lock.cpp, 48 to 55; sleep_for.cpp, 10 to 15).
CallsReturn ==
  /\ \A t \in Threads :
       /\ chosen = "once" /\ ~O!Idle(t) ~> chosen = "once" /\ O!Idle(t)
       /\ chosen = "cache" /\ ~D!Idle(t) ~> chosen = "cache" /\ D!Idle(t)
  /\ chosen = "vector" ~> chosen = "vector" /\ V!Over
  /\ chosen = "lock" ~> chosen = "lock" /\ U!Over

=============================================================================
