---------------------------- MODULE MemoryModes ----------------------------
(***************************************************************************)
(* The programs of Atomic/memory_modes.cpp under the memory modes that the *)
(* file explains, and the loop of Atomic/compare_exchange.cpp.             *)
(*                                                                         *)
(* The memory model is external.  It is given by views: every store leaves *)
(* a message at a time of its location (the modification order), a thread  *)
(* may read any message that is not older than what it has seen, and a     *)
(* release store passes on what its thread has seen to whoever reads it    *)
(* with acquire.  In a program that is seq_cst throughout every load reads *)
(* the last store.  A plain variable is read like a relaxed one: if that   *)
(* can give a stale value the program has a data race.  Stores are made in *)
(* program order, so that loads that see values of a later time than their *)
(* own (out of thin air, load buffering) are left out.                     *)
(***************************************************************************)
EXTENDS Naturals, Sequences

CONSTANT MaxTime   \* bound: the times of a location, at least the stores to it

ASSUME TimeAssumption == MaxTime \in Nat /\ MaxTime >= 2

Locations == {"a", "b", "x", "y"}
ScriptThreads == 1 .. 4
Modes == {"seq_cst", "acq_rel", "relaxed"}

-------------------------------------------------------------------------
(* Programs: the modes they are given in, and a script per thread.         *)
(*   store, load   of an atomic, in the mode of the program                *)
(*   plain         a store to a variable that is not atomic                *)
(*   if            load, and go on only when it gives the value            *)
(*   assert, assert_plain   load and assert that it gives the value        *)
(*   until, changed   load until it gives the value, or another one than   *)
(*                 the first load of the thread                            *)
(*   rising        assert that what was loaded is in order                 *)
(*   exchange      the loop of compare_exchange_weak(expected, false)      *)

Program(modes, t1, t2, t3, t4) == [modes |-> modes, script |-> <<t1, t2, t3, t4>>]

publish == Program({"seq_cst"},
  << <<"plain", "y", 1>>, <<"store", "x", 2>> >>,
  << <<"if", "x", 2>>, <<"assert_plain", "y", 1>> >>, <<>>, <<>>)

\* Mutation: thread 1 stores y only after a has changed.
loops_swapped == Program({"seq_cst"},
  << <<"load", "a">>, <<"changed", "a">>, <<"store", "y", 1>> >>,
  << <<"until", "y", 1>>, <<"store", "a", 1>> >>, <<>>, <<>>)

loops == Program({"seq_cst"},
  << <<"load", "a">>, <<"store", "y", 1>>, <<"changed", "a">> >>,
  << <<"until", "y", 1>>, <<"store", "a", 1>> >>, <<>>, <<>>)

\* The if of thread 3 ends in a semicolon: its assert is unconditional.
unsynced == Program({"relaxed"},
  << <<"store", "x", 10>>, <<"store", "y", 20>> >>,
  << <<"if", "x", 10>>, <<"assert", "y", 20>>, <<"store", "y", 10>> >>,
  << <<"load", "y">>, <<"assert", "x", 10>> >>, <<>>)

coherence == Program({"relaxed"},
  << <<"store", "x", 1>>, <<"store", "x", 2>> >>,
  << <<"load", "x">>, <<"load", "x">>, <<"rising">> >>, <<>>, <<>>)

independent == Program({"acq_rel", "seq_cst"},
  << <<"store", "y", 20>> >>, << <<"store", "x", 10>> >>,
  << <<"assert", "y", 20>>, <<"assert", "x", 0>> >>,
  << <<"assert", "y", 0>>, <<"assert", "x", 10>> >>)

release == Program({"acq_rel"},
  << <<"plain", "y", 20>>, <<"store", "x", 10>> >>,
  << <<"if", "x", 10>>, <<"assert_plain", "y", 20>> >>, <<>>, <<>>)

summary == Program(Modes,
  << <<"store", "y", 20>>, <<"store", "x", 10>> >>,
  << <<"if", "x", 10>>, <<"assert", "y", 20>>, <<"store", "y", 10>> >>,
  << <<"if", "y", 10>>, <<"assert", "x", 10>> >>, <<>>)

\* compare_exchange.cpp: b, false at first, is also "set somewhere else"; here thread 2 does.
compare_exchange == Program({"seq_cst"},
  << <<"exchange", "b">> >>, << <<"store", "b", 1>>, <<"store", "b", 0>>, <<"store", "b", 1>> >>,
  <<>>, <<>>)

Programs ==
  {publish, loops, unsynced, coherence, independent, release, summary, compare_exchange}

-------------------------------------------------------------------------

VARIABLES
  program, mode,
  memory,   \* the messages: what was stored where, when, and seen by whom before
  view,     \* for each thread, the time of each location it has seen
  at,       \* the statement each thread has come to
  loaded,   \* what each thread has loaded
  failed    \* the threads whose assert has failed; the program is aborted then

atomicsVars == <<program, mode, memory, view, at, loaded, failed>>

Nothing == [l \in Locations |-> 0]

Message(loc, time, val, seen) == [loc |-> loc, time |-> time, val |-> val, seen |-> seen]

AtomicsInit ==
  /\ program \in Programs
  /\ mode \in program.modes
  /\ memory = {Message(l, 0, 0, Nothing) : l \in Locations}
  /\ view = [t \in ScriptThreads |-> Nothing]
  /\ at = [t \in ScriptThreads |-> 1]
  /\ loaded = [t \in ScriptThreads |-> <<>>]
  /\ failed = {}

Script(t) == program.script[t]
Ended(t) == at[t] > Len(Script(t))
Statement(t) == Script(t)[at[t]]

About(t, kind) == failed = {} /\ ~Ended(t) /\ Statement(t)[1] = kind

Done(t) == at' = [at EXCEPT ![t] = @ + 1]
Leave(t) == at' = [at EXCEPT ![t] = Len(Script(t)) + 1]

Messages(loc) == {m \in memory : m.loc = loc}
Last(loc) == CHOOSE m \in Messages(loc) : \A n \in Messages(loc) : n.time <= m.time

Join(v, w) == [l \in Locations |-> IF v[l] > w[l] THEN v[l] ELSE w[l]]

-------------------------------------------------------------------------

\* What t may read at loc.
Readable(t, loc, how) ==
  IF how = "seq_cst" THEN {Last(loc)} ELSE {m \in Messages(loc) : m.time >= view[t][loc]}

\* What t has seen after it has read m.
Seen(t, m, how) ==
  Join(view[t], IF how = "relaxed" THEN [Nothing EXCEPT ![m.loc] = m.time] ELSE m.seen)

\* Mutation: what a release store passes on leaves out what its thread was told by others.
Passed_own(t, loc, time, how) == [Nothing EXCEPT ![loc] = time]

\* What a message passes on: all that its thread has seen, with release.
Passed(t, loc, time, how) ==
  IF how = "relaxed" THEN [Nothing EXCEPT ![loc] = time] ELSE [view[t] EXCEPT ![loc] = time]

\* A store is later than everything its thread has seen at loc; with seq_cst it is the next one
\* after everything that is there.
FreeTimes(t, loc, how) ==
  IF how = "seq_cst" THEN {Last(loc).time + 1} \cap 1 .. MaxTime
  ELSE {time \in 1 .. MaxTime : time > view[t][loc] /\ \A m \in Messages(loc) : m.time # time}

Write(t, loc, val, how) ==
  \E time \in FreeTimes(t, loc, how) :
    /\ memory' = memory \cup {Message(loc, time, val, Passed(t, loc, time, how))}
    /\ view' = [view EXCEPT ![t][loc] = time]

Looks(t, m, how) == view' = [view EXCEPT ![t] = Seen(t, m, how)]

store(t) ==
  /\ About(t, "store")
  /\ Write(t, Statement(t)[2], Statement(t)[3], mode)
  /\ Done(t)
  /\ UNCHANGED <<program, mode, loaded, failed>>

plain(t) ==
  /\ About(t, "plain")
  /\ Write(t, Statement(t)[2], Statement(t)[3], "relaxed")
  /\ Done(t)
  /\ UNCHANGED <<program, mode, loaded, failed>>

load(t) ==
  /\ About(t, "load")
  /\ \E m \in Readable(t, Statement(t)[2], mode) :
       /\ Looks(t, m, mode)
       /\ loaded' = [loaded EXCEPT ![t] = Append(@, m.val)]
  /\ Done(t)
  /\ UNCHANGED <<program, mode, memory, failed>>

branch(t) ==
  /\ About(t, "if")
  /\ \E m \in Readable(t, Statement(t)[2], mode) :
       /\ Looks(t, m, mode)
       /\ IF m.val = Statement(t)[3] THEN Done(t) ELSE Leave(t)
  /\ UNCHANGED <<program, mode, memory, loaded, failed>>

\* An assert that fails aborts the program.
Asserts(t, condition) ==
  IF condition THEN Done(t) /\ UNCHANGED failed ELSE failed' = failed \cup {t} /\ UNCHANGED at

assert(t) ==
  /\ \E how \in {mode, "relaxed"} :
       /\ About(t, IF how = mode THEN "assert" ELSE "assert_plain")
       /\ \E m \in Readable(t, Statement(t)[2], how) :
            Looks(t, m, how) /\ Asserts(t, m.val = Statement(t)[3])
  /\ UNCHANGED <<program, mode, memory, loaded>>

\* while (y.load() != b) {}  and  while (a.load() == x): one round of the loop.
spin(t) ==
  /\ About(t, "until") \/ About(t, "changed")
  /\ \E m \in Readable(t, Statement(t)[2], mode) :
       /\ Looks(t, m, mode)
       /\ IF \/ Statement(t)[1] = "until" /\ m.val # Statement(t)[3]
             \/ Statement(t)[1] = "changed" /\ m.val = loaded[t][1]
          THEN UNCHANGED at ELSE Done(t)
  /\ UNCHANGED <<program, mode, memory, loaded, failed>>

\* assert(y <= z).
rising(t) ==
  /\ About(t, "rising")
  /\ Asserts(t, loaded[t][1] <= loaded[t][2])
  /\ UNCHANGED <<program, mode, memory, view, loaded>>

\* What compare_exchange_weak() compares with: true at first, then what it has found.
expected(t) == IF loaded[t] = <<>> THEN 1 ELSE loaded[t][1]

\* It succeeds and leaves the loop.
exchange(t) ==
  /\ About(t, "exchange")
  /\ Last("b").val = expected(t)
  /\ Write(t, "b", 0, mode)
  /\ Done(t)
  /\ UNCHANGED <<program, mode, loaded, failed>>

\* Mutation: the loop has no !expected.
exchange_fails_unchecked(t) ==
  /\ About(t, "exchange")
  /\ Looks(t, Last("b"), mode)
  /\ loaded' = [loaded EXCEPT ![t] = <<Last("b").val>>]
  /\ UNCHANGED <<program, mode, memory, at, failed>>

\* It fails, spuriously when b is what it expected, and puts what it has found into expected; the
\* loop goes on while that is false.
exchange_fails(t) ==
  /\ About(t, "exchange")
  /\ Looks(t, Last("b"), mode)
  /\ loaded' = [loaded EXCEPT ![t] = <<Last("b").val>>]
  /\ IF expected(t)' = 0 THEN UNCHANGED at ELSE Done(t)
  /\ UNCHANGED <<program, mode, memory, failed>>

Executes(t) ==
  \/ store(t) \/ plain(t) \/ load(t) \/ branch(t) \/ assert(t) \/ spin(t) \/ rising(t)
  \/ exchange(t) \/ exchange_fails(t)

\* Bound: the store has no time left that is later than what its thread has seen.
OutOfTimes(t) ==
  /\ ~Ended(t) /\ Statement(t)[1] \in {"store", "plain"}
  /\ FreeTimes(t, Statement(t)[2], mode) = {}

Stopped ==
  /\ failed # {} \/ \A t \in ScriptThreads : Ended(t) \/ OutOfTimes(t)
  /\ UNCHANGED atomicsVars

AtomicsNext == (\E t \in ScriptThreads : Executes(t)) \/ Stopped

AtomicsSpec == AtomicsInit /\ [][AtomicsNext]_atomicsVars

\* Every thread goes on in the end, and compare_exchange_weak() does not fail for ever where it
\* could succeed: a spurious failure is a matter of timing (compare_exchange.cpp, line 23).
FairSpec ==
  AtomicsSpec /\ \A t \in ScriptThreads : WF_atomicsVars(Executes(t)) /\ SF_atomicsVars(exchange(t))

-------------------------------------------------------------------------

\* The asserts that the file says cannot fail do not: lines 40, 116 and 164, both threads of the
\* summary with seq_cst (209) and its thread 2 with acquire and release (214).  Synchronization is
\* chained (181): thread 3 of the summary, which synchronizes with thread 2 only, finds what
\* thread 1 had stored before thread 2 synchronized with it.
AssertsHold ==
  /\ program \in {publish, coherence, release} => failed = {}
  /\ program = summary /\ mode \in {"seq_cst", "acq_rel"} => failed = {}

\* Once the exchange has found that b was true the loop leaves b alone: what !expected is there
\* for (compare_exchange.cpp, lines 33 to 44).
LeavesSeenAlone ==
  [][program = compare_exchange /\ loaded[1] = <<1>> => UNCHANGED <<at[1], view[1]>>]_atomicsVars

\* The threads that loop until another one has stored, or until their exchange has succeeded or
\* found true, leave their loops (lines 62 to 64, and compare_exchange.cpp, line 33).
LoopsEnd ==
  <>(program \in {loops, compare_exchange} => \A t \in ScriptThreads : Ended(t))

=============================================================================
