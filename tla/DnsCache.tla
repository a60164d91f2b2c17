------------------------------ MODULE DnsCache ------------------------------
(***************************************************************************)
(* class DnsCache (shared_mutex.cpp): a map that many threads may read at  *)
(* once and one may write, under a std::shared_mutex (external).           *)
(***************************************************************************)
EXTENDS Naturals

CONSTANTS
  Threads, Domains, Entries,
  DnsEntry,    \* the entry that DnsEntry() makes
  Torn,        \* what an entry looks like while it is being overwritten
  MaxCalls,    \* bound: the calls of each thread
  NoThread, NoDomain

CacheAssumption ==
  /\ DnsEntry \in Entries /\ Torn \notin Entries
  /\ NoThread \notin Threads /\ NoDomain \notin Domains /\ MaxCalls \in Nat

VARIABLES
  entries,          \* the map, a function on the domains that it holds
  readers, writer,  \* who owns the shared_mutex
  pc,               \* where each thread stands
  domain, entry,    \* the arguments; entry is also what find_entry() returns
  found,            \* whether the iterator it points to an element
  calls,
  meanwhile         \* history: what find_entry() could have answered since it was called

vars == <<entries, readers, writer, pc, domain, entry, found, calls, meanwhile>>

PCs == {"idle", "lock_shared", "find", "copy", "unlock_shared",
        "lock", "insert", "assign", "assigning", "unlock"}

Init ==
  /\ entries = [d \in {} |-> DnsEntry]
  /\ readers = {} /\ writer = NoThread
  /\ pc = [t \in Threads |-> "idle"]
  /\ domain = [t \in Threads |-> NoDomain]
  /\ entry = [t \in Threads |-> DnsEntry]
  /\ found = [t \in Threads |-> FALSE]
  /\ calls = [t \in Threads |-> 0]
  /\ meanwhile = [t \in Threads |-> {}]

Go(t, from, to) == pc[t] = from /\ pc' = [pc EXCEPT ![t] = to]

\* The right answer for domain d.
Answer(d) == IF d \in DOMAIN entries THEN entries[d] ELSE DnsEntry

Begins(t, d) ==
  /\ calls[t] < MaxCalls /\ calls' = [calls EXCEPT ![t] = @ + 1]
  /\ domain' = [domain EXCEPT ![t] = d]

-------------------------------------------------------------------------

find_entry(t, d) ==
  /\ Go(t, "idle", "lock_shared") /\ Begins(t, d)
  /\ meanwhile' = [meanwhile EXCEPT ![t] = {Answer(d)} \ {Torn}]
  /\ UNCHANGED <<entries, readers, writer, entry, found>>

lock_shared(t) ==
  /\ Go(t, "lock_shared", "find")
  /\ writer = NoThread
  /\ readers' = readers \cup {t}
  /\ UNCHANGED <<entries, writer, domain, entry, found, calls, meanwhile>>

\* Mutation: find() waits, under the lock, for the entry to come.
find_waits(t) ==
  /\ pc[t] = "find"
  /\ IF domain[t] \in DOMAIN entries
     THEN Go(t, "find", "copy") /\ found' = [found EXCEPT ![t] = TRUE]
     ELSE UNCHANGED <<pc, found>>
  /\ UNCHANGED <<entries, readers, writer, domain, entry, calls, meanwhile>>

find(t) ==
  /\ Go(t, "find", "copy")
  /\ found' = [found EXCEPT ![t] = domain[t] \in DOMAIN entries]
  /\ UNCHANGED <<entries, readers, writer, domain, entry, calls, meanwhile>>

\* (it == entries.end()) ? DnsEntry() : it->second
copy(t) ==
  /\ Go(t, "copy", "unlock_shared")
  /\ entry' = [entry EXCEPT ![t] = IF found[t] THEN entries[domain[t]] ELSE DnsEntry]
  /\ UNCHANGED <<entries, readers, writer, domain, found, calls, meanwhile>>

unlock_shared(t) ==
  /\ Go(t, "unlock_shared", "idle")
  /\ readers' = readers \ {t}
  /\ domain' = [domain EXCEPT ![t] = NoDomain]
  /\ UNCHANGED <<entries, writer, entry, found, calls, meanwhile>>

-------------------------------------------------------------------------

update_or_add_entry(t, d, e) ==
  /\ Go(t, "idle", "lock") /\ Begins(t, d)
  /\ entry' = [entry EXCEPT ![t] = e]
  /\ UNCHANGED <<entries, readers, writer, found, meanwhile>>

\* Mutation: the writer does not wait for the readers.
lock_ignores_readers(t) ==
  /\ Go(t, "lock", "insert")
  /\ writer = NoThread
  /\ writer' = t
  /\ UNCHANGED <<entries, readers, domain, entry, found, calls, meanwhile>>

lock(t) ==
  /\ Go(t, "lock", "insert")
  /\ writer = NoThread /\ readers = {}
  /\ writer' = t
  /\ UNCHANGED <<entries, readers, domain, entry, found, calls, meanwhile>>

\* entries[domain] makes the element when it is not there.
insert(t) ==
  /\ Go(t, "insert", "assign")
  /\ entries' = [d \in DOMAIN entries \cup {domain[t]} |-> Answer(d)]
  /\ UNCHANGED <<readers, writer, domain, entry, found, calls, meanwhile>>

\* No memory for the element: the exception unlocks the mutex.
insert_throws(t) ==
  /\ Go(t, "insert", "unlock") /\ domain[t] \notin DOMAIN entries
  /\ UNCHANGED <<entries, readers, writer, domain, entry, found, calls, meanwhile>>

\* ... = dns_info, which takes a while.
assign_begins(t) ==
  /\ Go(t, "assign", "assigning")
  /\ entries' = [entries EXCEPT ![domain[t]] = Torn]
  /\ UNCHANGED <<readers, writer, domain, entry, found, calls, meanwhile>>

assign_ends(t) ==
  /\ Go(t, "assigning", "unlock")
  /\ entries' = [entries EXCEPT ![domain[t]] = entry[t]]
  /\ meanwhile' = [u \in Threads |-> IF domain[u] = domain[t]
                                     THEN meanwhile[u] \cup {entry[t]} ELSE meanwhile[u]]
  /\ UNCHANGED <<readers, writer, domain, entry, found, calls>>

unlock(t) ==
  /\ Go(t, "unlock", "idle")
  /\ writer' = NoThread
  /\ domain' = [domain EXCEPT ![t] = NoDomain]
  /\ UNCHANGED <<entries, readers, entry, found, calls, meanwhile>>

Step(t) ==
  \/ \E d \in Domains : find_entry(t, d) \/ \E e \in Entries : update_or_add_entry(t, d, e)
  \/ lock_shared(t) \/ find(t) \/ copy(t) \/ unlock_shared(t)
  \/ lock(t) \/ insert(t) \/ insert_throws(t)
  \/ assign_begins(t) \/ assign_ends(t) \/ unlock(t)

Finished == (\A t \in Threads : pc[t] = "idle" /\ calls[t] = MaxCalls) /\ UNCHANGED vars

Next == (\E t \in Threads : Step(t)) \/ Finished

Spec == Init /\ [][Next]_vars

\* Every thread goes on in the end, and gets a mutex that stays free.
FairSpec == Spec /\ \A t \in Threads : WF_vars(Step(t))

-------------------------------------------------------------------------

Reading == {t \in Threads : pc[t] \in {"find", "copy"}}

\* While a thread searches the map or holds an iterator into it the map stays as it is (the
\* comments of lines 15 to 16 and 24 to 25).
StillWhileRead == Reading # {} => UNCHANGED entries

\* find_entry() answers what was right at some moment of the call, never an element that is half
\* made or half overwritten (lines 18 to 19 and 27).
FindIsCurrent == \A t \in Threads : pc[t] = "unlock_shared" => entry[t] \in meanwhile[t]

\* t is in no call.
Idle(t) == pc[t] = "idle"

=============================================================================
