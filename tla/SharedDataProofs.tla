--------------------------- MODULE SharedDataProofs ---------------------------
(***************************************************************************)
(* Machine-checked proofs about the four programs of SharedData, for every *)
(* number of threads, calls and failures and all domains and entries: the  *)
(* initialisation that runs once, the cache under its shared mutex, the    *)
(* vector under its plain one, and the lock that is moved out of           *)
(* get_lock().  Each has an inductive invariant of its own, which says     *)
(* something only when its program is the one that runs.                   *)
(***************************************************************************)
EXTENDS SharedData, Sequences, FiniteSetTheorems, TLAPS

USE DEF O!CallOnceAssumption, D!CacheAssumption, V!ProtVectorAssumption, U!UniqueLockAssumption

-------------------------------------------------------------------------
(* The initialisation that runs once.                                      *)

Running == {"make", "assign", "return"}

OnceType ==
  /\ pc \in [Threads -> O!PCs]
  /\ once \in {"new", "running", "done"}
  /\ runner \in Threads \cup {NoThread}

\* The flag knows the thread that is inside the initialisation.
RunnerRuns == \A t \in Threads : pc[t] \in Running <=> once = "running" /\ runner = t

\* What there is, by the flag and by where its runner stands.
ResourceKnown ==
  /\ once = "new" => resource = 0
  /\ once = "done" => resource = 1 /\ assigned
  /\ once = "running" => runner \in Threads
  /\ \A t \in Threads :
       /\ pc[t] = "make" => resource = 0
       /\ pc[t] \in {"assign", "return"} => resource = 1
       /\ pc[t] = "return" => assigned
       /\ pc[t] = "use" => once = "done"

OnceInv == OnceType /\ RunnerRuns /\ ResourceKnown

\* The inductive invariant says more than MadeOnce.
LEMMA OnceImplies == OnceInv => O!MadeOnce
<1> SUFFICES ASSUME OnceInv PROVE O!MadeOnce
  OBVIOUS
<1>1. resource \in {0, 1}
  BY DEF OnceInv, OnceType, RunnerRuns, ResourceKnown, Running
<1>2. resource <= 1
  BY <1>1
<1>3. ASSUME NEW t \in Threads, pc[t] = "use"
      PROVE  assigned /\ resource = 1 /\ \A u \in Threads : pc[u] \notin Running
  BY <1>3 DEF OnceInv, OnceType, RunnerRuns, ResourceKnown
<1> QED
  BY <1>2, <1>3 DEF O!MadeOnce, Running

\* call_once.cpp begins with the invariant.
LEMMA OnceInit == O!Init => OnceInv
  BY SharedDataAssumption
     DEF O!Init, O!PCs, OnceInv, OnceType, RunnerRuns, ResourceKnown, Running

\* Every step of call_once.cpp keeps the invariant.
LEMMA OnceNext == ASSUME OnceInv, O!Next PROVE OnceInv'
<1> USE SharedDataAssumption DEF OnceInv
<1>1. CASE O!Finished
  BY <1>1 DEF O!Finished, O!vars, OnceType, RunnerRuns, ResourceKnown
<1>2. ASSUME NEW t \in Threads, O!call(t) \/ O!Step(t) PROVE OnceInv'
  <2> DEFINE Went(label) == /\ pc' \in [Threads -> O!PCs]
                            /\ \A u \in Threads : pc'[u] = IF u = t THEN label ELSE pc[u]
  <2>1. CASE O!call(t)
    <3>1. Went("call_once") /\ pc[t] = "idle" /\ UNCHANGED <<once, runner, resource, assigned>>
      BY <2>1 DEF O!call, O!Go, OnceType, O!PCs
    <3> QED
      BY <3>1 DEF OnceType, RunnerRuns, ResourceKnown, Running
  <2>2. CASE O!begin(t)
    <3>1. /\ Went("make") /\ pc[t] = "call_once" /\ UNCHANGED <<resource, assigned>>
          /\ once = "new" /\ once' = "running" /\ runner' = t
      BY <2>2 DEF O!begin, O!Go, OnceType, O!PCs
    <3> QED
      BY <3>1 DEF OnceType, RunnerRuns, ResourceKnown, Running
  <2>3. CASE O!pass(t)
    <3>1. /\ Went("use") /\ pc[t] = "call_once" /\ UNCHANGED <<once, runner, resource, assigned>>
          /\ once = "done"
      BY <2>3 DEF O!pass, O!Go, OnceType, O!PCs
    <3> QED
      BY <3>1 DEF OnceType, RunnerRuns, ResourceKnown, Running
  <2>4. CASE O!make(t)
    <3>1. /\ Went("assign") /\ pc[t] = "make" /\ UNCHANGED <<once, runner, assigned>>
          /\ resource' = resource + 1
      BY <2>4 DEF O!make, O!Go, OnceType, O!PCs
    <3>2. resource' = 1 /\ once = "running" /\ runner = t
      BY <3>1 DEF RunnerRuns, ResourceKnown, Running
    <3> QED
      BY <3>1, <3>2 DEF OnceType, RunnerRuns, ResourceKnown, Running
  <2>5. CASE O!throw(t)
    <3>1. /\ Went("idle") /\ pc[t] \in {"make", "assign"} /\ UNCHANGED assigned
          /\ once' = "new" /\ runner' = NoThread
          /\ pc[t] = "make" => resource' = resource
          /\ pc[t] = "assign" => resource' = resource - 1
      BY <2>5 DEF O!throw, O!Go, OnceType, O!PCs
    <3>2. resource' = 0 /\ once = "running" /\ runner = t
      BY <3>1 DEF RunnerRuns, ResourceKnown, Running
    <3> QED
      BY <3>1, <3>2 DEF OnceType, RunnerRuns, ResourceKnown, Running
  <2>6. CASE O!assign(t)
    <3>1. /\ Went("return") /\ pc[t] = "assign" /\ UNCHANGED <<once, runner, resource>>
          /\ assigned'
      BY <2>6 DEF O!assign, O!Go, OnceType, O!PCs
    <3> QED
      BY <3>1 DEF OnceType, RunnerRuns, ResourceKnown, Running
  <2>7. CASE O!return(t)
    <3>1. /\ Went("use") /\ pc[t] = "return" /\ UNCHANGED <<resource, assigned>>
          /\ once' = "done" /\ runner' = NoThread
      BY <2>7 DEF O!return, O!Go, OnceType, O!PCs
    <3>2. resource = 1 /\ assigned /\ once = "running" /\ runner = t
      BY <3>1 DEF RunnerRuns, ResourceKnown, Running
    <3> QED
      BY <3>1, <3>2 DEF OnceType, RunnerRuns, ResourceKnown, Running
  <2>8. CASE O!use(t)
    <3>1. Went("idle") /\ pc[t] = "use" /\ UNCHANGED <<once, runner, resource, assigned>>
      BY <2>8 DEF O!use, O!Go, OnceType, O!PCs
    <3> QED
      BY <3>1 DEF OnceType, RunnerRuns, ResourceKnown, Running
  <2> QED
    BY <1>2, <2>1, <2>2, <2>3, <2>4, <2>5, <2>6, <2>7, <2>8 DEF O!Step
<1> QED
  BY <1>1, <1>2 DEF O!Next

-------------------------------------------------------------------------
(* The cache.                                                              *)

WriterPCs == {"insert", "assign", "assigning", "unlock"}
ReaderPCs == {"find", "copy", "unlock_shared"}

CacheType ==
  /\ entries \in [DOMAIN entries -> Entries \cup {Torn}]
  /\ pc \in [Threads -> D!PCs]
  /\ domain \in [Threads -> Domains \cup {NoDomain}]
  /\ entry \in [Threads -> Entries]
  /\ DOMAIN found = Threads
  /\ meanwhile \in [Threads -> SUBSET Entries]

\* Who owns the shared mutex.
Readers == readers = {t \in Threads : pc[t] \in ReaderPCs}
Writer ==
  /\ writer \in Threads \cup {NoThread}
  /\ \A t \in Threads : writer = t <=> pc[t] \in WriterPCs
Apart == writer # NoThread => readers = {}

\* An entry is torn only while the writer overwrites it.
TornByWriter ==
  /\ \A t \in Threads : pc[t] \in {"assign", "assigning"} => domain[t] \in DOMAIN entries
  /\ \A d \in DOMAIN entries : entries[d] = Torn =>
       \E t \in Threads : pc[t] = "assigning" /\ domain[t] = d

\* What a reader may find, and what it has found.
AnswerIsCurrent ==
  /\ \A t \in Threads : pc[t] \in {"lock_shared", "find", "copy"} =>
       D!Answer(domain[t]) \in meanwhile[t] \cup {Torn}
  /\ \A t \in Threads : pc[t] = "copy" => (found[t] <=> domain[t] \in DOMAIN entries)
  /\ D!FindIsCurrent

CacheInv == CacheType /\ Readers /\ Writer /\ Apart /\ TornByWriter /\ AnswerIsCurrent

\* shared_mutex.cpp begins with the invariant.
LEMMA CacheInit == D!Init => CacheInv
  BY SharedDataAssumption
     DEF D!Init, D!PCs, CacheInv, CacheType, Readers, Writer, Apart, TornByWriter, AnswerIsCurrent,
         D!FindIsCurrent, ReaderPCs, WriterPCs

\* Only the writer changes the map, and no other thread reads or writes then.
LEMMA WriterIsAlone ==
  ASSUME CacheInv, NEW t \in Threads, pc[t] \in WriterPCs
  PROVE  /\ writer = t /\ readers = {}
         /\ \A u \in Threads : pc[u] \notin ReaderPCs /\ (pc[u] \in WriterPCs => u = t)
  BY SharedDataAssumption DEF CacheInv, Readers, Writer, Apart

\* A reader finds nothing torn.
LEMMA ReaderFindsWhole ==
  ASSUME CacheInv, NEW t \in Threads, pc[t] \in ReaderPCs
  PROVE  \A d \in DOMAIN entries : entries[d] # Torn
  BY WriterIsAlone DEF CacheInv, TornByWriter, WriterPCs

\* The calls begin, and a thread gets the shared mutex.
LEMMA CacheCallStep ==
  ASSUME CacheInv, NEW t \in Threads,
         \/ \E d \in Domains : D!find_entry(t, d) \/ \E e \in Entries : D!update_or_add_entry(t, d, e)
         \/ D!lock_shared(t) \/ D!lock(t)
  PROVE  CacheInv'
<1> USE SharedDataAssumption DEF CacheInv
<1> DEFINE Went(label) == /\ pc' \in [Threads -> D!PCs]
                          /\ \A u \in Threads : pc'[u] = IF u = t THEN label ELSE pc[u]
<1>1. ASSUME NEW d \in Domains, D!find_entry(t, d) PROVE CacheInv'
  <2>1. /\ Went("lock_shared") /\ pc[t] = "idle" /\ UNCHANGED <<entries, readers, writer, entry, found>>
        /\ domain' = [domain EXCEPT ![t] = d]
        /\ meanwhile' = [meanwhile EXCEPT ![t] = {D!Answer(d)} \ {Torn}]
    BY <1>1 DEF D!find_entry, D!Begins, D!Go, CacheType, D!PCs
  <2>2. D!Answer(d) \in Entries \cup {Torn}
    BY DEF D!Answer, CacheType
  <2>3. CacheType'
    BY <2>1, <2>2 DEF CacheType
  <2>4. Readers' /\ Writer' /\ Apart' /\ TornByWriter'
    BY <2>1 DEF Readers, Writer, Apart, TornByWriter, CacheType, ReaderPCs, WriterPCs
  <2>5. AnswerIsCurrent'
    BY <2>1, <2>2 DEF AnswerIsCurrent, D!FindIsCurrent, D!Answer, CacheType
  <2> QED
    BY <2>3, <2>4, <2>5
<1>2. ASSUME NEW d \in Domains, NEW e \in Entries, D!update_or_add_entry(t, d, e) PROVE CacheInv'
  <2>1. /\ Went("lock") /\ pc[t] = "idle" /\ UNCHANGED <<entries, readers, writer, found, meanwhile>>
        /\ domain' = [domain EXCEPT ![t] = d] /\ entry' = [entry EXCEPT ![t] = e]
    BY <1>2 DEF D!update_or_add_entry, D!Begins, D!Go, CacheType, D!PCs
  <2>2. CacheType'
    BY <2>1 DEF CacheType
  <2>3. Readers' /\ Writer' /\ Apart' /\ TornByWriter'
    BY <2>1 DEF Readers, Writer, Apart, TornByWriter, CacheType, ReaderPCs, WriterPCs
  <2>4. AnswerIsCurrent'
    BY <2>1 DEF AnswerIsCurrent, D!FindIsCurrent, D!Answer, CacheType
  <2> QED
    BY <2>2, <2>3, <2>4
<1>3. CASE D!lock_shared(t)
  <2>1. /\ Went("find") /\ pc[t] = "lock_shared" /\ UNCHANGED <<entries, writer, domain, entry, found, meanwhile>>
        /\ writer = NoThread /\ readers' = readers \cup {t}
    BY <1>3 DEF D!lock_shared, D!Go, CacheType, D!PCs
  <2>2. CacheType' /\ Readers' /\ Writer' /\ Apart' /\ TornByWriter'
    BY <2>1 DEF CacheType, Readers, Writer, Apart, TornByWriter, ReaderPCs, WriterPCs
  <2>3. AnswerIsCurrent'
    BY <2>1 DEF AnswerIsCurrent, D!FindIsCurrent, D!Answer, CacheType
  <2> QED
    BY <2>2, <2>3
<1>4. CASE D!lock(t)
  <2>1. /\ Went("insert") /\ pc[t] = "lock" /\ UNCHANGED <<entries, readers, domain, entry, found, meanwhile>>
        /\ writer = NoThread /\ readers = {} /\ writer' = t
    BY <1>4 DEF D!lock, D!Go, CacheType, D!PCs
  <2>2. CacheType' /\ Readers' /\ Writer' /\ Apart' /\ TornByWriter'
    BY <2>1 DEF CacheType, Readers, Writer, Apart, TornByWriter, ReaderPCs, WriterPCs
  <2>3. AnswerIsCurrent'
    BY <2>1 DEF AnswerIsCurrent, D!FindIsCurrent, D!Answer, CacheType
  <2> QED
    BY <2>2, <2>3
<1> QED
  BY <1>1, <1>2, <1>3, <1>4

\* A reader goes on under the shared mutex.
LEMMA ReaderStep ==
  ASSUME CacheInv, NEW t \in Threads, D!find(t) \/ D!copy(t) \/ D!unlock_shared(t)
  PROVE  CacheInv'
<1> USE SharedDataAssumption DEF CacheInv
<1> DEFINE Went(label) == /\ pc' \in [Threads -> D!PCs]
                          /\ \A u \in Threads : pc'[u] = IF u = t THEN label ELSE pc[u]
<1>1. CASE D!find(t)
  <2>1. /\ Went("copy") /\ pc[t] = "find" /\ UNCHANGED <<entries, readers, writer, domain, entry, meanwhile>>
        /\ found' = [found EXCEPT ![t] = domain[t] \in DOMAIN entries]
    BY <1>1 DEF D!find, D!Go, CacheType, D!PCs
  <2>2. CacheType' /\ Readers' /\ Writer' /\ Apart' /\ TornByWriter'
    BY <2>1 DEF CacheType, Readers, Writer, Apart, TornByWriter, ReaderPCs, WriterPCs
  <2>3. \A u \in Threads : found'[u] = IF u = t THEN domain[t] \in DOMAIN entries ELSE found[u]
    BY <2>1 DEF CacheType
  <2>4. AnswerIsCurrent'
    BY <2>1, <2>3 DEF AnswerIsCurrent, D!FindIsCurrent, D!Answer, CacheType
  <2> QED
    BY <2>2, <2>4
<1>2. CASE D!copy(t)
  <2>1. /\ Went("unlock_shared") /\ pc[t] = "copy"
        /\ UNCHANGED <<entries, readers, writer, domain, found, meanwhile>>
        /\ entry' = [entry EXCEPT ![t] = IF found[t] THEN entries[domain[t]] ELSE DnsEntry]
    BY <1>2 DEF D!copy, D!Go, CacheType, D!PCs
  <2>2. /\ (IF found[t] THEN entries[domain[t]] ELSE DnsEntry) = D!Answer(domain[t])
        /\ D!Answer(domain[t]) # Torn
    BY <2>1, ReaderFindsWhole DEF AnswerIsCurrent, D!Answer, ReaderPCs
  <2>3. D!Answer(domain[t]) \in Entries /\ D!Answer(domain[t]) \in meanwhile[t]
    BY <2>1, <2>2 DEF AnswerIsCurrent, CacheType
  <2>4. \A u \in Threads : entry'[u] = IF u = t THEN D!Answer(domain[t]) ELSE entry[u]
    BY <2>1, <2>2 DEF CacheType
  <2>5. CacheType' /\ Readers' /\ Writer' /\ Apart' /\ TornByWriter'
    BY <2>1, <2>2, <2>3 DEF CacheType, Readers, Writer, Apart, TornByWriter, ReaderPCs, WriterPCs
  <2>6. AnswerIsCurrent'
    BY <2>1, <2>3, <2>4 DEF AnswerIsCurrent, D!FindIsCurrent, D!Answer, CacheType
  <2> QED
    BY <2>5, <2>6
<1>3. CASE D!unlock_shared(t)
  <2>1. /\ Went("idle") /\ pc[t] = "unlock_shared" /\ UNCHANGED <<entries, writer, entry, found, meanwhile>>
        /\ readers' = readers \ {t} /\ domain' = [domain EXCEPT ![t] = NoDomain]
    BY <1>3 DEF D!unlock_shared, D!Go, CacheType, D!PCs
  <2>2. CacheType' /\ Readers' /\ Writer' /\ Apart' /\ TornByWriter'
    BY <2>1 DEF CacheType, Readers, Writer, Apart, TornByWriter, ReaderPCs, WriterPCs
  <2>3. AnswerIsCurrent'
    BY <2>1 DEF AnswerIsCurrent, D!FindIsCurrent, D!Answer, CacheType
  <2> QED
    BY <2>2, <2>3
<1> QED
  BY <1>1, <1>2, <1>3

\* The writer goes on under the mutex, alone.
LEMMA WriterStep ==
  ASSUME CacheInv, NEW t \in Threads,
         D!insert(t) \/ D!insert_throws(t) \/ D!assign_begins(t) \/ D!assign_ends(t) \/ D!unlock(t)
  PROVE  CacheInv'
<1> USE SharedDataAssumption DEF CacheInv
<1> DEFINE Went(label) == /\ pc' \in [Threads -> D!PCs]
                          /\ \A u \in Threads : pc'[u] = IF u = t THEN label ELSE pc[u]
<1>1. CASE D!insert(t)
  <2>1. /\ Went("assign") /\ pc[t] = "insert"
        /\ UNCHANGED <<readers, writer, domain, entry, found, meanwhile>>
        /\ entries' = [d \in DOMAIN entries \cup {domain[t]} |-> D!Answer(d)]
    BY <1>1 DEF D!insert, D!Go, CacheType, D!PCs
  <2>2. \A u \in Threads : pc[u] \notin ReaderPCs /\ (pc[u] \in WriterPCs => u = t)
    BY <2>1, WriterIsAlone DEF WriterPCs
  <2>3. DOMAIN entries' = DOMAIN entries \cup {domain[t]}
    BY <2>1
  <2>4. \A d \in DOMAIN entries' : entries'[d] = D!Answer(d) /\ D!Answer(d) \in Entries \cup {Torn}
    BY <2>1 DEF CacheType, D!Answer
  <2>5. CacheType'
    BY <2>1, <2>3, <2>4 DEF CacheType
  <2>6. Readers' /\ Writer' /\ Apart'
    BY <2>1 DEF Readers, Writer, Apart, ReaderPCs, WriterPCs
  <2>7. TornByWriter'
    <3>1. \A d \in DOMAIN entries : entries[d] # Torn
      BY <2>1, <2>2 DEF TornByWriter, WriterPCs
    <3> QED
      BY <2>1, <2>2, <2>3, <2>4, <3>1 DEF TornByWriter, WriterPCs, D!Answer
  <2>8. AnswerIsCurrent'
    <3>1. \A u \in Threads : D!Answer(domain[u])' = D!Answer(domain[u])
      BY <2>1, <2>3, <2>4 DEF D!Answer
    <3> QED
      BY <2>1, <2>2, <3>1 DEF AnswerIsCurrent, D!FindIsCurrent, ReaderPCs
  <2> QED
    BY <2>5, <2>6, <2>7, <2>8
<1>2. CASE D!insert_throws(t)
  <2>1. /\ Went("unlock") /\ pc[t] = "insert"
        /\ UNCHANGED <<entries, readers, writer, domain, entry, found, meanwhile>>
    BY <1>2 DEF D!insert_throws, D!Go, CacheType, D!PCs
  <2>2. CacheType' /\ Readers' /\ Writer' /\ Apart' /\ TornByWriter'
    BY <2>1 DEF CacheType, Readers, Writer, Apart, TornByWriter, ReaderPCs, WriterPCs
  <2>3. AnswerIsCurrent'
    BY <2>1 DEF AnswerIsCurrent, D!FindIsCurrent, D!Answer
  <2> QED
    BY <2>2, <2>3
<1>3. CASE D!assign_begins(t)
  <2>1. /\ Went("assigning") /\ pc[t] = "assign"
        /\ UNCHANGED <<readers, writer, domain, entry, found, meanwhile>>
        /\ entries' = [entries EXCEPT ![domain[t]] = Torn]
    BY <1>3 DEF D!assign_begins, D!Go, CacheType, D!PCs
  <2>2. \A u \in Threads : pc[u] \notin ReaderPCs /\ (pc[u] \in WriterPCs => u = t)
    BY <2>1, WriterIsAlone DEF WriterPCs
  <2>3. /\ DOMAIN entries' = DOMAIN entries
        /\ \A d \in DOMAIN entries : entries'[d] = IF d = domain[t] THEN Torn ELSE entries[d]
    BY <2>1
  <2>4. CacheType'
    BY <2>1, <2>3 DEF CacheType
  <2>5. Readers' /\ Writer' /\ Apart'
    BY <2>1 DEF Readers, Writer, Apart, ReaderPCs, WriterPCs
  <2>6. TornByWriter'
    BY <2>1, <2>2, <2>3 DEF TornByWriter, WriterPCs
  <2>7. AnswerIsCurrent'
    <3>1. \A u \in Threads : D!Answer(domain[u])' \in {D!Answer(domain[u]), Torn}
      BY <2>1, <2>3 DEF D!Answer
    <3> QED
      BY <2>1, <2>2, <3>1 DEF AnswerIsCurrent, D!FindIsCurrent, ReaderPCs
  <2> QED
    BY <2>4, <2>5, <2>6, <2>7
<1>4. CASE D!assign_ends(t)
  <2>1. /\ Went("unlock") /\ pc[t] = "assigning"
        /\ UNCHANGED <<readers, writer, domain, entry, found>>
        /\ entries' = [entries EXCEPT ![domain[t]] = entry[t]]
        /\ meanwhile' = [u \in Threads |-> IF domain[u] = domain[t]
                                           THEN meanwhile[u] \cup {entry[t]} ELSE meanwhile[u]]
    BY <1>4 DEF D!assign_ends, D!Go, CacheType, D!PCs
  <2>2. \A u \in Threads : pc[u] \notin ReaderPCs /\ (pc[u] \in WriterPCs => u = t)
    BY <2>1, WriterIsAlone DEF WriterPCs
  <2>3. /\ DOMAIN entries' = DOMAIN entries /\ domain[t] \in DOMAIN entries
        /\ \A d \in DOMAIN entries : entries'[d] = IF d = domain[t] THEN entry[t] ELSE entries[d]
    BY <2>1 DEF TornByWriter
  <2>4. entry[t] \in Entries /\ entry[t] # Torn
    BY DEF CacheType
  <2>5. CacheType'
    BY <2>1, <2>3, <2>4 DEF CacheType
  <2>6. Readers' /\ Writer' /\ Apart'
    BY <2>1 DEF Readers, Writer, Apart, ReaderPCs, WriterPCs
  <2>7. TornByWriter'
    BY <2>1, <2>2, <2>3, <2>4 DEF TornByWriter, WriterPCs
  <2>8. AnswerIsCurrent'
    <3>1. \A u \in Threads : D!Answer(domain[u])' = IF domain[u] = domain[t] THEN entry[t]
                                                   ELSE D!Answer(domain[u])
      BY <2>1, <2>3 DEF D!Answer
    <3>2. \A u \in Threads : /\ meanwhile[u] \subseteq meanwhile'[u]
                             /\ domain[u] = domain[t] => entry[t] \in meanwhile'[u]
      BY <2>1
    <3> QED
      BY <2>1, <2>2, <3>1, <3>2 DEF AnswerIsCurrent, D!FindIsCurrent, ReaderPCs
  <2> QED
    BY <2>5, <2>6, <2>7, <2>8
<1>5. CASE D!unlock(t)
  <2>1. /\ Went("idle") /\ pc[t] = "unlock" /\ UNCHANGED <<entries, readers, entry, found, meanwhile>>
        /\ writer' = NoThread /\ domain' = [domain EXCEPT ![t] = NoDomain]
    BY <1>5 DEF D!unlock, D!Go, CacheType, D!PCs
  <2>2. \A u \in Threads : pc[u] \notin ReaderPCs /\ (pc[u] \in WriterPCs => u = t)
    BY <2>1, WriterIsAlone DEF WriterPCs
  <2>3. CacheType' /\ Readers' /\ Writer' /\ Apart' /\ TornByWriter'
    BY <2>1, <2>2 DEF CacheType, Readers, Writer, Apart, TornByWriter, ReaderPCs, WriterPCs
  <2>4. AnswerIsCurrent'
    BY <2>1 DEF AnswerIsCurrent, D!FindIsCurrent, D!Answer, CacheType
  <2> QED
    BY <2>3, <2>4
<1> QED
  BY <1>1, <1>2, <1>3, <1>4, <1>5

\* Every step of shared_mutex.cpp keeps the invariant.
LEMMA CacheNext == ASSUME CacheInv, D!Next PROVE CacheInv'
<1>1. CASE D!Finished
  BY <1>1 DEF D!Finished, D!vars, CacheInv, CacheType, Readers, Writer, Apart, TornByWriter,
              AnswerIsCurrent, D!FindIsCurrent, D!Answer
<1>2. CASE \E t \in Threads : D!Step(t)
  BY <1>2, CacheCallStep, ReaderStep, WriterStep DEF D!Step
<1> QED
  BY <1>1, <1>2 DEF D!Next

\* A step that changes the map is the writer's, and no thread reads.
LEMMA CacheStill == ASSUME CacheInv, D!Next PROVE D!StillWhileRead
<1> SUFFICES ASSUME D!Reading # {} PROVE entries' = entries
  BY DEF D!StillWhileRead
<1>1. \A t \in Threads : pc[t] \notin WriterPCs
  BY WriterIsAlone DEF D!Reading, ReaderPCs
<1>2. CASE D!Finished
  BY <1>2 DEF D!Finished, D!vars
<1>3. ASSUME NEW t \in Threads, D!Step(t) PROVE entries' = entries
  <2>1. ~ (D!insert(t) \/ D!assign_begins(t) \/ D!assign_ends(t))
    BY <1>1 DEF D!insert, D!assign_begins, D!assign_ends, D!Go, WriterPCs
  <2> QED
    BY <1>3, <2>1 DEF D!Step, D!find_entry, D!update_or_add_entry, D!lock_shared, D!find, D!copy,
                      D!unlock_shared, D!lock, D!insert_throws, D!unlock
<1> QED
  BY <1>2, <1>3 DEF D!Next

-------------------------------------------------------------------------
(* The lock that is moved.                                                 *)

\* Where a processor, through one function or the other, owns mtx.
Inside == {"prepare", "return", "work", "leave"}

LockType ==
  /\ pc \in [U!Callers -> {"lock", "test", "unlock", "sleep", "set", "ended"} \cup Inside]
  /\ mtx \in Processors \cup {NoThread}
  /\ held \subseteq U!Callers

LockInv ==
  /\ LockType
  /\ \A t \in Processors : /\ mtx = t <=> pc[t] \in Inside
                           /\ mtx = t => t \in held
                           /\ pc[t] \in {"return", "work"} => data = t

\* unique_lock.cpp and sleep_for.cpp begin with the invariant.
LEMMA LockInit == U!Init => LockInv
  BY SharedDataAssumption DEF U!Init, LockInv, LockType, U!Callers, U!Flaggers, Inside

\* Every step of the two functions keeps the invariant.
LEMMA LockNext == ASSUME LockInv, U!Next PROVE LockInv'
<1> USE SharedDataAssumption DEF LockInv
<1>1. CASE U!Finished
  BY <1>1 DEF U!Finished, U!vars, LockType, U!Callers, U!Flaggers
<1>2. ASSUME NEW t \in Processors, U!Process(t) PROVE LockInv'
  <2>1. /\ t \in U!Callers /\ Processors \subseteq U!Callers /\ NoThread # t
        /\ held' \subseteq U!Callers
    BY <1>2 DEF U!Process, U!lock_mtx, U!prepare_data, U!return, U!work, U!leave_mtx, LockType,
                U!Callers, U!Flaggers
  <2>2. CASE U!lock_mtx(t)
    <3>1. /\ mtx = NoThread /\ mtx' = t /\ held' = held \cup {t} /\ data' = data
          /\ \A u \in Processors : pc'[u] = IF u = t THEN "prepare" ELSE pc[u]
          /\ pc[t] = "lock"
      BY <2>1, <2>2 DEF U!lock_mtx, U!Go, LockType
    <3>2. LockType'
      BY <2>1, <2>2 DEF U!lock_mtx, U!Go, LockType, Inside, U!Callers, U!Flaggers
    <3> QED
      BY <2>1, <3>1, <3>2 DEF Inside
  <2>3. CASE U!prepare_data(t) \/ U!return(t) \/ U!work(t)
    <3>1. /\ pc[t] \in Inside /\ pc'[t] \in Inside /\ UNCHANGED <<mtx, held>>
          /\ \A u \in Processors : u # t => pc'[u] = pc[u]
          /\ pc'[t] \in {"return", "work"} => data' = t
          /\ data' \in {data, t}
      BY <2>1, <2>3 DEF U!prepare_data, U!return, U!work, U!Go, LockType, Inside
    <3>2. LockType'
      BY <2>1, <2>3 DEF U!prepare_data, U!return, U!work, U!Go, LockType, Inside, U!Callers,
                        U!Flaggers
    <3>3. \A u \in Processors : u # t => pc[u] \notin Inside
      BY <3>1
    <3> QED
      BY <2>1, <3>1, <3>2, <3>3 DEF Inside
  <2>4. CASE U!leave_mtx(t)
    <3>1. /\ pc[t] = "leave" /\ mtx = t /\ t \in held /\ data' = data
          /\ \A u \in Processors : pc'[u] = IF u = t THEN "ended" ELSE pc[u]
      BY <2>1, <2>4 DEF U!leave_mtx, U!Go, LockType, Inside
    <3>2. mtx' = NoThread /\ held' = held \ {t}
      BY <2>4, <3>1 DEF U!leave_mtx
    <3>3. LockType'
      BY <2>1, <2>4, <3>2 DEF U!leave_mtx, U!Go, LockType, U!Callers, U!Flaggers
    <3> QED
      BY <2>1, <3>1, <3>2, <3>3 DEF Inside
  <2> QED
    BY <1>2, <2>2, <2>3, <2>4 DEF U!Process
<1>3. ASSUME NEW t \in U!Flaggers, U!lock_m(t) \/ U!Flagging(t) PROVE LockInv'
  <2>1. /\ t \notin Processors /\ t \in U!Callers /\ UNCHANGED <<mtx, data>>
        /\ held' \subseteq U!Callers /\ held \ {t} \subseteq held'
    BY <1>3 DEF U!lock_m, U!Flagging, U!test, U!unlock, U!sleep_for, U!set, U!leave_m, LockType,
                U!Callers, U!Flaggers
  <2>2. \A u \in Processors : pc'[u] = pc[u]
    BY <1>3, <2>1 DEF U!lock_m, U!Flagging, U!test, U!unlock, U!sleep_for, U!set, U!leave_m, U!Go,
                      LockType, U!Callers
  <2>3. LockType'
    BY <1>3, <2>1 DEF U!lock_m, U!Flagging, U!test, U!unlock, U!sleep_for, U!set, U!leave_m, U!Go,
                      LockType, U!Callers, U!Flaggers, Inside
  <2> QED
    BY <2>1, <2>2, <2>3
<1> QED
  BY <1>1, <1>2, <1>3 DEF U!Next

-------------------------------------------------------------------------
(* The vector.                                                             *)

Holding == {"push", "show", "endl", "unlock"}

VectorType ==
  /\ vec \in Seq(V!Spawned) /\ line \in Seq(V!Spawned) /\ lines \in Seq(Seq(V!Spawned))
  /\ mutex \in V!Spawned \cup {0}
  /\ pc \in [V!Spawned -> {"unborn", "lock", "ended"} \cup Holding]
  /\ elem \in [V!Spawned -> Nat]
  /\ i \in 1 .. 2 * Pairs

\* The mutex belongs to the thread that is between its lock and its unlock.
Owner == \A t \in V!Spawned : mutex = t <=> pc[t] \in Holding

\* Which threads add and which show, and which have shown nothing yet.
Kinds ==
  \A t \in V!Spawned :
    /\ pc[t] = "push" => V!Adds(t)
    /\ pc[t] \in {"show", "endl"} => ~V!Adds(t)
    /\ pc[t] \in {"unborn", "lock"} => elem[t] = 0

Begins(s, u) == Len(s) <= Len(u) /\ \A k \in 1 .. Len(s) : s[k] = u[k]

\* The line is what the thread that shows has come to.
LineSoFar ==
  /\ \A t \in V!Spawned : /\ pc[t] = "show" => elem[t] = Len(line) /\ Begins(line, vec)
                          /\ pc[t] = "endl" => line = vec
  /\ (\A t \in V!Spawned : pc[t] \notin {"show", "endl"}) => line = <<>>

LinesGrow ==
  \A k \in 1 .. Len(lines) : Begins(lines[k], IF k < Len(lines) THEN lines[k + 1] ELSE vec)

Done(t) == pc[t] \in {"unlock", "ended"}

\* The elements are those of the threads that have added one.
Added ==
  /\ \A k \in 1 .. Len(vec) : V!Adds(vec[k])
  /\ \A t \in V!Spawned : V!Adds(t) /\ Done(t) => \E k \in 1 .. Len(vec) : vec[k] = t

HaveShown == {t \in V!Spawned : ~V!Adds(t) /\ Done(t)}

Shown == Len(lines) = Cardinality(HaveShown)

Joined ==
  /\ main = "join" => \A t \in V!Spawned : t < i => pc[t] = "ended"
  /\ main = "returned" => \A t \in V!Spawned : pc[t] = "ended"

VectorInv ==
  /\ VectorType /\ Owner /\ Kinds
  /\ LineSoFar /\ LinesGrow /\ Added /\ Shown /\ Joined

\* Half of the threads show.
LEMMA HalfOfThem == Cardinality({t \in V!Spawned : ~V!Adds(t)}) = Pairs
<1> DEFINE Showing == {t \in V!Spawned : ~V!Adds(t)}
           f == [k \in 1 .. Pairs |-> 2 * k]
<1>1. Pairs \in Nat
  BY SharedDataAssumption
<1>2. ASSUME NEW k \in 1 .. Pairs PROVE 2 * k \in Showing
  <2>1. 2 * k \in 1 .. 2 * Pairs /\ (2 * k) % 2 = 0
    BY <1>1
  <2> QED
    BY <2>1 DEF V!Spawned, V!Adds
<1>3. ASSUME NEW t \in Showing PROVE \E k \in 1 .. Pairs : 2 * k = t
  <2>1. t \in 1 .. 2 * Pairs /\ t % 2 = 0
    BY <1>1 DEF V!Spawned, V!Adds
  <2>2. t = 2 * (t \div 2) /\ (t \div 2) \in 1 .. Pairs
    BY <1>1, <2>1
  <2> QED
    BY <2>2
<1>4. f \in Bijection(1 .. Pairs, Showing)
  <2>1. f \in [1 .. Pairs -> Showing]
    BY <1>2
  <2>2. \A j, k \in 1 .. Pairs : f[j] = f[k] => j = k
    BY <1>1
  <2>3. \A t \in Showing : \E k \in 1 .. Pairs : f[k] = t
    BY <1>3
  <2> QED
    BY <2>1, <2>2, <2>3 DEF Bijection, Injection, Surjection, IsInjective
<1>5. IsFiniteSet(1 .. Pairs) /\ Cardinality(1 .. Pairs) = Pairs
  BY <1>1, FS_Interval
<1>6. ExistsBijection(1 .. Pairs, Showing)
  BY <1>4 DEF ExistsBijection
<1> QED
  BY <1>5, <1>6, FS_Bijection

\* Every set of threads is finite.
LEMMA SpawnedFinite ==
  /\ Pairs \in Nat \ {0} /\ 0 \notin V!Spawned /\ V!Spawned \subseteq Nat
  /\ \A S \in SUBSET V!Spawned : IsFiniteSet(S) /\ Cardinality(S) \in Nat
<1>1. Pairs \in Nat \ {0}
  BY SharedDataAssumption
<1>2. IsFiniteSet(V!Spawned)
  BY <1>1, FS_Interval DEF V!Spawned
<1>3. \A S \in SUBSET V!Spawned : IsFiniteSet(S) /\ Cardinality(S) \in Nat
  BY <1>2, FS_Subset, FS_CardinalityType
<1> QED
  BY <1>1, <1>3 DEF V!Spawned

\* mutex.cpp begins with the invariant.
LEMMA VectorInit == V!Init => VectorInv
<1> SUFFICES ASSUME V!Init PROVE VectorInv
  OBVIOUS
<1>1. HaveShown = {}
  BY DEF V!Init, HaveShown, Done
<1>2. Shown
  BY <1>1, FS_EmptySet DEF V!Init, Shown
<1> QED
  BY <1>2, SpawnedFinite
     DEF V!Init, V!Nobody, VectorInv, VectorType, Owner, Kinds, LineSoFar, LinesGrow, Added, Joined,
         Holding, Done

\* How main() and a thread move in pc.
LEMMA VectorGo ==
  ASSUME VectorInv, NEW t, NEW from, NEW to, V!Go(t, from, to),
         to \in {"unborn", "lock", "ended"} \cup Holding
  PROVE  /\ pc' \in [V!Spawned -> {"unborn", "lock", "ended"} \cup Holding]
         /\ pc[t] = from
         /\ \A u \in V!Spawned : pc'[u] = IF u = t THEN to ELSE pc[u]
  BY DEF VectorInv, VectorType, V!Go

\* Two threads are not inside the mutex at once.
LEMMA OneHolds ==
  ASSUME VectorInv, NEW t \in V!Spawned, pc[t] \in Holding
  PROVE  mutex = t /\ \A u \in V!Spawned : pc[u] \in Holding => u = t
  BY DEF VectorInv, Owner

\* main() starts the threads and joins them.
LEMMA VectorMainStep == ASSUME VectorInv, V!Main PROVE VectorInv'
<1> USE SpawnedFinite DEF VectorInv
<1>1. CASE V!start
  <2>1. /\ UNCHANGED <<vec, mutex, elem, line, lines>> /\ main = "start" /\ pc[i] = "unborn"
        /\ \A u \in V!Spawned : pc'[u] = IF u = i THEN "lock" ELSE pc[u]
        /\ pc' \in [V!Spawned -> {"unborn", "lock", "ended"} \cup Holding]
    BY <1>1, VectorGo DEF V!start
  <2>2. /\ i' \in 1 .. 2 * Pairs /\ main' \in {"start", "join"}
        /\ main' = "join" => i' = 1
    BY <1>1, <2>1 DEF V!start, V!Onward, VectorType
  <2>3. VectorType' /\ Owner' /\ Kinds'
    BY <2>1, <2>2 DEF VectorType, Owner, Kinds, Holding
  <2>4. LineSoFar' /\ LinesGrow'
    BY <2>1 DEF LineSoFar, LinesGrow
  <2>5. \A u \in V!Spawned : Done(u)' <=> Done(u)
    BY <2>1 DEF Done
  <2>6. Added' /\ Shown'
    <3>1. HaveShown' = HaveShown
      BY <2>5 DEF HaveShown, V!Spawned, V!Adds
    <3> QED
      BY <2>1, <2>5, <3>1 DEF Added, Shown
  <2>7. Joined'
    BY <2>2 DEF Joined
  <2> QED
    BY <2>3, <2>4, <2>6, <2>7
<1>2. CASE V!join
  <2>1. UNCHANGED <<vec, mutex, pc, elem, line, lines>> /\ main = "join" /\ pc[i] = "ended"
    BY <1>2 DEF V!join
  <2>2. VectorType' /\ Owner' /\ Kinds' /\ LineSoFar' /\ LinesGrow'
    BY <1>2, <2>1 DEF V!join, V!Onward, VectorType, Owner, Kinds, LineSoFar, LinesGrow
  <2>3. Added' /\ Shown'
    <3>1. HaveShown' = HaveShown
      BY <2>1 DEF HaveShown, Done, V!Spawned, V!Adds
    <3> QED
      BY <2>1, <3>1 DEF Added, Shown, Done
  <2>4. Joined'
    <3>1. i \in 1 .. 2 * Pairs /\ \A t \in V!Spawned : t \in Nat /\ t <= 2 * Pairs
      BY DEF VectorType, V!Spawned
    <3>2. \A t \in V!Spawned : t <= i => pc[t] = "ended"
      BY <2>1, <3>1 DEF Joined
    <3> QED
      BY <1>2, <2>1, <3>1, <3>2 DEF V!join, V!Onward, Joined
  <2> QED
    BY <2>2, <2>3, <2>4
<1> QED
  BY <1>1, <1>2 DEF V!Main

\* What main() has joined stays joined when another thread goes on.
LEMMA StayJoined ==
  ASSUME VectorInv, NEW t \in V!Spawned, pc[t] # "ended", UNCHANGED <<main, i>>,
         \A u \in V!Spawned : u # t => pc'[u] = pc[u]
  PROVE  Joined'
  BY DEF VectorInv, Joined

\* A thread gets the mutex when no other has it.
LEMMA VectorLockStep == ASSUME VectorInv, NEW t \in V!Spawned, V!lock(t) PROVE VectorInv'
<1> USE SpawnedFinite DEF VectorInv
<1>1. /\ UNCHANGED <<vec, elem, line, lines, main, i>> /\ pc[t] = "lock"
      /\ mutex = 0 /\ mutex' = t
      /\ pc'[t] = IF V!Adds(t) THEN "push" ELSE "show"
      /\ \A u \in V!Spawned : u # t => pc'[u] = pc[u]
      /\ pc' \in [V!Spawned -> {"unborn", "lock", "ended"} \cup Holding]
  <2>1. V!Go(t, "lock", IF V!Adds(t) THEN "push" ELSE "show")
    BY DEF V!lock
  <2> QED
    BY <2>1, VectorGo DEF V!lock, V!Nobody, Holding
<1>2. \A u \in V!Spawned : pc[u] \notin Holding
  BY <1>1 DEF Owner
<1>3. VectorType' /\ Owner' /\ Kinds'
  BY <1>1, <1>2 DEF VectorType, Owner, Kinds, Holding
<1>4. line = <<>> /\ elem[t] = 0
  BY <1>1, <1>2 DEF LineSoFar, Kinds, Holding
<1>5. LineSoFar' /\ LinesGrow'
  BY <1>1, <1>2, <1>4 DEF LineSoFar, LinesGrow, Holding, Begins, VectorType
<1>6. Added' /\ Shown'
  <2>1. \A u \in V!Spawned : Done(u)' <=> Done(u)
    BY <1>1 DEF Done
  <2>2. HaveShown' = HaveShown
    BY <2>1 DEF HaveShown, V!Spawned, V!Adds
  <2> QED
    BY <1>1, <2>1, <2>2 DEF Added, Shown
<1> QED
  BY <1>1, <1>3, <1>5, <1>6, StayJoined

\* The element is added while nobody shows.
LEMMA VectorPushStep == ASSUME VectorInv, NEW t \in V!Spawned, V!push_back(t) PROVE VectorInv'
<1> USE SpawnedFinite DEF VectorInv
<1>1. /\ UNCHANGED <<mutex, elem, line, lines, main, i>> /\ pc[t] = "push"
      /\ vec' = Append(vec, t)
      /\ \A u \in V!Spawned : pc'[u] = IF u = t THEN "unlock" ELSE pc[u]
      /\ pc' \in [V!Spawned -> {"unborn", "lock", "ended"} \cup Holding]
  BY VectorGo DEF V!push_back, Holding
<1>2. V!Adds(t) /\ \A u \in V!Spawned : u # t => pc[u] \notin Holding
  BY <1>1, OneHolds DEF Kinds, Holding
<1>3. /\ Len(vec) \in Nat /\ Len(vec') = Len(vec) + 1
      /\ \A k \in 1 .. Len(vec) : vec'[k] = vec[k]
      /\ vec'[Len(vec) + 1] = t
  BY <1>1 DEF VectorType
<1>4. VectorType' /\ Owner' /\ Kinds'
  BY <1>1, <1>2 DEF VectorType, Owner, Kinds, Holding
<1>5. LineSoFar'
  BY <1>1, <1>2 DEF LineSoFar, Holding
<1>6. LinesGrow'
  <2>1. ASSUME NEW s \in Seq(V!Spawned), Begins(s, vec) PROVE Begins(s, vec')
    <3>1. Len(s) \in Nat
      OBVIOUS
    <3> QED
      BY <1>3, <2>1, <3>1 DEF Begins
  <2>2. \A k \in 1 .. Len(lines) : lines[k] \in Seq(V!Spawned)
    BY DEF VectorType
  <2> QED
    BY <1>1, <2>1, <2>2 DEF LinesGrow
<1>7. Added'
  <2>1. \A k \in 1 .. Len(vec') : V!Adds(vec'[k])
    BY <1>2, <1>3 DEF Added
  <2>2. ASSUME NEW u \in V!Spawned, V!Adds(u), Done(u)' PROVE \E k \in 1 .. Len(vec') : vec'[k] = u
    <3>1. CASE u = t
      BY <1>3, <3>1
    <3>2. CASE u # t
      <4>1. PICK k \in 1 .. Len(vec) : vec[k] = u
        BY <1>1, <2>2, <3>2 DEF Added, Done
      <4> QED
        BY <1>3, <4>1
    <3> QED
      BY <3>1, <3>2
  <2> QED
    BY <2>1, <2>2 DEF Added, V!Adds, V!Spawned
<1>8. Shown'
  <2>1. HaveShown' = HaveShown
    BY <1>1, <1>2 DEF HaveShown, Done, V!Spawned, V!Adds
  <2> QED
    BY <1>1, <2>1 DEF Shown
<1> QED
  BY <1>1, <1>4, <1>5, <1>6, <1>7, <1>8, StayJoined

\* A push_back that fails ends the program and changes nothing else.
LEMMA VectorFailStep == ASSUME VectorInv, NEW t \in V!Spawned, V!push_back_fails(t) PROVE VectorInv'
<1>1. UNCHANGED <<vec, mutex, pc, elem, line, lines, i>> /\ main' = "terminated"
  BY DEF V!push_back_fails
<1>2. VectorType' /\ Owner' /\ Kinds' /\ LineSoFar' /\ LinesGrow'
  BY <1>1 DEF VectorInv, VectorType, Owner, Kinds, LineSoFar, LinesGrow
<1>3. Added' /\ Shown'
  BY <1>1 DEF VectorInv, Added, Shown, HaveShown, Done, V!Spawned, V!Adds
<1>4. Joined'
  BY <1>1 DEF Joined
<1> QED
  BY <1>2, <1>3, <1>4 DEF VectorInv

\* An element is shown, or all of them are.
LEMMA VectorShowStep ==
  ASSUME VectorInv, NEW t \in V!Spawned, V!show(t) \/ V!show_ends(t) PROVE VectorInv'
<1> USE SpawnedFinite DEF VectorInv
<1>1. pc[t] = "show" /\ UNCHANGED <<vec, mutex, lines, main, i>>
  BY DEF V!show, V!show_ends, V!Go
<1>2. /\ ~V!Adds(t) /\ \A u \in V!Spawned : u # t => pc[u] \notin Holding
      /\ elem[t] = Len(line) /\ Begins(line, vec)
  BY <1>1, OneHolds DEF Kinds, Holding, LineSoFar
<1>3. CASE V!show(t)
  <2>1. /\ UNCHANGED pc /\ Len(line) < Len(vec)
        /\ elem' = [elem EXCEPT ![t] = elem[t] + 1]
        /\ line' = Append(line, vec[Len(line) + 1])
    BY <1>2, <1>3 DEF V!show
  <2>2. /\ Len(line) \in Nat /\ Len(vec) \in Nat /\ vec[Len(line) + 1] \in V!Spawned
    BY <2>1 DEF VectorType
  <2>3. /\ Len(line') = Len(line) + 1 /\ line' \in Seq(V!Spawned)
        /\ \A k \in 1 .. Len(line) : line'[k] = line[k]
        /\ line'[Len(line) + 1] = vec[Len(line) + 1]
    BY <2>1, <2>2 DEF VectorType
  <2>4. Begins(line', vec)
    BY <1>2, <2>1, <2>2, <2>3 DEF Begins
  <2>5. VectorType' /\ Owner' /\ Kinds'
    BY <1>1, <2>1, <2>3 DEF VectorType, Owner, Kinds
  <2>6. LineSoFar'
    <3>1. elem'[t] = Len(line')
      BY <1>2, <2>1, <2>3 DEF VectorType
    <3> QED
      BY <1>1, <1>2, <2>1, <2>4, <3>1 DEF LineSoFar, Holding
  <2>7. LinesGrow' /\ Added' /\ Shown' /\ Joined'
    BY <1>1, <2>1 DEF LinesGrow, Added, Shown, Joined, HaveShown, Done, V!Spawned, V!Adds
  <2> QED
    BY <2>5, <2>6, <2>7
<1>4. CASE V!show_ends(t)
  <2>1. /\ UNCHANGED <<elem, line>> /\ Len(line) = Len(vec)
        /\ \A u \in V!Spawned : pc'[u] = IF u = t THEN "endl" ELSE pc[u]
        /\ pc' \in [V!Spawned -> {"unborn", "lock", "ended"} \cup Holding]
    BY <1>2, <1>4, VectorGo DEF V!show_ends, Holding
  <2>2. line = vec
    BY <1>2, <2>1 DEF Begins, VectorType
  <2>3. VectorType' /\ Owner' /\ Kinds'
    BY <1>1, <1>2, <2>1 DEF VectorType, Owner, Kinds, Holding
  <2>4. LineSoFar' /\ LinesGrow'
    BY <1>1, <1>2, <2>1, <2>2 DEF LineSoFar, LinesGrow, Holding
  <2>5. \A u \in V!Spawned : Done(u)' <=> Done(u)
    BY <1>1, <2>1 DEF Done
  <2>6. Added' /\ Shown'
    <3>1. HaveShown' = HaveShown
      BY <2>5 DEF HaveShown, V!Spawned, V!Adds
    <3> QED
      BY <1>1, <2>5, <3>1 DEF Added, Shown
  <2> QED
    BY <1>1, <2>1, <2>3, <2>4, <2>6, StayJoined
<1> QED
  BY <1>3, <1>4

\* The line ends with everything that the vector holds.
LEMMA VectorEndlStep == ASSUME VectorInv, NEW t \in V!Spawned, V!endl(t) PROVE VectorInv'
<1> USE SpawnedFinite DEF VectorInv
<1>1. /\ UNCHANGED <<vec, mutex, elem, main, i>> /\ pc[t] = "endl"
      /\ lines' = Append(lines, line) /\ line' = <<>>
      /\ \A u \in V!Spawned : pc'[u] = IF u = t THEN "unlock" ELSE pc[u]
      /\ pc' \in [V!Spawned -> {"unborn", "lock", "ended"} \cup Holding]
  BY VectorGo DEF V!endl, Holding
<1>2. /\ ~V!Adds(t) /\ \A u \in V!Spawned : u # t => pc[u] \notin Holding
      /\ line = vec
  BY <1>1, OneHolds DEF Kinds, Holding, LineSoFar
<1>3. /\ Len(lines) \in Nat /\ Len(lines') = Len(lines) + 1
      /\ \A k \in 1 .. Len(lines) : lines'[k] = lines[k]
      /\ lines'[Len(lines) + 1] = vec
  BY <1>1, <1>2 DEF VectorType
<1>4. VectorType' /\ Owner' /\ Kinds'
  BY <1>1, <1>2 DEF VectorType, Owner, Kinds, Holding
<1>5. LineSoFar'
  BY <1>1, <1>2 DEF LineSoFar, Holding
<1>6. LinesGrow'
  <2>1. Begins(vec, vec)
    BY DEF Begins, VectorType
  <2>2. ASSUME NEW k \in 1 .. Len(lines'), k < Len(lines')
        PROVE  Begins(lines'[k], lines'[k + 1])
    <3>1. k \in 1 .. Len(lines)
      BY <1>3, <2>2
    <3>2. Begins(lines[k], IF k < Len(lines) THEN lines[k + 1] ELSE vec)
      BY <3>1 DEF LinesGrow
    <3>3. lines'[k + 1] = IF k < Len(lines) THEN lines[k + 1] ELSE vec
      BY <1>3, <3>1
    <3> QED
      BY <1>3, <3>1, <3>2, <3>3
  <2>3. lines'[Len(lines')] = vec
    BY <1>3
  <2> QED
    BY <1>1, <1>3, <2>1, <2>2, <2>3 DEF LinesGrow
<1>7. Added'
  <2>1. \A u \in V!Spawned : u # t => (Done(u)' <=> Done(u))
    BY <1>1 DEF Done
  <2> QED
    BY <1>1, <1>2, <2>1 DEF Added
<1>8. Shown'
  <2>1. HaveShown' = HaveShown \cup {t} /\ t \notin HaveShown
    BY <1>1, <1>2 DEF HaveShown, Done, V!Spawned, V!Adds
  <2>2. IsFiniteSet(HaveShown)
    BY DEF HaveShown
  <2>3. Cardinality(HaveShown') = Cardinality(HaveShown) + 1
    BY <2>1, <2>2, FS_AddElement
  <2> QED
    BY <1>3, <2>3 DEF Shown
<1> QED
  BY <1>1, <1>4, <1>5, <1>6, <1>7, <1>8, StayJoined

\* The thread leaves the mutex to another one.
LEMMA VectorUnlockStep == ASSUME VectorInv, NEW t \in V!Spawned, V!unlock(t) PROVE VectorInv'
<1> USE SpawnedFinite DEF VectorInv
<1>1. /\ UNCHANGED <<vec, elem, line, lines, main, i>> /\ pc[t] = "unlock" /\ mutex' = 0
      /\ \A u \in V!Spawned : pc'[u] = IF u = t THEN "ended" ELSE pc[u]
      /\ pc' \in [V!Spawned -> {"unborn", "lock", "ended"} \cup Holding]
  BY VectorGo DEF V!unlock, V!Nobody, Holding
<1>2. \A u \in V!Spawned : u # t => pc[u] \notin Holding
  BY <1>1, OneHolds DEF Holding
<1>3. VectorType' /\ Owner' /\ Kinds'
  BY <1>1, <1>2 DEF VectorType, Owner, Kinds, Holding
<1>4. LineSoFar' /\ LinesGrow'
  BY <1>1, <1>2 DEF LineSoFar, LinesGrow, Holding
<1>5. \A u \in V!Spawned : Done(u)' <=> Done(u)
  BY <1>1 DEF Done
<1>6. Added' /\ Shown'
  <2>1. HaveShown' = HaveShown
    BY <1>5 DEF HaveShown, V!Spawned, V!Adds
  <2> QED
    BY <1>1, <1>5, <2>1 DEF Added, Shown
<1> QED
  BY <1>1, <1>3, <1>4, <1>6, StayJoined

\* Every step of mutex.cpp keeps the invariant.
LEMMA VectorNext == ASSUME VectorInv, V!Next PROVE VectorInv'
<1>1. CASE V!Finished
  BY <1>1 DEF V!Finished, V!vars, VectorInv, VectorType, Owner, Kinds, LineSoFar, LinesGrow, Added,
              Shown, Joined, HaveShown, Done, V!Spawned, V!Adds
<1>2. CASE \E t \in V!Spawned : V!Step(t)
  BY <1>2, VectorLockStep, VectorPushStep, VectorFailStep, VectorShowStep, VectorEndlStep,
     VectorUnlockStep
     DEF V!Step
<1> QED
  BY <1>1, <1>2, VectorMainStep DEF V!Next

\* The inductive invariant says more than LinesAreWhole.
LEMMA VectorImplies == VectorInv => V!LinesAreWhole
<1> SUFFICES ASSUME VectorInv PROVE V!LinesAreWhole
  OBVIOUS
<1> USE SpawnedFinite DEF VectorInv
<1>1. ASSUME NEW s \in Seq(V!Spawned), NEW u \in Seq(V!Spawned), Begins(s, u)
      PROVE  V!IsPrefix(s, u)
  <2>1. Len(s) \in Nat /\ Len(u) \in Nat /\ Len(s) <= Len(u)
    BY <1>1 DEF Begins
  <2>2. SubSeq(s, 1, Len(s)) = SubSeq(u, 1, Len(s))
    BY <1>1, <2>1 DEF Begins
  <2> QED
    BY <2>1, <2>2 DEF V!IsPrefix
<1>2. ASSUME NEW k \in 1 .. Len(lines)
      PROVE  V!IsPrefix(lines[k], IF k < Len(lines) THEN lines[k + 1] ELSE vec)
  <2>1. lines[k] \in Seq(V!Spawned) /\ (k < Len(lines) => lines[k + 1] \in Seq(V!Spawned))
    BY DEF VectorType
  <2>2. (IF k < Len(lines) THEN lines[k + 1] ELSE vec) \in Seq(V!Spawned)
    BY <2>1 DEF VectorType
  <2> QED
    BY <1>1, <2>1, <2>2 DEF LinesGrow
<1>3. ASSUME main = "returned"
      PROVE  Len(lines) = Pairs /\ V!ToSet(vec) = {t \in V!Spawned : V!Adds(t)}
  <2>1. \A t \in V!Spawned : Done(t)
    BY <1>3 DEF Joined, Done
  <2>2. HaveShown = {t \in V!Spawned : ~V!Adds(t)}
    BY <2>1 DEF HaveShown
  <2>3. \A k \in 1 .. Len(vec) : vec[k] \in V!Spawned
    BY DEF VectorType
  <2>4. DOMAIN vec = 1 .. Len(vec)
    BY DEF VectorType
  <2> QED
    BY <2>1, <2>2, <2>3, <2>4, HalfOfThem DEF Shown, Added, V!ToSet
<1> QED
  BY <1>2, <1>3 DEF V!LinesAreWhole

\* Only a thread that adds changes the vector, and nobody shows then.
LEMMA VectorStill == ASSUME VectorInv, V!Next PROVE V!StillWhileRead
<1> SUFFICES ASSUME NEW r \in V!Spawned, pc[r] = "show" PROVE vec' = vec
  BY DEF V!StillWhileRead
<1>1. CASE V!Finished \/ V!Main
  BY <1>1 DEF V!Finished, V!vars, V!Main, V!start, V!join
<1>2. ASSUME NEW t \in V!Spawned, V!Step(t) PROVE vec' = vec
  <2>1. ~V!push_back(t)
    BY OneHolds DEF V!push_back, V!Go, Holding
  <2> QED
    BY <1>2, <2>1 DEF V!Step, V!lock, V!push_back_fails, V!show, V!show_ends, V!endl, V!unlock
<1> QED
  BY <1>1, <1>2 DEF V!Next

-------------------------------------------------------------------------
(* The four programs, one of which runs.                                   *)

IInv ==
  /\ chosen = "once" => OnceInv
  /\ chosen = "cache" => CacheInv
  /\ chosen = "vector" => VectorInv
  /\ chosen = "lock" => LockInv

\* Whichever of the four programs runs, its invariant holds.
THEOREM InvariantHolds == Spec => []IInv
<1>1. Init => IInv
  BY OnceInit, CacheInit, VectorInit, LockInit DEF Init, IInv
<1>2. IInv /\ [Next]_vars => IInv'
  <2> SUFFICES ASSUME IInv, [Next]_vars PROVE IInv'
    OBVIOUS
  <2>1. ASSUME UNCHANGED vars PROVE IInv'
    <3> USE <2>1 DEF vars, onceVars, cacheVars, vectorVars, lockVars, IInv
    <3>1. chosen' = "once" => OnceInv'
      BY DEF OnceInv, OnceType, RunnerRuns, ResourceKnown
    <3>2. chosen' = "cache" => CacheInv'
      BY DEF CacheInv, CacheType, Readers, Writer, Apart, TornByWriter, AnswerIsCurrent,
             D!FindIsCurrent, D!Answer
    <3>3. chosen' = "vector" => VectorInv'
      BY DEF VectorInv, VectorType, Owner, Kinds, LineSoFar, LinesGrow, Added, Shown, Joined,
             HaveShown, Done, V!Spawned, V!Adds
    <3>4. chosen' = "lock" => LockInv'
      BY DEF LockInv, LockType, U!Callers, U!Flaggers
    <3> QED
      BY <3>1, <3>2, <3>3, <3>4
  <2>2. CASE Next
    BY <2>2, OnceNext, CacheNext, VectorNext, LockNext DEF Next, IInv
  <2> QED
    BY <2>1, <2>2
<1> QED
  BY <1>1, <1>2, PTL DEF Spec

\* The resource is made once, and never used before or changed after, for all threads, calls and failures.
THEOREM MadeOnceHolds == Spec => []MadeOnce
<1>1. IInv => MadeOnce
  BY OnceImplies DEF IInv, MadeOnce
<1> QED
  BY <1>1, InvariantHolds, PTL

\* What is read, shown or prepared under a lock is what its thread may rely on, for all threads and entries.
THEOREM ReadsHold == Spec => []ReadsAreCurrent
<1>1. IInv => ReadsAreCurrent
  <2> SUFFICES ASSUME IInv PROVE ReadsAreCurrent
    OBVIOUS
  <2>1. chosen = "cache" => D!FindIsCurrent
    BY DEF IInv, CacheInv, AnswerIsCurrent
  <2>2. chosen = "lock" => U!WorkIsMine
    BY DEF IInv, LockInv, U!WorkIsMine
  <2> QED
    BY <2>1, <2>2, VectorImplies DEF IInv, ReadsAreCurrent
<1> QED
  BY <1>1, InvariantHolds, PTL

\* The map and the vector stay as they are while another thread reads them.
THEOREM StillHolds == Spec => StillWhileRead
<1> DEFINE Still == /\ chosen = "cache" => D!StillWhileRead
                    /\ chosen = "vector" => V!StillWhileRead
<1>1. IInv /\ [Next]_vars => [Still]_vars
  BY CacheStill, VectorStill DEF IInv, Next
<1> QED
  BY <1>1, InvariantHolds, PTL DEF Spec, StillWhileRead

=============================================================================
