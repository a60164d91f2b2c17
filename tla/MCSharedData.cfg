SPECIFICATION FairSpec
CONSTANTS
  t1 = t1  t2 = t2  t3 = t3  t4 = t4  t5 = t5
  com = com  org = org  e1 = e1  e2 = e2
  NoThread = NoThread  NoDomain = NoDomain  Torn = Torn  Absent = Absent
  Threads <- MCThreads
  MaxCalls = 2
  MaxFailures = 2
  CacheCalls = 1
  Domains <- MCDomains
  Entries <- MCEntries
  DnsEntry <- e1
  Pairs = 3
  Processors <- MCProcessors
  Waiters <- MCWaiters
  Setter <- t5
INVARIANTS
  MadeOnce
  ReadsAreCurrent
PROPERTIES
  StillWhileRead
  CallsReturn
