\* Two threads of one process and a thread of another, on either platform, and
\* a deadline two ticks away: enough for a holder, a waiter that times out and
\* a waiter that gets in between the two.
CONSTANTS
  t1 = t1
  t2 = t2
  t3 = t3
  here = here
  there = there
  Procs <- Threads
  Processes = {here, there}
  ProcessOf <- Homes
  NoProc = NoProc
  Timeout = 2
SPECIFICATION FairSpec
INVARIANTS
  TypeOK
  MutualExclusion
  NoOrphanedLock
PROPERTIES
  ImplementsMutex
  AttemptsEnd
