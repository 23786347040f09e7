--------------------------- MODULE FileLockProofs ---------------------------
(***************************************************************************)
(* file_lock is a mutex, for any threads in any processes, any timeout and *)
(* on both platforms.                                                      *)
(***************************************************************************)
EXTENDS FileLock, TLAPS

\* file_lock keeps its state well-formed: remaining times never go negative.
THEOREM TypeCorrect == Spec => []TypeOK
<1>1. Init => TypeOK
  BY TimeoutAssumption DEF Init, TypeOK, Phases
<1>2. TypeOK /\ [Next]_vars => TypeOK'
  <2> SUFFICES ASSUME TypeOK, [Next]_vars PROVE TypeOK'
    OBVIOUS
  <2> USE TimeoutAssumption, ProcessAssumption DEF TypeOK, Phases
  <2>1. ASSUME NEW p \in Procs, Call(p) PROVE TypeOK'
    BY <2>1 DEF Call, Goto
  <2>2. ASSUME NEW p \in Procs, TakeMutex(p) \/ MutexTimeout(p) PROVE TypeOK'
    BY <2>2 DEF TakeMutex, MutexTimeout, Goto
  <2>3. ASSUME NEW p \in Procs, Acquire(p) \/ Busy(p) \/ GiveUp(p) \/ Wake(p)
        PROVE  TypeOK'
    BY <2>3 DEF Acquire, Busy, GiveUp, Wake, Goto
  <2>4. ASSUME NEW p \in Procs, Unlock(p) PROVE TypeOK'
    BY <2>4 DEF Unlock, Drop, Goto
  <2>5. ASSUME NEW p \in Procs, Fault(p) \/ LeaveBody(p) PROVE TypeOK'
    BY <2>5 DEF Fault, LeaveBody, Goto
  <2>6. ASSUME NEW process \in Processes, Crash(process) PROVE TypeOK'
    BY <2>6 DEF Crash
  <2>7. CASE Tick
    BY <2>7 DEF Tick
  <2>8. CASE UNCHANGED vars
    BY <2>8 DEF vars
  <2> QED BY <2>1, <2>2, <2>3, <2>4, <2>5, <2>6, <2>7, <2>8 DEF Next, Attempt
<1> QED BY <1>1, <1>2, PTL DEF Spec

-----------------------------------------------------------------------------
\* The inductive reason for mutual exclusion: the kernel lock belongs to
\* whoever is in the body, and on Windows, where it would let a thread of the
\* same process in, a call past its queue has the mutex of its process.
BodyOwns == \A p \in Procs : pc[p] = "body" => owner = p
HoldsMutex == win32 => \A p \in Procs :
                 pc[p] \notin {"idle", "queued"} => mutex[ProcessOf[p]] = p
LockInv == BodyOwns /\ NoOrphanedLock /\ HoldsMutex

\* A call that tries and is not kept out finds the lock free: on Windows a
\* thread of its own process would have to have the mutex as well.
LEMMA FreeWhenTaken ==
    ASSUME TypeOK, LockInv, NEW p \in Procs, pc[p] = "trying", NotBusy(p)
    PROVE  owner = NoProc
  BY ProcsAssumption, ProcessAssumption
     DEF TypeOK, LockInv, NoOrphanedLock, HoldsMutex, NotBusy, Mates

\* A call drops the kernel lock only if it is its own.
LEMMA DropsOwn ==
    ASSUME TypeOK, LockInv, NEW p \in Procs, pc[p] = "unwinding", Drop(p)
    PROVE  owner' = IF owner = p THEN NoProc ELSE owner
  BY ProcsAssumption, ProcessAssumption
     DEF TypeOK, LockInv, NoOrphanedLock, HoldsMutex, Drop, Mates

LEMMA LockInvInductive ==
    /\ Init => LockInv
    /\ TypeOK /\ LockInv /\ [Next]_vars => LockInv'
<1>1. Init => LockInv
  BY DEF Init, LockInv, BodyOwns, NoOrphanedLock, HoldsMutex
<1>2. ASSUME TypeOK, LockInv, [Next]_vars PROVE LockInv'
  <2> USE <1>2, ProcsAssumption, ProcessAssumption
      DEF TypeOK, LockInv, BodyOwns, NoOrphanedLock, HoldsMutex
  <2>1. ASSUME NEW p \in Procs, Call(p) PROVE LockInv'
    BY <2>1 DEF Call, Goto
  <2>2. ASSUME NEW p \in Procs, TakeMutex(p) PROVE LockInv'
    <3>1. \A q \in Procs : pc[q] \notin {"idle", "queued"} /\ win32
                           => ProcessOf[q] # ProcessOf[p]
      BY <2>2 DEF TakeMutex
    <3>2. BodyOwns' /\ NoOrphanedLock'
      BY <2>2 DEF TakeMutex, Goto
    <3>3. HoldsMutex'
      BY <2>2, <3>1 DEF TakeMutex, Goto
    <3> QED BY <3>2, <3>3
  <2>3. ASSUME NEW p \in Procs, Acquire(p) PROVE LockInv'
    <3>1. owner = NoProc
      BY <2>3, FreeWhenTaken DEF Acquire
    <3> QED BY <2>3, <3>1 DEF Acquire, Goto
  <2>4. ASSUME NEW p \in Procs, Unlock(p) PROVE LockInv'
    <3>1. owner' = IF owner = p THEN NoProc ELSE owner
      BY <2>4, DropsOwn DEF Unlock
    <3>2. BodyOwns' /\ NoOrphanedLock'
      BY <2>4, <3>1 DEF Unlock, Goto
    <3>3. HoldsMutex'
      BY <2>4 DEF Unlock, Goto
    <3> QED BY <3>2, <3>3
  <2>5. ASSUME NEW p \in Procs,
               \/ MutexTimeout(p) \/ Busy(p) \/ GiveUp(p) \/ Fault(p)
               \/ Wake(p) \/ LeaveBody(p)
        PROVE  LockInv'
    BY <2>5 DEF MutexTimeout, Busy, GiveUp, Fault, Wake, LeaveBody, Goto
  <2>6. ASSUME NEW process \in Processes, Crash(process) PROVE LockInv'
    BY <2>6 DEF Crash
  <2>7. CASE Tick
    BY <2>7 DEF Tick
  <2>8. CASE UNCHANGED vars
    BY <2>8 DEF vars
  <2> QED BY <2>1, <2>2, <2>3, <2>4, <2>5, <2>6, <2>7, <2>8 DEF Next, Attempt
<1> QED BY <1>1, <1>2

\* No two threads are ever in the body of `with file_lock(...)`: the promise
\* of _locking.py:3-5 for every number of contenders, crashes included.
THEOREM Exclusion == Spec => []MutualExclusion
<1>1. TypeOK /\ LockInv => MutualExclusion
  BY ProcsAssumption DEF TypeOK, LockInv, BodyOwns, MutualExclusion, Inside
<1> QED BY <1>1, TypeCorrect, LockInvInductive, PTL DEF Spec

\* The lock is never left behind by a call that ended, however it ended.
THEOREM NeverOrphaned == Spec => []NoOrphanedLock
<1>1. LockInv => NoOrphanedLock
  BY DEF LockInv
<1> QED BY <1>1, TypeCorrect, LockInvInductive, PTL DEF Spec

-----------------------------------------------------------------------------
LEMMA Entering == ASSUME TypeOK, LockInv, NEW p \in Procs, Acquire(p)
                  PROVE  LockIsMutex!Enter(p)
<1>1. Inside = {}
  BY FreeWhenTaken, ProcsAssumption DEF Acquire, LockInv, BodyOwns, Inside
<1>2. Inside' = {p}
  BY <1>1 DEF Acquire, Goto, TypeOK, Inside
<1> QED BY <1>1, <1>2 DEF LockIsMutex!Enter

\* A thread that leaves the body takes nobody else with it.
LEMMA Leaving == ASSUME TypeOK, NEW p \in Procs, LeaveBody(p)
                 PROVE  LockIsMutex!Leave(p)
<1>1. p \in Inside
  BY DEF LeaveBody, Inside
<1>2. Inside' = Inside \ {p}
  BY DEF LeaveBody, Goto, TypeOK, Inside
<1> QED BY <1>1, <1>2 DEF LockIsMutex!Leave

\* A process that dies takes at most one thread out of the body.
LEMMA Dying == ASSUME TypeOK, LockInv, NEW process \in Processes, Crash(process)
               PROVE  LockIsMutex!Next \/ Inside' = Inside
<1>1. Inside' = {q \in Inside : ProcessOf[q] # process}
  BY DEF Crash, TypeOK, Inside
<1>2. \A p, q \in Inside : p = q
  BY DEF LockInv, BodyOwns, Inside
<1>3. CASE \E p \in Inside : ProcessOf[p] = process
  <2>1. PICK p \in Inside : ProcessOf[p] = process
    BY <1>3
  <2>2. Inside' = Inside \ {p}
    BY <1>1, <1>2, <2>1
  <2> QED BY <2>1, <2>2 DEF LockIsMutex!Next, LockIsMutex!Leave, Inside
<1>4. CASE ~\E p \in Inside : ProcessOf[p] = process
  BY <1>1, <1>4
<1> QED BY <1>3, <1>4

LEMMA Stuttering == ASSUME TypeOK, NEW p \in Procs, NEW phase \in Phases \ {"body"},
                           pc[p] # "body", Goto(p, phase)
                    PROVE  Inside' = Inside
  BY DEF Goto, TypeOK, Inside

\* file_lock implements the abstract mutex: every step enters or leaves the
\* body, or is invisible to the callers.
THEOREM Refinement == Spec => ImplementsMutex
<1>1. Init => LockIsMutex!Init
  BY DEF Init, LockIsMutex!Init, Inside
<1>2. TypeOK /\ LockInv /\ [Next]_vars => [LockIsMutex!Next]_Inside
  <2> SUFFICES ASSUME TypeOK, LockInv, [Next]_vars
               PROVE  LockIsMutex!Next \/ Inside' = Inside
    OBVIOUS
  <2>1. ASSUME NEW p \in Procs, Acquire(p) PROVE LockIsMutex!Next
    BY <2>1, Entering DEF LockIsMutex!Next
  <2>2. ASSUME NEW p \in Procs, LeaveBody(p) PROVE LockIsMutex!Next
    BY <2>2, Leaving DEF LockIsMutex!Next
  <2>3. ASSUME NEW process \in Processes, Crash(process)
        PROVE  LockIsMutex!Next \/ Inside' = Inside
    BY <2>3, Dying
  <2>4. ASSUME NEW p \in Procs,
               \/ Call(p) \/ TakeMutex(p) \/ MutexTimeout(p) \/ Busy(p)
               \/ GiveUp(p) \/ Fault(p) \/ Wake(p) \/ Unlock(p)
        PROVE  Inside' = Inside
    BY <2>4, Stuttering DEF Call, TakeMutex, MutexTimeout, Busy, GiveUp, Fault,
                            Wake, Unlock, Phases
  <2>5. CASE Tick \/ UNCHANGED vars
    BY <2>5 DEF Tick, vars, Inside
  <2> QED BY <2>1, <2>2, <2>3, <2>4, <2>5 DEF Next, Attempt
<1> QED BY <1>1, <1>2, TypeCorrect, LockInvInductive, PTL
        DEF Spec, ImplementsMutex, LockIsMutex!Spec
=============================================================================
