------------------------------ MODULE FileLock ------------------------------
(***************************************************************************)
(* file_lock of agent_sudo/_locking.py: the exclusive advisory lock that   *)
(* the delegation store, the pending-approval store and the audit log put  *)
(* around their read-modify-write sections.                                *)
(*                                                                         *)
(* A call opens the lock file, tries a non-blocking lock, and while it is  *)
(* busy sleeps and tries again; after the deadline it raises LockTimeout.  *)
(* The `finally` clause unlocks and closes on every way out, and the       *)
(* kernel does the same for a process that dies.  On POSIX the lock        *)
(* belongs to the call's descriptor.  On Windows it belongs to the         *)
(* process (_locking.py:65-68), so that a call first takes a mutex that    *)
(* the threads of its process share.                                       *)
(***************************************************************************)
EXTENDS Integers

CONSTANTS Procs,       \* the threads that lock this file
          NoProc,      \* a lock is free
          Processes,   \* the processes they run in
          ProcessOf,   \* the process of each thread
          Timeout      \* lock_timeout, in clock ticks

ASSUME ProcsAssumption == NoProc \notin Procs
ASSUME ProcessAssumption == ProcessOf \in [Procs -> Processes]
ASSUME TimeoutAssumption == Timeout \in Nat

VARIABLES win32,   \* the platform, chosen once
          pc,      \* where each thread is in file_lock
          owner,   \* the thread whose call got the kernel lock
          mutex,   \* the thread that holds each process's mutex (Windows)
          left     \* ticks until each call's deadline, 0 when it has passed

vars == <<win32, pc, owner, mutex, left>>

Phases == {"idle", "queued", "trying", "sleeping", "body", "unwinding"}

TypeOK == /\ win32 \in BOOLEAN
          /\ pc \in [Procs -> Phases]
          /\ owner \in Procs \cup {NoProc}
          /\ mutex \in [Processes -> Procs \cup {NoProc}]
          /\ left \in [Procs -> 0..Timeout]

Init == /\ win32 \in BOOLEAN
        /\ pc = [p \in Procs |-> "idle"]
        /\ owner = NoProc
        /\ mutex = [process \in Processes |-> NoProc]
        /\ left = [p \in Procs |-> 0]

-----------------------------------------------------------------------------
Goto(p, phase) == pc' = [pc EXCEPT ![p] = phase]

\* The deadline is taken first.  On POSIX the lock file is opened next; an open
\* that fails raises, and leaves nothing to undo.
Call(p) == /\ pc[p] = "idle"
           /\ left' = [left EXCEPT ![p] = Timeout]
           /\ Goto(p, IF win32 THEN "queued" ELSE "trying")
           /\ UNCHANGED <<win32, owner, mutex>>

\* Mutant of TakeMutex: the threads of a process do not exclude each other.
ShareMutex(p) == /\ pc[p] = "queued"
                 /\ mutex' = [mutex EXCEPT ![ProcessOf[p]] = p]
                 /\ Goto(p, "trying")
                 /\ UNCHANGED <<win32, owner, left>>

\* Windows: the mutex of the process is free, before or at the deadline.
TakeMutex(p) == /\ pc[p] = "queued"
                /\ mutex[ProcessOf[p]] = NoProc
                /\ mutex' = [mutex EXCEPT ![ProcessOf[p]] = p]
                /\ Goto(p, "trying")
                /\ UNCHANGED <<win32, owner, left>>

\* Windows: another thread kept the mutex until the deadline.  LockTimeout is
\* raised outside the `try`, so that nothing is unlocked.
MutexTimeout(p) == /\ pc[p] = "queued"
                   /\ mutex[ProcessOf[p]] # NoProc
                   /\ left[p] = 0
                   /\ Goto(p, "idle")
                   /\ UNCHANGED <<win32, owner, mutex, left>>

Mates(p) == {q \in Procs : ProcessOf[q] = ProcessOf[p]}

\* The kernel lock does not keep p's call out.  On Windows the lock of a process
\* does not conflict with itself.
NotBusy(p) == owner = NoProc \/ (win32 /\ owner \in Mates(p))

\* The lock is taken: control passes to the caller's body at the yield.
Acquire(p) == /\ pc[p] = "trying"
              /\ NotBusy(p)
              /\ owner' = p
              /\ Goto(p, "body")
              /\ UNCHANGED <<win32, mutex, left>>

\* The lock is busy and the deadline has not passed.
Busy(p) == /\ pc[p] = "trying"
           /\ ~NotBusy(p)
           /\ left[p] > 0
           /\ Goto(p, "sleeping")
           /\ UNCHANGED <<win32, owner, mutex, left>>

\* Mutant of GiveUp: the call goes on without the lock.
GoOnUnlocked(p) == /\ pc[p] = "trying"
                   /\ ~NotBusy(p)
                   /\ left[p] = 0
                   /\ Goto(p, "body")
                   /\ UNCHANGED <<win32, owner, mutex, left>>

\* The lock is busy and the deadline has passed: LockTimeout is raised.
GiveUp(p) == /\ pc[p] = "trying"
             /\ ~NotBusy(p)
             /\ left[p] = 0
             /\ Goto(p, "unwinding")
             /\ UNCHANGED <<win32, owner, mutex, left>>

\* Opening or locking fails for a reason other than a busy lock: the OSError
\* is raised again.
Fault(p) == /\ pc[p] = "trying"
            /\ Goto(p, "unwinding")
            /\ UNCHANGED <<win32, owner, mutex, left>>

\* Mutant of Wake: the deadline is computed anew after every sleep.
WakeAnew(p) == /\ pc[p] = "sleeping"
               /\ Goto(p, "trying")
               /\ left' = [left EXCEPT ![p] = Timeout]
               /\ UNCHANGED <<win32, owner, mutex>>

Wake(p) == /\ pc[p] = "sleeping"
           /\ Goto(p, "trying")
           /\ UNCHANGED <<win32, owner, mutex, left>>

\* The caller's body returns or raises; either way `finally` runs next.
LeaveBody(p) == /\ pc[p] = "body"
                /\ Goto(p, "unwinding")
                /\ UNCHANGED <<win32, owner, mutex, left>>

\* Mutants of Drop: every exit frees the lock, and none does.
DropAny(p) == owner' = NoProc
DropNone(p) == UNCHANGED owner

\* A call that never got the kernel lock releases nothing: LOCK_UN and close act
\* on its own descriptor, and on Windows LK_UNLCK raises when the process does
\* not have the lock, or frees the one that it has.
Drop(p) == owner' = IF owner = p \/ (win32 /\ owner \in Mates(p))
                    THEN NoProc ELSE owner

\* The mutex is released last, even if unlocking or closing raises.
Unlock(p) == /\ pc[p] = "unwinding"
             /\ Drop(p)
             /\ mutex' = IF win32 THEN [mutex EXCEPT ![ProcessOf[p]] = NoProc]
                         ELSE mutex
             /\ Goto(p, "idle")
             /\ left' = [left EXCEPT ![p] = 0]
             /\ UNCHANGED win32

\* A process dies, with every call that its threads are in.
Crash(process) ==
    LET dead == {p \in Procs : ProcessOf[p] = process} IN
    /\ \E p \in dead : pc[p] # "idle"
    /\ pc' = [p \in Procs |-> IF p \in dead THEN "idle" ELSE pc[p]]
    /\ left' = [p \in Procs |-> IF p \in dead THEN 0 ELSE left[p]]
    /\ owner' = IF owner \in dead THEN NoProc ELSE owner
    /\ mutex' = [mutex EXCEPT ![process] = NoProc]
    /\ UNCHANGED win32

\* Mutant of Tick: the remaining time is not cut off at zero.
TickBelowZero == /\ \E p \in Procs : left[p] > 0
                 /\ left' = [p \in Procs |-> left[p] - 1]
                 /\ UNCHANGED <<win32, pc, owner, mutex>>

\* The monotonic clock advances for every call that still waits.
Tick == /\ \E p \in Procs : left[p] > 0
        /\ left' = [p \in Procs |-> IF left[p] > 0 THEN left[p] - 1 ELSE 0]
        /\ UNCHANGED <<win32, pc, owner, mutex>>

Attempt(p) == \/ TakeMutex(p) \/ MutexTimeout(p)
              \/ Acquire(p) \/ Busy(p) \/ GiveUp(p) \/ Wake(p) \/ Unlock(p)

Next == \/ \E p \in Procs : Call(p) \/ Attempt(p) \/ Fault(p) \/ LeaveBody(p)
        \/ \E process \in Processes : Crash(process)
        \/ Tick

Spec == Init /\ [][Next]_vars

\* A running thread executes its own statements and time passes.  Nothing
\* is assumed of the body: a holder may keep the lock for ever.
FairSpec == Spec /\ WF_vars(Tick) /\ \A p \in Procs : WF_vars(Attempt(p))

-----------------------------------------------------------------------------
\* The processes that execute the body.
Inside == {p \in Procs : pc[p] = "body"}

\* At most one thread is inside the body of `with file_lock(...)`, and it is
\* the one the kernel lock belongs to: the promise of _locking.py:3-5.
MutualExclusion == \A p \in Inside : owner = p /\ Inside = {p}

\* A lock never outlives its call: the owner is in the body or on its way out
\* (auto-release, _locking.py:18-19), so a failed or dead holder cannot wedge
\* the store.
NoOrphanedLock == owner # NoProc => pc[owner] \in {"body", "unwinding"}

\* The detailed protocol behaves like an abstract mutex: no attempt, timeout
\* or crash of one process lets a second process into an occupied body.
LockIsMutex == INSTANCE Mutex WITH inside <- Inside
ImplementsMutex == LockIsMutex!Spec

\* Every attempt ends, in the body or in a LockTimeout, even when the holder
\* never lets go (_locking.py:15-17).
AttemptsEnd == \A p \in Procs :
                  pc[p] \in {"queued", "trying", "sleeping"} ~>
                  pc[p] \in {"body", "idle"}
=============================================================================
