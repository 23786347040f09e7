------------------------------- MODULE Mutex -------------------------------
(***************************************************************************)
(* What agent_sudo/_locking.py promises its callers: at most one process   *)
(* is inside a `with file_lock(...)` body on a given lock file, and a      *)
(* process leaves the body only by its own doing (it finishes, raises, or  *)
(* dies).  The detailed protocol is FileLock, which implements this one.   *)
(***************************************************************************)
CONSTANT Procs

VARIABLE inside   \* the processes executing the body of the with-statement

Init == inside = {}

Enter(p) == inside = {} /\ inside' = {p}

Leave(p) == p \in inside /\ inside' = inside \ {p}

Next == \E p \in Procs : Enter(p) \/ Leave(p)

Spec == Init /\ [][Next]_inside
=============================================================================
