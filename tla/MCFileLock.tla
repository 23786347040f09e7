---------------------------- MODULE MCFileLock ----------------------------
EXTENDS FileLock, TLC

CONSTANTS t1, t2, t3, here, there

\* Two threads of one process and one of another.
Threads == {t1, t2, t3}
Homes == t1 :> here @@ t2 :> here @@ t3 :> there
===========================================================================
