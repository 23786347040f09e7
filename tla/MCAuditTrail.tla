---------------------------- MODULE MCAuditTrail ----------------------------
(***************************************************************************)
(* An instance of AuditTrail for TLC.                                      *)
(***************************************************************************)
EXTENDS AuditTrail, TLC

GatewaySymmetry == Permutations(Gateways)

Request(actor, action, target, critical) ==
    [actor |-> actor, action |-> action, target |-> target,
     critical |-> critical]

Grant(actor, allowed, denied, paths, maxUses, ttl, critical) ==
    [actor |-> actor, allowed |-> allowed, denied |-> denied, paths |-> paths,
     maxUses |-> maxUses, ttl |-> ttl, critical |-> critical]

\* Patterns and targets: "*" covers everything, "repo" one directory.
MCCovers == [pattern \in {"*", "repo"} |->
               IF pattern = "*" THEN {"repo/a", "home/b"} ELSE {"repo/a"}]

\* Of the first grant's tokens the critical request lacks the flag, and the
\* second grant denies it; the other request is outside the second's path.
TrailRequests == {Request("agent", "shell", "repo/a", TRUE),
                  Request("agent", "write", "home/b", FALSE)}

TrailGrants == {Grant("agent", {"shell", "write"}, {}, {"*"}, 1, 1, FALSE),
                Grant("agent", {"write"}, {"shell"}, {"repo"}, 2, 1, TRUE)}

\* Every caller claims a delegation by the first token, and none by the second.
TrailChains == {{1}}

\* At most two processes are in a call at a time, recording included, and after
\* a reset that overlapped an update only the store is followed.
Busy == {p \in Procs : pc[p] # "idle"} \cup {g \in Gateways : owed[g] # Nothing}

TwoBusy == /\ Cardinality(Busy) <= 2
           /\ disturbed => log = <<>>
=============================================================================
