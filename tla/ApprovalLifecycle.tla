------------------------- MODULE ApprovalLifecycle -------------------------
(***************************************************************************)
(* What the pending-approval store promises of each approval request, with *)
(* no processes, locks or files: the status moves along the edges below,   *)
(* and every use of an approval is counted by the move from APPROVED to    *)
(* USED.  PendingApprovals implements it as long as every writer takes the *)
(* lock.                                                                   *)
(***************************************************************************)
EXTENDS Naturals

CONSTANT Ids

VARIABLES status,   \* the status of each approval request
          uses      \* how often each one has let a request through

Init == /\ status = [i \in Ids |-> "ABSENT"]
        /\ uses = [i \in Ids |-> 0]

\* ApprovalStatus and the moves between its values.  deny() takes any row to
\* DENIED, whatever its status; nothing leaves USED, EXPIRED or DENIED again
\* for PENDING or APPROVED.
Moves == {<<"ABSENT", "PENDING">>, <<"PENDING", "APPROVED">>,
          <<"APPROVED", "USED">>, <<"PENDING", "EXPIRED">>,
          <<"APPROVED", "EXPIRED">>, <<"PENDING", "DENIED">>,
          <<"APPROVED", "DENIED">>, <<"USED", "DENIED">>,
          <<"EXPIRED", "DENIED">>}

Stays(i) == status'[i] = status[i]

Used(i) == status[i] = "APPROVED" /\ status'[i] = "USED"

\* One save of the store file moves any number of rows, since expiry is
\* persisted together with other changes.
Save == /\ \A i \in Ids : Stays(i) \/ <<status[i], status'[i]>> \in Moves
        /\ uses' = [i \in Ids |-> IF Used(i) THEN uses[i] + 1 ELSE uses[i]]

Spec == Init /\ [][Save]_<<status, uses>>
=============================================================================
