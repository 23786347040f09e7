-------------------------- MODULE PendingApprovals --------------------------
(***************************************************************************)
(* The pending-approval store of agent_sudo/pending_approvals.py and the   *)
(* processes that share its file: gateways that evaluate (and retry) tool  *)
(* calls, operators that list, approve and deny, and `init-approval` runs  *)
(* that cancel everything when the passphrase is reset.                    *)
(*                                                                         *)
(* Every store method is one or more critical sections under the file lock *)
(* (module FileLock): wait, read the file, optionally expire stale rows,   *)
(* act and save, release.  Audit events are written inside or after the    *)
(* section, as in the code.  The reset takes no lock.                      *)
(*                                                                         *)
(* A row's number is its position in the file.  Rows are only appended, so *)
(* the row's request and expiry never change and are kept beside the file; *)
(* the file itself is the status of every row.  The audit log is the set   *)
(* of <<event type, row>> pairs it contains (module AuditLog has the log). *)
(***************************************************************************)
EXTENDS Integers

CONSTANTS Gateways,    \* processes that evaluate requests
          Operators,   \* CLI and approval-helper processes
          Resetters,   \* init-approval processes
          None,        \* no process, no request
          Requests,    \* request fingerprints
          Strong,      \* those whose decision is REQUIRE_STRONG_APPROVAL
          MaxId,       \* bound on the rows ever created
          Ttl,         \* ttl_seconds, in clock ticks
          MaxTime,     \* bound on the clock
          Audited,     \* the processes whose store has an audit logger
          Aborts       \* whether processes may die or raise in mid-call

Procs == Gateways \cup Operators \cup Resetters
Ids == 1..MaxId

ASSUME ProcsAssumption == None \notin Procs /\ None \notin Requests
ASSUME RolesAssumption == /\ Gateways \cap (Operators \cup Resetters) = {}
                          /\ Operators \cap Resetters = {}
ASSUME BoundsAssumption == /\ MaxId \in Nat \ {0}
                           /\ Ttl \in Nat \ {0}
                           /\ MaxTime \in Nat
ASSUME StrongAssumption == Strong \subseteq Requests
ASSUME FlagsAssumption == Audited \subseteq Procs /\ Aborts \in BOOLEAN

VARIABLES file,       \* pending_approvals.json: the status of each row
          reqOf,      \* the request each row was created for
          expiry,     \* expires_at of each row
          nextId,     \* the next row to be appended
          now,        \* the wall clock
          lock,       \* the holder of pending_approvals.json.lock
          pc, op,     \* where each process is, and in which store method
          req,        \* the request a gateway evaluates
          due,        \* expires_at of the row a gateway is about to create
          target,     \* the row an operator approves or denies
          rows,       \* the list a process has read
          cursor,     \* the next row _expire_stale looks at
          dirty,      \* `changed` of _expire_stale
          todo,       \* audit events a process still has to write
          recorded,   \* the audit events written so far
          grants,     \* history: ALLOWs each row has given
          cancelled,  \* history: rows a completed passphrase reset cancelled
          unlogged,   \* history: rows whose last change nobody will record
          maker       \* history: the gateway that created each row

store == <<file, reqOf, expiry, nextId>>
args == <<req, due, target>>
memory == <<rows, cursor, dirty>>
history == <<grants, cancelled, unlogged, maker>>
vars == <<store, now, lock, pc, op, args, memory, todo, recorded, history>>

Status == {"ABSENT", "PENDING", "APPROVED", "DENIED", "USED", "EXPIRED"}
Active == {"PENDING", "APPROVED"}
Methods == {"none", "list", "find", "consume", "create", "approve", "attempt",
            "apply", "deny", "reset"}
Phases == {"idle", "waiting", "scanning", "acting", "prompting", "recording",
           "cancelling"}
EventTypes == {"approval_created", "approval_approved", "approval_denied",
               "approval_used", "approval_expired", "approval_approve_failed"}
Events == EventTypes \X Ids

Blank == [i \in Ids |-> "ABSENT"]

Init == /\ file = Blank
        /\ reqOf = [i \in Ids |-> None]
        /\ expiry = [i \in Ids |-> 0]
        /\ nextId = 1
        /\ now = 0
        /\ lock = None
        /\ pc = [p \in Procs |-> "idle"]
        /\ op = [p \in Procs |-> "none"]
        /\ req = [p \in Procs |-> None]
        /\ due = [p \in Procs |-> 0]
        /\ target = [p \in Procs |-> 1]
        /\ rows = [p \in Procs |-> Blank]
        /\ cursor = [p \in Procs |-> 1]
        /\ dirty = [p \in Procs |-> FALSE]
        /\ todo = [p \in Procs |-> {}]
        /\ recorded = {}
        /\ grants = [i \in Ids |-> 0]
        /\ cancelled = {}
        /\ unlogged = {}
        /\ maker = [i \in Ids |-> None]

-----------------------------------------------------------------------------
\* Control of one process.

Goto(p, phase, method) == /\ pc' = [pc EXCEPT ![p] = phase]
                          /\ op' = [op EXCEPT ![p] = method]

\* What the process read is gone once it leaves the critical section.
Forget(p) == /\ rows' = [rows EXCEPT ![p] = Blank]
             /\ cursor' = [cursor EXCEPT ![p] = 1]
             /\ dirty' = [dirty EXCEPT ![p] = FALSE]

ForgetArgs(p) == /\ req' = [req EXCEPT ![p] = None]
                 /\ due' = [due EXCEPT ![p] = 0]
                 /\ target' = [target EXCEPT ![p] = 1]

Unlock(p) == lock' = IF lock = p THEN None ELSE lock

\* Mutant of UnlockAfterEvent: the event is written after the release.
UnlockAtOnce(p) == Unlock(p)

\* The lock is kept while the events are written, if there are any.
UnlockAfterEvent(p) == IF p \in Audited THEN UNCHANGED lock ELSE Unlock(p)

Return(p) == /\ Goto(p, "idle", "none")
             /\ Forget(p)
             /\ ForgetArgs(p)

\* The method goes on to write `events`, or returns when it has none to write
\* (_record_state and _record_attempt do nothing without an audit logger).
ThenRecord(p, events) ==
    /\ todo' = [todo EXCEPT ![p] = IF p \in Audited THEN events ELSE {}]
    /\ IF p \notin Audited \/ events = {}
       THEN Return(p)
       ELSE Goto(p, "recording", op[p]) /\ Forget(p) /\ UNCHANGED args

\* The method goes on to another critical section.
ThenWait(p, method) == /\ Goto(p, "waiting", method)
                       /\ Forget(p)

Acting(p, method) == pc[p] = "acting" /\ op[p] = method

\* Mutant of Expired: a row is still valid at its expires_at.
ExpiredLate(i) == expiry[i] < now

Expired(i) == expiry[i] <= now

\* Mutant of Matching: an approved row is not found.
MatchingPending(p) == {i \in Ids : /\ rows[p][i] = "PENDING"
                                   /\ reqOf[i] = req[p]}

Matching(p) == {i \in Ids : rows[p][i] \in Active /\ reqOf[i] = req[p]}

\* The newest active row of the request has this status (matching[-1]).
NewestIs(p, status) == \E i \in Matching(p) : /\ rows[p][i] = status
                                              /\ \A j \in Matching(p) : j <= i

With(list, i, status) == [list EXCEPT ![i] = status]

\* The event that tells of a row's status.
EventFor == [PENDING |-> "approval_created", APPROVED |-> "approval_approved",
             DENIED |-> "approval_denied", USED |-> "approval_used",
             EXPIRED |-> "approval_expired"]

\* History: a process that saves rows records what it changed, if it has a
\* logger; what a process still owes when it dies nobody records.
Changed == {i \in Ids : file'[i] # file[i]}

Account(p) == unlogged' = IF p \in Audited THEN unlogged \ Changed
                          ELSE unlogged \cup Changed

OwedBy(p) == {i \in Ids : /\ file[i] # "ABSENT"
                          /\ <<EventFor[file[i]], i>> \in todo[p]}

-----------------------------------------------------------------------------
\* Calls.

\* PermissionGateway._evaluate_pending_approval starts with find_matching.
Evaluate(g, r) == /\ pc[g] = "idle"
                  /\ Goto(g, "waiting", "find")
                  /\ req' = [req EXCEPT ![g] = r]
                  /\ UNCHANGED <<store, now, lock, due, target, memory, todo,
                                 recorded, history>>

\* list(): `agent-sudo pending` and `approvals list`, which have no audit logger,
\* and the helper's poll, which may have one.  The MCP server's wait loop makes
\* the same call with one; here an operator process stands for it.
Poll(o) == /\ pc[o] = "idle"
           /\ Goto(o, "waiting", "list")
           /\ UNCHANGED <<store, now, lock, args, memory, todo, recorded,
                          history>>

\* An operator names a row it has seen.
Decide(o, i, method) == /\ pc[o] = "idle"
                        /\ i < nextId
                        /\ Goto(o, "waiting", method)
                        /\ target' = [target EXCEPT ![o] = i]
                        /\ UNCHANGED <<store, now, lock, req, due, memory,
                                       todo, recorded, history>>

-----------------------------------------------------------------------------
\* The critical section: lock, read, expire stale rows.

\* Mutant of MayEnter: the section is not serialized.
BargesIn(p) == TRUE

MayEnter(p) == lock = None

ScanningMethods == {"list", "find", "consume", "deny"}

Acquire(p) ==
    /\ pc[p] = "waiting"
    /\ MayEnter(p)
    /\ lock' = p
    /\ Goto(p, IF op[p] \in ScanningMethods THEN "scanning" ELSE "acting", op[p])
    /\ rows' = [rows EXCEPT ![p] = file]
    /\ UNCHANGED <<store, now, args, cursor, dirty, todo, recorded, history>>

\* One row of _expire_stale: a stale active row is marked in memory and its
\* event is written at once, before anything is saved.
Scan(p) ==
    /\ pc[p] = "scanning"
    /\ cursor[p] \in Ids
    /\ LET i == cursor[p]
           stale == rows[p][i] \in Active /\ Expired(i)
       IN /\ rows' = [rows EXCEPT ![p] =
                        IF stale THEN With(@, i, "EXPIRED") ELSE @]
          /\ dirty' = [dirty EXCEPT ![p] = @ \/ stale]
          /\ recorded' = recorded \cup
                (IF stale /\ p \in Audited THEN {<<"approval_expired", i>>} ELSE {})
          /\ cursor' = [cursor EXCEPT ![p] = i + 1]
    /\ UNCHANGED <<store, now, lock, pc, op, args, todo, history>>

EndScan(p) ==
    /\ pc[p] = "scanning"
    /\ cursor[p] \notin Ids
    /\ file' = IF dirty[p] THEN rows[p] ELSE file
    /\ Account(p)
    /\ Goto(p, "acting", op[p])
    /\ UNCHANGED <<reqOf, expiry, nextId, now, lock, args, memory, todo,
                   recorded, grants, cancelled, maker>>

-----------------------------------------------------------------------------
\* What each method does in its section.  The save is the last thing it does
\* there, so the release is part of the same step.

List(p) == /\ Acting(p, "list")
           /\ Unlock(p)
           /\ Return(p)
           /\ UNCHANGED <<store, now, todo, recorded, history>>

\* find_matching returns the newest active row of the request.  PENDING ends
\* the evaluation, APPROVED is consumed next.  With none, the gateway denies
\* or asks on its terminal, or creates a row, whose times are taken now.
Find(g) ==
    /\ Acting(g, "find")
    /\ Unlock(g)
    /\ \/ /\ Matching(g) = {} \/ NewestIs(g, "PENDING")
          /\ Return(g)
       \/ /\ NewestIs(g, "APPROVED")
          /\ ThenWait(g, "consume")
          /\ UNCHANGED args
       \/ /\ Matching(g) = {} /\ nextId \in Ids
          /\ ThenWait(g, "create")
          /\ due' = [due EXCEPT ![g] = now + Ttl]
          /\ UNCHANGED <<req, target>>
    /\ UNCHANGED <<store, now, todo, recorded, history>>

\* consume_matching takes the oldest matching APPROVED row that has not
\* expired.  Rows it finds expired on the way are reported as expired, but
\* saved only together with a consumed row.
Consume(g) ==
    LET approved == {i \in Matching(g) : rows[g][i] = "APPROVED"}
        late == {i \in approved : Expired(i)}
        valid == approved \ late
    IN /\ Acting(g, "consume")
       /\ Unlock(g)
       /\ \/ /\ valid = {}
             /\ ThenRecord(g, {<<"approval_expired", i>> : i \in late})
             /\ UNCHANGED <<file, grants>>
          \/ \E used \in valid :
             LET passed == {i \in late : i < used}
             IN /\ \A i \in valid : used <= i
                /\ file' = [i \in Ids |-> IF i = used THEN "USED"
                                          ELSE IF i \in passed THEN "EXPIRED"
                                          ELSE rows[g][i]]
                /\ grants' = [grants EXCEPT ![used] = @ + 1]
                /\ ThenRecord(g, {<<"approval_expired", i>> : i \in passed}
                                 \cup {<<"approval_used", used>>})
       /\ Account(g)
       /\ UNCHANGED <<reqOf, expiry, nextId, now, recorded, cancelled, maker>>

\* create() appends a PENDING row.  A gateway that meets the bound on rows,
\* because another one has just taken the last, gives up.
Create(g) ==
    /\ Acting(g, "create")
    /\ Unlock(g)
    /\ \/ /\ nextId \in Ids
          /\ file' = With(rows[g], nextId, "PENDING")
          /\ reqOf' = [reqOf EXCEPT ![nextId] = req[g]]
          /\ expiry' = [expiry EXCEPT ![nextId] = due[g]]
          /\ nextId' = nextId + 1
          /\ maker' = [maker EXCEPT ![nextId] = g]
          /\ ThenRecord(g, {<<"approval_created", nextId>>})
       \/ /\ nextId \notin Ids
          /\ Return(g)
          /\ UNCHANGED <<store, todo, maker>>
    /\ Account(g)
    /\ UNCHANGED <<now, recorded, grants, cancelled>>

\* Mutant of SaveAs: the change is not recorded.
SaveSilently(o, status, event) ==
    /\ file' = With(rows[o], target[o], status)
    /\ ThenRecord(o, {})

\* approve() and deny() end in a save of one changed row and one event.  The
\* lock is kept while the event is written, or released before.
SaveAs(o, status, event) ==
    /\ file' = With(rows[o], target[o], status)
    /\ ThenRecord(o, {<<event, target[o]>>})

\* Mutant of Pending: any row that is still there may be approved.
Present(o) == rows[o][target[o]] # "ABSENT"

Pending(o) == rows[o][target[o]] = "PENDING"

\* The row is gone or no longer PENDING: nothing is written.
Refuse(o) == /\ ~Pending(o)
             /\ Unlock(o)
             /\ Return(o)
             /\ UNCHANGED <<file, todo>>

\* Mutant of Expire: the row gets a status no reader knows.
ExpireAsStale(o) == /\ Pending(o) /\ Expired(target[o])
                    /\ SaveAs(o, "STALE", "approval_expired")
                    /\ UnlockAfterEvent(o)

Expire(o) == /\ Pending(o) /\ Expired(target[o])
             /\ SaveAs(o, "EXPIRED", "approval_expired")
             /\ UnlockAfterEvent(o)

\* Mutant of AskPassphrase: the human is asked inside the critical section.
AskInside(o) == /\ Goto(o, "prompting", "approve")
                /\ Forget(o)
                /\ UNCHANGED <<file, lock, args, todo>>

\* A strong approval leaves the critical section before it asks.
AskPassphrase(o) == /\ Unlock(o)
                    /\ Goto(o, "prompting", "approve")
                    /\ Forget(o)
                    /\ UNCHANGED <<file, args, todo>>

\* approve(), phase 1: every outcome that needs no human input.
Approve(o) ==
    /\ Acting(o, "approve")
    /\ \/ Refuse(o)
       \/ Expire(o)
       \/ /\ Pending(o) /\ ~Expired(target[o])
          /\ reqOf[target[o]] \notin Strong
          /\ SaveAs(o, "APPROVED", "approval_approved")
          /\ UnlockAfterEvent(o)
       \/ /\ Pending(o) /\ ~Expired(target[o])
          /\ reqOf[target[o]] \in Strong
          /\ AskPassphrase(o)
    /\ Account(o)
    /\ UNCHANGED <<reqOf, expiry, nextId, now, recorded, grants, cancelled, maker>>

\* Phase 2, without the lock: approve_critical succeeds ("apply") or not
\* ("attempt").
Prompt(o) ==
    /\ pc[o] = "prompting"
    /\ \E method \in {"apply", "attempt"} : ThenWait(o, method)
    /\ UNCHANGED <<store, now, lock, args, todo, recorded, history>>

\* After a failed prompt the row is looked up again for the audit event.
Attempt(o) ==
    /\ Acting(o, "attempt")
    /\ Unlock(o)
    /\ LET i == target[o]
       IN ThenRecord(o, IF rows[o][i] = "ABSENT" THEN {}
                        ELSE {<<"approval_approve_failed", i>>})
    /\ UNCHANGED <<store, now, recorded, history>>

\* Phase 3: the row must still be PENDING and unexpired.
Apply(o) ==
    /\ Acting(o, "apply")
    /\ \/ Refuse(o)
       \/ Expire(o)
       \/ /\ Pending(o) /\ ~Expired(target[o])
          /\ SaveAs(o, "APPROVED", "approval_approved")
          /\ Unlock(o)
    /\ Account(o)
    /\ UNCHANGED <<reqOf, expiry, nextId, now, recorded, grants, cancelled, maker>>

\* deny() overwrites whatever status the row has.
Deny(o) ==
    /\ Acting(o, "deny")
    /\ Unlock(o)
    /\ IF rows[o][target[o]] = "ABSENT"
       THEN /\ file' = rows[o]
            /\ ThenRecord(o, {})
       ELSE SaveAs(o, "DENIED", "approval_denied")
    /\ Account(o)
    /\ UNCHANGED <<reqOf, expiry, nextId, now, recorded, grants, cancelled, maker>>

\* One audit event; with the last one the method returns, and releases the
\* lock if it still has it.
Record(p) ==
    /\ pc[p] = "recording"
    /\ \E e \in todo[p] :
          /\ recorded' = recorded \cup {e}
          /\ todo' = [todo EXCEPT ![p] = @ \ {e}]
    /\ IF todo'[p] = {}
       THEN Return(p) /\ Unlock(p)
       ELSE UNCHANGED <<pc, op, args, memory, lock>>
    /\ UNCHANGED <<store, now, history>>

-----------------------------------------------------------------------------
\* init_approval_config on an existing configuration: every active row becomes
\* DENIED, in a read and a save without the lock.

ResetRead(x) == /\ pc[x] = "idle"
                /\ Goto(x, "cancelling", "reset")
                /\ rows' = [rows EXCEPT ![x] = file]
                /\ UNCHANGED <<store, now, lock, args, cursor, dirty, todo,
                               recorded, history>>

\* Mutant of ToCancel: approved rows are left alone.
OnlyPending(x) == {i \in Ids : rows[x][i] = "PENDING"}

ToCancel(x) == {i \in Ids : rows[x][i] \in Active}

ResetSave(x) ==
    /\ pc[x] = "cancelling"
    /\ LET active == ToCancel(x)
       IN /\ file' = IF active = {} THEN file
                     ELSE [i \in Ids |-> IF i \in active THEN "DENIED"
                                         ELSE rows[x][i]]
          /\ cancelled' = cancelled \cup active
    /\ unlogged' = unlogged \cup Changed
    /\ Return(x)
    /\ UNCHANGED <<reqOf, expiry, nextId, now, lock, todo, recorded, grants, maker>>

-----------------------------------------------------------------------------
\* The process dies, or the method raises: LockTimeout while waiting, an audit
\* append that fails, an I/O error before the rename.  The lock is released.
Abort(p) == /\ Aborts
            /\ pc[p] # "idle"
            /\ Unlock(p)
            /\ Return(p)
            /\ todo' = [todo EXCEPT ![p] = {}]
            /\ unlogged' = unlogged \cup OwedBy(p)
            /\ UNCHANGED <<store, now, recorded, grants, cancelled, maker>>

Tick == /\ now < MaxTime
        /\ now' = now + 1
        /\ UNCHANGED <<store, lock, pc, op, args, memory, todo, recorded,
                       history>>

\* Steps a running process takes by itself, without new input from a human.
GatewayStep(g) == Find(g) \/ Consume(g) \/ Create(g)
OperatorStep(o) == List(o) \/ Approve(o) \/ Attempt(o) \/ Apply(o) \/ Deny(o)
SharedStep(p) == Scan(p) \/ EndScan(p) \/ Record(p)

Next == \/ \E g \in Gateways : \/ \E r \in Requests : Evaluate(g, r)
                               \/ GatewayStep(g)
        \/ \E o \in Operators : \/ \E i \in Ids : \/ Decide(o, i, "approve")
                                                  \/ Decide(o, i, "deny")
                                \/ Poll(o) \/ Prompt(o)
                                \/ OperatorStep(o)
        \/ \E p \in Gateways \cup Operators : Acquire(p) \/ SharedStep(p)
        \/ \E x \in Resetters : ResetRead(x) \/ ResetSave(x)
        \/ \E p \in Procs : Abort(p)
        \/ Tick

Spec == Init /\ [][Next]_vars

\* A process inside a critical section keeps running; humans, callers and the
\* order in which the kernel serves waiters are left free.
FairSpec == /\ Spec
            /\ \A g \in Gateways : WF_vars(GatewayStep(g))
            /\ \A o \in Operators : WF_vars(OperatorStep(o))
            /\ \A p \in Gateways \cup Operators : WF_vars(SharedStep(p))

-----------------------------------------------------------------------------
StoreOK == /\ file \in [Ids -> Status]
           /\ reqOf \in [Ids -> Requests \cup {None}]
           /\ expiry \in [Ids -> Nat]
           /\ nextId \in 1..(MaxId + 1)

ControlOK == /\ lock \in Procs \cup {None}
             /\ pc \in [Procs -> Phases]
             /\ op \in [Procs -> Methods]

ArgsOK == /\ req \in [Procs -> Requests \cup {None}]
          /\ due \in [Procs -> Nat]
          /\ target \in [Procs -> Ids]

MemoryOK == /\ rows \in [Procs -> [Ids -> Status]]
            /\ cursor \in [Procs -> 1..(MaxId + 1)]
            /\ dirty \in [Procs -> BOOLEAN]

AuditOK == /\ todo \in [Procs -> SUBSET Events]
           /\ recorded \in SUBSET Events

HistoryOK == /\ grants \in [Ids -> Nat]
             /\ cancelled \in SUBSET Ids /\ unlogged \in SUBSET Ids
             /\ maker \in [Ids -> Gateways \cup {None}]

TypeOK == /\ now \in Nat
          /\ StoreOK /\ ControlOK /\ ArgsOK /\ MemoryOK /\ AuditOK /\ HistoryOK

\* One approval lets at most one request through (pending_approvals.py:331,
\* issue #99), whatever gateways, operators, crashes and unlocked resets do.
SingleUse == \A i \in Ids : grants[i] <= 1

\* Without resets the file and the grants behave like the abstract lifecycle:
\* no interleaving resurrects a row, loses one, or uses one that no operator
\* approved.
Lifecycle == INSTANCE ApprovalLifecycle WITH status <- file, uses <- grants
ImplementsLifecycle == Lifecycle!Spec

\* A row is approved or used only while it has not expired at that moment,
\* however long a prompt or a scan took before (pending_approvals.py:301, 345).
ValidWhenMoved ==
    [][\A i \in Ids : file'[i] # file[i] /\ file'[i] \in {"APPROVED", "USED"}
                        => now < expiry[i]]_vars

\* The last change of every row is in the audit log, or some process still owes
\* the event, or the process that made it had no logger, or died or raised before
\* it was written ("Every state change is written to the audit log",
\* docs/architecture/pending_approvals.md:145).
AuditComplete ==
    \A i \in Ids : file[i] # "ABSENT" =>
        LET e == <<EventFor[file[i]], i>>
        IN \/ e \in recorded
           \/ \E p \in Procs : e \in todo[p]
           \/ i \in unlogged

\* The log never shows an approval used before it shows it approved, when the
\* approval needed no passphrase: phase 1 writes its event inside the lock.
ApprovedBeforeUsed ==
    \A i \in Ids : /\ <<"approval_used", i>> \in recorded
                   /\ reqOf[i] \notin Strong
                   => \A p \in Procs : <<"approval_approved", i>> \notin todo[p]

\* No human, and no audit append that ends, holds up the store: whoever has
\* the lock gives it back (the prompt runs with the lock released,
\* pending_approvals.py:227-233).
LockReturned == \A p \in Procs : lock = p ~> lock # p

\* The retry of an approved call is matched with its approval: a gateway that
\* reads an APPROVED row of its request goes on to consume it ("agent-sudo
\* matches the retried action against the approved pending request",
\* docs/architecture/pending_approvals.md), unless two gateways have asked for
\* the same request at once and the later row still waits for an answer.
Approved(g) == {i \in Ids : rows[g][i] = "APPROVED" /\ reqOf[i] = req[g]}

Hides(g, j, i) == /\ rows[g][j] = "PENDING" /\ reqOf[j] = req[g]
                  /\ i < j /\ maker[j] # maker[i]

RetryIsServed ==
    [][\A g \in Gateways :
          Find(g) /\ op'[g] # "consume"
          => \A i \in Approved(g) : \E j \in Ids : Hides(g, j, i)]_vars

\* What a completed passphrase reset cancelled stays cancelled.
ResetCancels == \A i \in cancelled : file[i] \notin Active
=============================================================================
