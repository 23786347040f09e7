# Agent_Sudo in TLA+

This directory specifies the core of Agent_Sudo (`src/agent_sudo/`): the file-backed stores
that decide whether an agent's action may run, and the log that proves afterwards what was
decided. The specifications are checked with TLC on small instances; the safety properties
that matter most are proved with TLAPS for every instance.

    tlc -workers 2 -config ApprovalsLocked.cfg MCPendingApprovals     # a model-checking run
    tlapm PendingApprovalsProofs.tla                                  # the proofs of one component

`PROJECT.json` lists the components, the runs, the hazards with the properties aimed at them,
the source lines behind every definition, and the theorems.

## 1. Inventory

Agent_Sudo has no daemon. Every MCP server, command-line call and approval helper is a process
of its own, and all of them meet in a few files under `~/.agent-sudo`. What is hard about the
system is therefore what several processes do to one file.

| Component (source) | State it keeps | Operations | What is hard | What makes it correct |
|---|---|---|---|---|
| file lock (`_locking.py`) | an advisory lock per store file; on Windows also a mutex per process and file | `file_lock` | timeouts racing releases, faults, dead holders; a Windows lock belongs to the process, not to the thread | mutual exclusion; no orphaned lock; every attempt ends |
| pending approvals (`pending_approvals.py`) | `pending_approvals.json`: requests with a status and an expiry | `create`, `list`, `find_matching`, `approve`, `deny`, `consume_matching` | concurrent retries, expiry persisted by readers, a human prompt in the middle of `approve`, audit events in a second file | one use per approval; the status only moves along the lifecycle; nothing is approved or used late; a change that is not logged was made without a logger or by a process that died; the retry finds its approval |
| delegations (`delegations.py`) | `delegations.json`: tokens with use counts | `create`, `revoke`, `authorize` | concurrent spending, decisions over many tokens at once | `max_uses` is a bound; revocation sticks; unrelated tokens do not matter; authority is only created |
| audit log (`audit.py`, `spec_helpers.py`) | `audit.jsonl`, a hash chain | `record`, `record_event`, verification | concurrent appends, torn writes, alterations | what was recorded stays provable; what verifies is complete |
| passphrase reset (`approvals.py`) | rewrites both stores and `config.json` | `init_approval_config` | takes no lock | what it cancelled stays cancelled |
| approval provider (`approvals.py`) | `approval_state.json`: failed attempts, lockout | `approve_sensitive`, `approve_critical` | unlocked read-modify-write of a file that is truncated before it is filled, with a human in between | guesses in a row are bounded; nobody is locked out who did not fail |
| gateway (`gateway.py`) | none of its own | `evaluate` | joins classification, policy, trust, delegations and approvals; spends authority before it records | the strictest rule wins; no ALLOW without authority; one audit record per decision |
| MCP server (`mcp_server.py`) | one message at a time | read, dispatch, `_wait_for_decision`, dispatch again, answer | the wait window ends while the approval is being granted; handlers that raise; nothing else is read during a wait | one answer per message, in order, true to what was done; at most one execution, never without ALLOW |
| MCP gateway, executors (`mcp_gateway.py`, `executors.py`) | none | execute after ALLOW | a tool that fails half-way | nothing runs without ALLOW or in a dry run |
| approval helper (`helper.py`) | ids it has asked about | rounds over the pending rows; closes itself in a window that the server opened | rows that change while the human thinks | it asks once about every request, and does not close on one that is waiting |
| classifier, policy, injection, models, adapters, builders | none (pure) | `normalize_tool_call`, `from_dict`, `classify`, `decision_for`, `reconcile_trust` | order of many rules | trust is never raised by a claim; no rule goes below the policy |
| configuration (`context.py`) | `config.json` | `save_config_workspace` | two unlocked writers of one file | the passphrase in force is the one chosen last |
| audit trace (`audit_trace.py`) | none | `build_trace` | entries written late, by other processes in another order, or never; reasons about several tokens; delegation chains that callers claim | it shows no use that was not counted, except those a call's delegation chain claims, and no cause that is not so |
| upgrade | none | git and pip | - | - |
| inventory, topology, routing check, doctor, notifications, branding, evaluation | none | reports, wording | - | - |

How they interact. The gateway evaluates a call: it classifies it, asks the delegation store to
`authorize` (which spends a use), then the pending-approval store (`find_matching`, then
`consume_matching`), and otherwise asks on its terminal or creates a pending approval; the
decision goes to the audit log. A human approves or denies from another process. The client
retries the call, or the MCP server waits by polling `list()`. Stores and log share nothing but
`file_lock`, each with its own lock file; an audit event is written inside or after the store's
section, never in the same atomic step.

An MCP server reads its next message only when it has answered the last one. When `create()` puts a
request into the store it may open a terminal with the helper, in which a human is asked about what
is pending; the server, other servers and other command lines move the same rows meanwhile. A
passphrase prompt, in whatever process, reads `config.json` and `approval_state.json`, which
`init-approval` and `workspace set` write as well, all of them without a lock.

## 2. Modules

| Module | Models | 
|---|---|
| `Mutex` | what `file_lock` promises: one process inside at a time |
| `FileLock` | how `file_lock` works on POSIX and on Windows; implements `Mutex` |
| `ApprovalLifecycle` | what the pending-approval store promises of each row, without processes, locks or files |
| `PendingApprovals` | the store, the gateways, operators and resets that share it; implements `ApprovalLifecycle` when every writer takes the lock |
| `Delegations` | the delegation store and its evaluation, gateways, managers and resets |
| `AuditLog` | the hash-chained log, its writers, and what happens to the file |
| `Classification` | how a call becomes a request, a class and a decision: functions, without state |
| `Gateway` | `evaluate` over both stores, the tool executions and the block-and-wait of the MCP server; uses approvals only as `ApprovalLifecycle` promises |
| `AuditTrail` | `Delegations` composed with the audit entries of its gateways and with what `audit trace` makes of them |
| `Passphrase` | the passphrase prompt with its lockout, and the two writers of `config.json` |
| `Tools` | what a tool does with an allowed call: functions, without state |
| `McpServer` | the message loop, over `Tools` |
| `Helper` | the helper's terminal |
| `Session` | composes `McpServer` and `Helper` over the approval requests |
| `MCFileLock`, `MCPendingApprovals`, `MCAuditTrail`, `MCAuditLog`, `MCGateway`, `MCPassphrase`, `MCSession` | instances for TLC: symmetry, requests, grants, calls, messages and setups |
| `FileLockProofs`, `PendingApprovalsProofs`, `DelegationsProofs`, `PassphraseProofs`, `GatewayProofs`, `AuditLogProofs`, `SessionProofs` | theorems and proofs |
| `WellOrder` | lemmas: the least and the greatest number of a set, and induction over its elements |

`FileLock` justifies the variable `lock` of the store modules: since the protocol implements the
abstract mutex, a `with file_lock(...)` block there is entered when `lock` is free and left by
freeing it, and a timeout, an exception or a death is one `Abort`. `AuditLog` justifies that
`PendingApprovals` keeps the log as a set of events: a record whose call has returned stays.

### FileLock

`pc` says where each thread's call is (`queued` for the mutex of its process, `trying` at the kernel
lock, `sleeping` in the poll interval, `body` at the `yield`, `unwinding` in the `finally`), `owner`
which call the kernel lock belongs to, `left` the ticks until each deadline; `win32` is the platform,
chosen once. One action per outcome of a loop iteration: `Acquire`, `Busy`, `GiveUp` (`LockTimeout`),
`Fault` (another `OSError`), `Wake`; then `LeaveBody`, `Unlock`. On POSIX the lock is the descriptor's.
On Windows it is the process's, so a call first takes the mutex that the threads of its process share
(`TakeMutex`, `MutexTimeout`), and a kernel lock of another thread of the same process would not be
busy. `Crash` is the death of a process with all its threads. At this commit `_locking.py` uses
`threading` (lines 69-70) without importing it; the model is of the module with that import.

### PendingApprovals

A method of the store is one or more critical sections. A process waits (`Acquire` takes the lock
and reads the file into `rows`), walks over the rows to expire stale ones (`Scan`, one row a step,
because the clock moves and each event is written as it goes; `EndScan` saves), and acts. The
action named after the method makes the decision, the save and the release in one step, as the
save is the last thing done there; where the code writes its event before the release (phase 1 of
`approve`) the lock is kept through `recording`. `approve` is `Approve` (phase 1), `Prompt`
without the lock, and `Apply` or `Attempt`. A gateway runs `_evaluate_pending_approval`: `Find`,
then `Consume`, or `Create` (whose times are taken before the lock). `ResetRead` and `ResetSave`
are the two unlocked halves of `init_approval_config`. `Abort` is a death, a `LockTimeout`, an
append that raises, or an I/O error before the rename; a save is atomic (`os.replace`).

Rows are numbered in the order they were created in. What never changes of a row (its request and
expiry) is kept beside the file, which is then the status of every row. Requests are compared by
fingerprint in the code and are model values here; `Strong` are those whose decision was
`REQUIRE_STRONG_APPROVAL`. `Audited` is the set of processes whose store has an audit logger: servers
and `agent-sudo approve --audit-log` have one, `agent-sudo pending` and `approvals list` have none
(`gateway.py:1222, 1233`), although their `list()` persists expiries like any other. The history
`unlogged` has the rows whose last change was made by a process without a logger or by one that died,
or raised, before it had written the event; `maker` is the gateway that created a row.

### Delegations

`Acquire` reads the file, `Authorize`, `Create` and `Revoke` save and release. `Verdict` is
`_evaluate` as a function of a list of tokens and a request: the tokens that concern the request
(`Applying`), those without any mismatch (`FullMatches`), and the five rules in their order. The
path patterns are abstracted to the targets they cover. A full match by one token wins over an
explicit denial by another; revoked and expired tokens that deny still deny.

### AuditLog

A physical line is the sequence of pieces written to it, so that a torn record, and a record
appended to a line that lost its newline, are both there. A record carries its predecessor's
digest and its own; a digest is the sequence of the bodies it covers, which is what an injective
hash gives. `Acquire` verifies the whole file, as `_last_entry_hash` does, or `Reject`s; `Write`
is complete, `Tear` is not; `Edit` and `Delete` are changes from outside that leave the hash
fields alone. Removing lines from the *end* cannot be noticed by a hash chain and is not claimed.

### Classification

`FromDict` and `Normalize` are the two ways a call becomes a request (`ActionRequest.from_dict`,
and the adapters with the builders they call); both end in `Reconcile`, except that `from_dict`
does not reconcile what the caller left out. `Classify` has the rules of `classifier.py` in their
order. A target is one of twelve kinds of target with the predicates that hold of it (a member of
each kind is named beside the definition); a hint is the set of hints it belongs to; whether a text
matches an injection pattern is a fact of the request. `Policy` is a constant: the class of each
action. The functions were compared with the running Python code, without a difference, on 11564
calls: each kind of target, hint, source, origin and trust, claimed or not, under three policies.

### Gateway

A call goes from `Arrive` through `Evaluate` (class, policy, dry run) to the delegations
(`Authorize`), the pending approvals (`Match`, `Consume`), the prompt (`Answer`) or a new row
(`HoldBack`), then to the audit record (`Record`) and, if allowed, to its execution (`Run`). In the
MCP server a held call waits (`Poll`, `WindowEnds`) and, once approved, is evaluated again. Each
method of a store is one step, which is what `PendingApprovals` and `Delegations` are there to
justify: rows follow `ApprovalLifecycle`, and the delegation store is one token that is usable,
exhausted or revoked. A result that raises, or a process that dies, anywhere, is `Fail`; it loses
what was spent. `Cases` says which calls are made and with which setup (stores, terminal, dry run,
waiting, adapter); `SetupType` has every setup that the command line, the library and the server
builder can make (`ServerSetups`: a server has the approval store and no terminal). The histories `granted`, `allowed` and `ran` count uses, recorded ALLOWs and
executions.

### AuditTrail

Every action is an action of `Delegations`, with the decision that `Evaluate` leaves to be recorded: a
gateway that was given a verdict owes an entry (`owed`), which it appends later (`RecordDecision`), or
never if it dies (`Lose`). `DecideAlone` is a decision that names no token by its reason, because the
policy settled it or the store's lock was not had. An entry is what the trace reads in it: the token of a
"delegated by" reason, the causes cited for each token of a "mismatched:" reason, the delegation chain
that the caller claims in the request's provenance (`Chains`; no decision reads it, and it spends
nothing), and whether the decision was ALLOW. `ObservedConsumes` and `InferredCauses` are `build_trace`'s counts and
causes. `disturbed` remembers that an unlocked reset overlapped with another update.

### Passphrase

`approve_critical` reads the configuration (`Load`), then the lockout (`CheckLock`, with its second
look at the clock), asks (`Right`, `Wrong`), reads the lockout again to count a failure (`Count`) and
writes it in two steps, `Truncate` and `Write`, since `write_text` truncates. `InitBegin`, `InitCancel`
and `SetBegin` are `init-approval` and `workspace set` up to their write of `config.json`, which has
the same two steps. Passphrases are numbered in the order they were chosen in, 0 is none. `raced`
remembers on which file windows overlapped, or a process died in one; `streak` counts the wrong
guesses since the last right one or the last expired lock.

### Tools, McpServer, Helper, Session

`Tools` says which allowed calls a tool refuses (a write outside the write root, or on `.git` or the
stores; a command that is not in the demo allowlist), how it can end and what it has done by then: a
failed write may have truncated the file, a command may have run although its output cannot be
decoded.

`McpServer` goes from `Read` through the evaluation (without delegations; the policy's answer is part
of the call) to the answer, one store method a step; a held call polls until it is decided or the
window elapses, and is dispatched once more. `Fail` is an exception anywhere, which is answered with
an error; a malformed line stops the server. `Helper` reads the list of a round, asks about one row
after another, calls the store, and in a window that was opened for one request closes when nothing
is left. `Session` gives both the same rows, lets `create()` open a terminal, and adds what other
command lines do: approve, refuse, let expire, create a request for the same call.

## 3. Runs

| Run | Instance | What it shows |
|---|---|---|
| `file_lock` | 2 threads of a process and 1 of another, either platform, deadline 2 ticks away | `MutualExclusion`, `NoOrphanedLock`, the refinement of `Mutex`, and that every attempt ends (`AttemptsEnd`) even if the holder never lets go |
| `approvals_locked` | 2 gateways, 2 operators, 2 rows of one strong request, deaths | the store implements `ApprovalLifecycle`; `ValidWhenMoved`; `RetryIsServed` |
| `approvals_reset` | 2 gateways, 1 operator, 1 reset, 2 rows, deaths | `SingleUse` even with an unlocked writer |
| `approvals_live` | 1 gateway and 1 operator with an audit logger, 1 operator without, 1 row of a strong or a plain request, deaths and appends that raise | `AuditComplete`, `ApprovedBeforeUsed`, `LockReturned` |
| `audit_trail` | 2 gateways, 1 manager, 1 reset, 2 tokens, 2 requests and 2 grants, callers that claim the first token in their chain, a log of 1 entry | `WithinMaxUses` and `UnrelatedIgnored` always; without an overlapping reset also `RevocationKept`, `AuthorityKept`, `UncountedAreClaimed`, `CausesHold` |
| `audit_chain` | 3 writers, 4 lines, torn writes, edits and deletions | `RecordedVerifies`, `VerifiedIsComplete` |
| `reset_race` | 1 gateway, 1 operator, 1 reset, 1 row | **violated** `ResetCancels` |
| `gateway_race` | 2 callers, 4 kinds of call, 2 rows, a token with 1 use, failures | `NothingRunsUnpaid`, `ApprovalFits`, and the use of approvals as `ApprovalLifecycle` promises |
| `gateway_calls` | 1 caller, 11 kinds of call and setup, 1 row, a token with 1 use, failures | `OutsideIsGated`, `DryRunSpendsNothing`, and that every call ends (`CallsEnd`) |
| `gateway_taint` | 1 caller, 4 kinds of call | **violated** `TaintNeverLowers` |
| `passphrase` | 2 prompts, 2 administrators, 2 failures lock | `GuessesBounded`, `LockIsEarned`, `LatestPassphrase` |
| `session` | 1 server with its client, 1 terminal, 2 messages of 7 kinds, 2 requests | `AnsweredInOrder`, `HonestAnswers`, `ApprovalServes`, `AskedOnce`, `ClosesWhenDecided`; every message ends (`MessagesEnd`) and what stays pending is asked about (`PendingIsAsked`) |

The two violations are places where the code does less than the repository says:

* `reset_race`: `init-approval` says it cancels all active approvals, but reads and saves the store
  without the lock (`approvals.py:204-227`). A locked writer that read before and saves after
  brings a cancelled row back. The tokens of `delegations.json` are treated the same way
  (`approvals.py:186-202`), which is why `RevocationKept` and `AuthorityKept` except a reset that
  overlapped with another update (`disturbed`).
* `gateway_taint`: the rules for external origin and for untrusted trust come before the rule for
  critical hints, and the first that applies wins (`classifier.py:142-165`). `send_message` with the
  hint `money` is CRITICAL when the user asks for it and SENSITIVE when external content does. What
  does hold, for every policy, is that no rule goes below the class of the action itself
  (`PolicyIsAFloor`).

More was met on the way and has no run of its own:

* `find_matching` takes the newest active row (`pending_approvals.py:212`). Two gateways that both
  created a row hide the approved older one from the retry. `RetryIsServed` says that this is the only
  case: what hides an approved row is PENDING, newer, and another gateway's.
* "Every state change is written to the audit log when an audit log is configured"
  (`docs/architecture/pending_approvals.md:145`) is not so. `agent-sudo pending` and `approvals list`
  build their store without a logger (`gateway.py:1222, 1233`), `agent-sudo run` builds one without
  although it has an audit log (`gateway.py:1414-1420`), and `approve`, `deny` and the helper have one
  only when they are given `--audit-log` (`gateway.py:1246, 1273`, `helper.py:74`): the expiries,
  creations, uses and decisions that these save are in no log. And the save comes before the event, so a
  process that dies between them, or whose append raises, leaves a change that is never logged.
  `AuditComplete` says that there is no other way: it names the process of every change that is missing.
* `audit trace` counts an ALLOW as a use of every token in the delegation chain that the caller claims,
  and prints it as "delegated by this token" (`audit_trace.py:177, 269`), though such a call may rest on
  another token, on the policy or on an approval, and the store counted nothing. The documentation warns
  that the counts are not exact (`docs/command_reference.md:225-226`). `UncountedAreClaimed` says that
  claims are the only excess.
* A row is compared after `from_dict` has reconciled its trust again (`models.py:144`). A request
  that was never reconciled, because no trust was claimed or because it was built in the process,
  changes its fingerprint on the way through the file; its own retry does not find its approval and is
  held again. `Reload` in `Gateway` models it; `ReconcileIsStable` shows that it cannot happen to a
  reconciled request. A call that claims the lower trust itself does find that approval, and it may be
  of another class: the critical hint of the unreconciled request took the passphrase, and the hint
  does not count for the claimed one (`Unclaimed` and `Claimed` in `MCGateway`). So an approval need not
  be of the kind the call requires; what `ApprovalFits` says, and `ReadBackAsksNoMore` shows of the
  classification for every policy, is that it never asked the human less.
* A torn write that lost only its newline passes verification, and the next record lands on the same
  line; then neither can be parsed (`audit.py:66`; `CHANGELOG.md:56` and `tests/test_concurrency.py:10`
  promise a log that stays valid): `RecordedVerifies` fails when `Torn` of `audit_chain` includes
  `"bare"`, and holds for every other torn tail.
* `init-approval` rewrites `config.json` without the `workspace` key (`approvals.py:244-247`), although
  `README.md:230` says the workspace is kept. `workspace set` on its own creates a configuration
  without a passphrase, against which every guess is wrong and counts. A `config.json` that a dying
  writer left truncated makes `approve_critical` raise until `init-approval` is run again.
* A prompt that was open during a reset still accepts the old passphrase, as it compares with the
  configuration it read before it asked (`approvals.py:71-87`).
* Two gateways that hold the same call: the newer PENDING request hides the approved older one from
  the second dispatch, and the call is held again (`mcp_server.py:176-181`;
  `docs/architecture/pending_approvals.md:137` promises the result). `ApprovalServes` says what
  does hold: an approval that is still there serves unless another process holds the same call.
* The terminal that `create()` opens is started without `--audit-log` (`notifications.py:88`), so its
  decisions are not in the log that `docs/architecture/pending_approvals.md:143` describes. The helper
  prints "denied" whatever `deny` found.
* The server answers notifications other than `initialized` with an error (`mcp_server.py:137,148`), and
  still answers `approval_required` when the request was denied. Command output that is not UTF-8 is
  answered with an internal error after the command ran; `HonestAnswers` excepts errors for that reason.
* The audit trace does not recognise explicit denials by a token (`audit_trace.py:5`), and takes an
  approved request whose token lacks the critical flag as a denial.
* The shell executor of `agent-sudo run` has an empty allowlist and runs nothing.

Some hazards really bite, and then the property excepts the case and shows that there is no other. They are
noted under "hazards": a reset that overlaps a locked writer (`disturbed`, in what is said of tokens), torn
writes that lose only a newline (`"bare"`), prompts and configuration writers whose windows overlap
(`raced`), a newer request of another gateway (`RetryIsServed`, `ApprovalServes`), processes without a logger
(`unlogged`), claimed chains (`ClaimedUses`), and answers that are errors (`HonestAnswers`).

Bounds, all of them constants of the modules. `MaxId` and `MaxToken`: two rows or tokens, so that
one can shadow, clobber or outlive another; a call that would go past the bound is given up.
`MaxTime`, `Ttl`: the clock reaches an expiry, exactly and past it. `MaxLines`: a genesis record,
an altered one, a torn one and what comes after. `Timeout`: a waiter can sleep, be overtaken, and
run out. Two gateways are what a double use takes; a third adds no new pair. `approvals_live` has one row,
for its properties speak of one row each, with processes that change it with and without a logger. `approvals_reset` looks at
states without the histories `unlogged` and `maker` (`WithoutTelling`), which no step and not `SingleUse` reads.
In `gateway_race` two callers compete for the rows and the last use of the token; in `gateway_calls` one caller is enough, because
another caller can do nothing to its row or token that ends a wait or an evaluation otherwise than a
refusal or a revocation does. `audit_trail` lets at most two processes be busy at a time (`TwoBusy`), which
is what every race of the store takes, and follows only the store after a reset has overlapped with another
update, because what is said of the log is not said of that case. `passphrase` explores many guesses
with one passphrase and two passphrases with one guess (`ManyOfOneKind`): the two files meet only in the
configuration a prompt was opened with; two prompts and two failures per lock are the least for which a count can be lost.
`session` has two messages, so that one can follow the other, and two requests, so that one can hide,
outlive or follow the other. Gateways, writers, callers, prompts and bodies are symmetric; runs that
check liveness use no symmetry. The theorems of section 4 have no bounds.

Deadlock is checked in every run but `passphrase`, whose clock, guesses and passphrases run out;
elsewhere there is always another call to make.

Fairness. `FileLock`: a running process executes its next statement, and time passes; nothing is
assumed of the body. `PendingApprovals`: a process *inside* a section keeps running and its audit
append ends; nothing is assumed of humans (`Prompt`), of callers, or of who gets the lock next,
because `flock` with polling is not fair to waiters. No property says that a waiter gets in.
`Gateway`: a call that has begun keeps running and its clock advances (`mcp_server.py:257-269` sleeps
for at most the rest of the window); nothing is assumed of the human, so `CallsEnd` excludes a prompt
on a terminal. `Session`: a server goes on with the message in hand and its wait window elapses, and a
human who has opened a terminal, or for whom one was opened, answers its questions (`WF` of `Help`);
nothing is assumed of clients, of other command lines, or of a terminal being opened at all, so
`MessagesEnd` does not rest on the human deciding.

## 4. Proofs

| Theorem | States | Argument |
|---|---|---|
| `FileLockProofs!TypeCorrect`, `Exclusion`, `NeverOrphaned` | `[]TypeOK`, `[]MutualExclusion`, `[]NoOrphanedLock` | a process is in the body only while it owns the lock, and an owner is in the body or unwinding; inductive once joined with the type invariant |
| `FileLockProofs!Refinement` | `Spec => Mutex!Spec` | entering the body is `Enter`, leaving it or dying in it is `Leave`, everything else stutters |
| `PendingApprovalsProofs!TypeCorrect` | `[]TypeOK` | one step per action |
| `PendingApprovalsProofs!AtMostOneUse` | `[]SingleUse` | see below |
| `PendingApprovalsProofs!UseReportedLast` | `[]ApprovedBeforeUsed` | see below |
| `PendingApprovalsProofs!Refinement` | `ApprovalLifecycle!Spec`, without resets | see below |
| `PendingApprovalsProofs!MovedWhileValid` | `ValidWhenMoved`, without resets | every save tests what the file says at that step |
| `PendingApprovalsProofs!ChangesAreTold` | `[]AuditComplete`, without resets | see below |
| `PendingApprovalsProofs!RetriesAreServed` | `RetryIsServed` | see below |
| `DelegationsProofs!TypeCorrect` | `[]TypeOK` | one step per action |
| `DelegationsProofs!UsesBounded` | `[]WithinMaxUses` | see below |
| `DelegationsProofs!UnrelatedNeverMatter` | `[]UnrelatedIgnored` | each of the five rules looks at applying tokens only |
| `DelegationsProofs!TrailUsesStore` | `TrailSpec => Spec` | each step of the composition is a step of the store or leaves it alone |
| `DelegationsProofs!TrailTypeCorrect`, `TrailUsesBounded` | `[]TrailOK`, `[]WithinMaxUses` | from the theorems of the store |
| `DelegationsProofs!RevocationIsForGood`, `AuthorityIsCreated` | `[]RevocationKept`, `AuthorityKept` | see below |
| `DelegationsProofs!ObservedUsesAreCounted`, `InferredCausesHold` | `[]UncountedAreClaimed`, `[]CausesHold` | see below |
| `PassphraseProofs!TypeCorrect` | `[]TypeOK` | one step per action |
| `PassphraseProofs!GuessesAreBounded` | `[]GuessesBounded` | see below |
| `PassphraseProofs!LockoutsAreEarned` | `[]LockIsEarned` | see below |
| `PassphraseProofs!LatestIsInForce` | `[]LatestPassphrase` | see below |
| `GatewayProofs!TrustIsCapped`, `ReconcileIsStable` | properties of `Reconcile` | by cases on whether the claim exceeds the evidence |
| `GatewayProofs!PolicyIsAFloor`, `UntrustedIsNeverSafe` | properties of `Classify` | by cases on the rules |
| `GatewayProofs!TypeCorrect` | `[]TypeOK` | one step per action |
| `GatewayProofs!OutsideAlwaysGated` | `[]OutsideIsGated` | see below |
| `GatewayProofs!ReadBackAsksNoMore` | what a saved request asks and requires once it is read back | by cases on the rules |
| `GatewayProofs!ApprovalsFit` | `[]ApprovalFits` | see below |
| `GatewayProofs!DryRunsSpendNothing` | `DryRunSpendsNothing` | a dry run goes from its evaluation to its record, and reaches neither the stores nor the execution (`DryOf`) |
| `GatewayProofs!NeverUnpaid` | `[]NothingRunsUnpaid` | see below |
| `GatewayProofs!Refinement` | `Spec => ApprovalLifecycle!Spec` | each action moves at most one row, along an edge of the lifecycle |
| `AuditLogProofs!TypeCorrect` | `[]TypeOK` | one step per action |
| `AuditLogProofs!EvidenceIsDurable` | `[]RecordedVerifies`, if `"bare" \notin Torn` | see below |
| `AuditLogProofs!TamperEvident` | `[]VerifiedIsComplete` | see below |
| `SessionProofs!TypeCorrect` | `[]TypeOK` | one step per action of the server, the terminal and the others |
| `SessionProofs!AnswersKeepOrder`, `AnswersAreHonest` | `[]AnsweredInOrder`, `[]HonestAnswers` | see below |
| `SessionProofs!AsksOnce`, `WindowsCloseWhenDecided` | `[]AskedOnce`, `[]ClosesWhenDecided` | see below |
| `SessionProofs!ApprovalsServe` | `[]ApprovalServes` | see below |

The theorems hold for any sets of processes and requests, any bounds, any processes with or without an
audit logger, with or without deaths, and with any number of unlocked resets, except where the table says otherwise. They rest only on the named `ASSUME`s of the
modules: roles are disjoint, `None` is nobody, bounds are natural numbers, a terminal runs in a mode
that the helper has (`ModesAssumption`), and, where processes are counted, gateways, prompts and
callers are finitely many.

*One use.* `SingleUse` is not inductive: it says nothing of what a process that read the file
earlier will write. `UseInv` adds that the process with the lock is the only one in a section
(`LockInv`), that a row which has been used is neither PENDING nor APPROVED in the file
(`FileInv`), nor in the copy of the process in its section (`RowsInv`), and that a row is used at
most once (`GrantInv`). The reset takes part without the lock because everything it writes is
inactive: DENIED for the rows it read as active, and what it copies unchanged is neither PENDING
nor APPROVED.

*The lifecycle.* An unlocked reset writes a stale list back, so the store implements
`ApprovalLifecycle` only without resets (hypothesis `Resetters = {}`). Then what a process in its section
has read is the file, but for the rows that its scan has marked and is about to save as expired
(`Fresh`), and rows that were not created yet are absent (`AbsentInv`). So each save moves rows from what
the *file* says along an edge of the lifecycle.

*The events.* `AuditInv` is `AuditComplete` (`Accounted`) with two facts more: only a process that records
owes events (`Quiet`), so that no step drops one, and the scan of a process with a logger has reported each
row it has marked before it saves any (`Reported`). A save by a process without a logger accounts for its
rows through `unlogged`, and so does a process that dies for what it still owes. A reset writes an older list
back without an event for what it undoes: hence the hypothesis `Resetters = {}`. *Their order* does not need
it: an approval that took no passphrase is owed only by a process that still has the lock, and has not been
used (`Held`), a use that is recorded or owed has been counted, and a row approved after a prompt is strong
(`Asked`).

*Retries.* `find_matching` takes the newest active row, so an approved row is found unless its request has a
newer active one, and that cannot be another one of the same gateway. `RetryInv` says so of the file and of
the list that a process in its section has read (`Single`: of each request, at most one active row by each
gateway). What such a process has read misses no row that is active in the file, but for those it is about to
save as expired (`Seen`), so a gateway that found none is right, and stays right about its own rows until it
creates one (`Creating`, `Free`), since nobody else creates a row for it. Resets and deaths do not disturb
this: they make nothing active.

*Bounded uses.* The count in the file may be wrong after a reset wrote back an older one. `UseInv`
of the delegations says that the count of a row is the number of its uses *unless the row is
revoked* (`Counts`), in the file and in the copy the holder of the lock will save. A stale
count is written back only together with `revoked`, and a revoked token does not match.

*Revocation and authority.* While no reset has overlapped with another update (`Settled`), the copy of
the process in its section is the file (`Fresh`) and the file holds exactly the created tokens
(`Present`). So from one step to the next time, uses and revocations only grow and what a token
grants is fixed (`Progress`), which keeps revoked tokens revoked and makes a request that is not
allowed stay so: a token that did not match in full does not match later.

*The trace.* An observed use names the token by its reason, or is an allowed call that only claims it. Those
of the first kind are entries in the log or owed by a gateway; a use is counted in the step that makes the
gateway owe its entry, so their sum is below the count (`Told`, `Owing`), and the others are what the
property lets be (`ObservedIsToldOrClaimed`). A
cause is true when its entry is made (`Truth`), and by `Progress` stays true.

*Guesses.* `GuessesBounded` speaks of a history, the guesses in a row. While windows on the lockout
file do not overlap, one counter is in force: the one that the process in its window is about to write,
or the file (`CountInv`). If it does not lock, it has counted every guess but those of prompts that
are about to count theirs; if it does, no more guesses can come than prompts are open (`Balanced`).

*Earned locks.* Copies of the counter go stale, and files are lost, but whatever any copy says is at
most the number of wrong guesses that have been counted (`Justified`): a lost update loses guesses, it
never invents them.

*Passphrase.* While the writers of `config.json` do not overlap, at most one is in its window (`Solo`),
so what `workspace set` read is still in force when it writes (`ConfigInv`).

*Gating.* `OutsideIsGated` speaks of calls that have their decision. `GateInv` adds what the steps
before established: a call is in the stores only if an approval is required, at the prompt as
external content only past the delegations (`PathOf`), a saved row was held (`RowInv`), and an ALLOW
that rests on the policy alone is what the policy requires (`AllowOf`). The rest is the
classification: a reconciled call from outside keeps no trust (`TrustIsCapped`), so it is not SAFE.

*Payment.* `NothingRunsUnpaid` compares counters that are increased in different steps. `PayInv` adds
the calls in between: a use of a token or a row covers the recorded ALLOWs and the calls about to
record one, and these cover the executions and the calls about to execute (`Covered`). A step moves
one call from one of these sets to the next; a failure only takes it out. Callers must be finitely
many (`CallsAssumption`) for the sets to have a cardinality. `OnceInv` says that a row which has
been used is not active.

*Fitting approvals.* A row is what its request was held for (`RowFits`), and a held request asks the human
no less than the request that is read back requires (`ReadBackAsksNoMore`), which is the one that a call
with the same fingerprint makes.

*Durable evidence.* While nobody alters the file, `ChainInv` says that a writer between its verification
and its write still sees the log it verified, with the digest it will link to; that a writer about to
return has a provable entry; and that a log that verifies ends in a newline. The last is where a torn
write that loses only its newline matters: it leaves a log that verifies, whose last line the next record
spoils. So the theorem has the hypothesis `"bare" \notin Torn`, without which TLC refutes the property; any
other torn tail, and any race or death, is covered.

*Tamper evidence.* Here the file may be edited and lines before the last removed, and nothing is assumed
of `Torn`. `DigestInv` does not follow the lines but the digest: the last line, while it is a record,
covers the digest of everything recorded (`Covers`), and so does the digest that a writer is about to
link. A log that verifies computes that digest from its own lines, so by induction over them
(`WellOrder`, whose induction is over a set of numbers, not over an operator) it has every recorded entry.

*Answers in order, and honest.* The message in hand wants an answer and is younger than every message
answered (`OrderInv`), so the answer that is written next keeps the order. Only the step that runs the
tool has an effect, and it goes on to the answer (`Honest`).

*The terminal.* What was asked about has been processed or is being processed, and nothing else on the
list has been (`Terminal`); so what comes up next was not asked about. A listed row stays in the store, and
one that was decided does not become PENDING again (`RowsMove`); so once a window is to close, nothing on
its list or among what it asked about is open, and stays so.

*Served approvals.* `Latest` says that the row a server waits for is the newest active one that this server
has made for its call. It lasts through the wait, because the server makes no other row meanwhile, and until the
second dispatch looks for the row. If that finds nothing, or another row first, then the awaited row is
not APPROVED any more or another process holds the call (`Excused`), and both stay so (`Served`).

TLC checked every strengthened invariant on small instances before it was proved. One attempt failed for
a good reason: that an approval is of the very kind its call requires is false of the code (section 3),
and `ApprovalFits` now says what holds.

Only model-checked: the liveness properties (`AttemptsEnd`, `LockReturned`, `CallsEnd`, `MessagesEnd`,
`PendingIsAsked`), which are beyond the prover, and of course the two violations.

## 5. Left out, and why

* Formatting, parsing, wording, desktop notifications and the command lines of terminals: no property
  depends on them.
* Files that are not valid JSON: stores raise or deny before they act; `os.replace` keeps the
  program itself from producing them.
* `authorize(consume=False)`, which nothing in the source calls, and `delegation_status`.
* Of `Session`: delegations (they are in `Gateway`), the contents of messages, and that the wait window
  is cut to the request's time to live.
* Of the audit trace: `status_of`, `resolve_token` and the events of resets. `status_of` shows a token without uses as active and compares with `<` where the store
  compares with `<=`; nothing rests on it.
* `approve_sensitive` and the yes/no prompts keep no state: they are a free choice where they are called.
* Upgrade, inventory, topology, routing check, doctor, branding, evaluation and validation: tools around
  the core that share no state with it, read other programs' files, or drive the gateway with canned calls.
* Fingerprints, path patterns and SHA-256 are abstracted as said above.

## 6. What could come next

1. The viewer and the request-binding check of `audit.py`, as functions over the entries of `AuditLog`.
2. A property of the retry whose fingerprint changes on the way through the file (section 3 has what is
   known of it).
3. Delegations in `Session`, so that one composition has all the stores.
4. Proofs: that `Session` uses its rows as `ApprovalLifecycle` promises.
