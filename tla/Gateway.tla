------------------------------ MODULE Gateway ------------------------------
(***************************************************************************)
(* The permission gateway of agent_sudo/gateway.py with its callers: the   *)
(* tool calls of MCP servers and command lines, each evaluated by a        *)
(* gateway of its own over the shared stores, executed when allowed, and,  *)
(* when an MCP server waits for the approval (agent_sudo/mcp_server.py),   *)
(* polled and dispatched a second time.                                    *)
(*                                                                         *)
(* What one call does is module Classification.  Here a store method is    *)
(* one step, which the modules PendingApprovals and Delegations justify:   *)
(* the rows follow ApprovalLifecycle (checked below), and the delegation   *)
(* store is one token that is usable, exhausted or revoked.  A method that *)
(* raises, or a process that dies, is Fail.                                *)
(***************************************************************************)
EXTENDS Classification

CONSTANTS Calls,          \* callers, each with one call at a time
          Cases,          \* the calls they make, and their gateways' setups
          TokenActions,   \* the actions the token allows
          TokenCritical,  \* whether it has the critical flag
          MaxUses,        \* its max_uses
          MaxRow,         \* bound on the approval requests ever created
          Failures        \* whether calls may fail half-way

Rows == 1..MaxRow

\* delegations, pending: the stores the gateway has; tty: its provider can ask
\* the human; dry: dry_run; waits: interactive_approvals of the MCP server;
\* adapter: the call is normalized by an adapter, not read by from_dict.
Setups == [delegations : BOOLEAN, pending : BOOLEAN, tty : BOOLEAN,
           dry : BOOLEAN, waits : BOOLEAN, adapter : BOOLEAN]

\* An MCP server always has the approval store; its standard input carries the
\* messages, so it cannot ask there.  Everybody else builds a gateway at will,
\* but does not wait.
ServerSetups == {s \in Setups : s.pending /\ s.adapter /\ ~s.tty /\ ~s.dry}
SetupType == ServerSetups \cup {s \in Setups : ~s.waits}

ASSUME CasesAssumption == /\ Cases \subseteq [input : ToolCall, setup : SetupType]
                          /\ Cases # {}
ASSUME CallsAssumption == IsFiniteSet(Calls)
ASSUME TokenAssumption == /\ TokenActions \subseteq Actions
                          /\ TokenCritical \in BOOLEAN
                          /\ MaxUses \in Nat
ASSUME BoundAssumption == MaxRow \in Nat \ {0} /\ Failures \in BOOLEAN

VARIABLES pc,        \* where each call is
          case,      \* the call itself and the gateway that evaluates it
          decision,  \* the decision it is about to record or act on
          via,       \* what an ALLOW rests on
          ticket,    \* the approval request the result names, 0 for none
          again,     \* whether this is the second dispatch
          late,      \* whether the wait window has elapsed
          status,    \* the status of each approval request
          request,   \* the request it was created for, as saved
          needed,    \* and the decision that was required then
          nextRow,   \* the next approval request
          uses,      \* uses of the token
          revoked,   \* whether the token is revoked (or expired)
          allowed,   \* history: ALLOWs recorded, by what they rest on
          ran,       \* history: executions, by what they rest on
          granted    \* history: uses of each approval request

call == <<pc, case, decision, via, ticket, again, late>>
approvals == <<status, request, needed, nextRow, granted>>
token == <<uses, revoked>>
history == <<allowed, ran>>
vars == <<call, approvals, token, history>>

Phases == {"idle", "evaluating", "authorizing", "matching", "consuming",
           "prompting", "recording", "running", "waiting"}
Status == {"ABSENT", "PENDING", "APPROVED", "DENIED", "USED", "EXPIRED"}
Held == {"REQUIRE_APPROVAL", "REQUIRE_STRONG_APPROVAL"}
Decisions == Held \cup {"ALLOW", "DENY"}

\* What an ALLOW rests on: the policy, a prompt, the token, or a row.
Bases == {<<"policy", 0>>, <<"prompt", 0>>, <<"token", 0>>}
         \cup ({"row"} \X Rows)
Spendable == {<<"token", 0>>} \cup ({"row"} \X Rows)

ACase == CHOOSE k \in Cases : TRUE
NoRequest == FromDict(ACase.input)

Init == /\ pc = [c \in Calls |-> "idle"]
        /\ case = [c \in Calls |-> ACase]
        /\ decision = [c \in Calls |-> "DENY"]
        /\ via = [c \in Calls |-> <<"policy", 0>>]
        /\ ticket = [c \in Calls |-> 0]
        /\ again = [c \in Calls |-> FALSE]
        /\ late = [c \in Calls |-> FALSE]
        /\ status = [i \in Rows |-> "ABSENT"]
        /\ request = [i \in Rows |-> NoRequest]
        /\ needed = [i \in Rows |-> "DENY"]
        /\ nextRow = 1
        /\ uses = 0
        /\ revoked = FALSE
        /\ allowed = [b \in Spendable |-> 0]
        /\ ran = [b \in Spendable |-> 0]
        /\ granted = [i \in Rows |-> 0]

-----------------------------------------------------------------------------
\* A call and its request.

RequestOf(c) == IF case[c].setup.adapter THEN Normalize(case[c].input) ELSE FromDict(case[c].input)

Required(c) == DecisionFor[Classify(RequestOf(c))]

Goto(c, phase) == pc' = [pc EXCEPT ![c] = phase]

\* The evaluation has its result, and records it next.
Settle(c, result, base, row) ==
    /\ Goto(c, "recording")
    /\ decision' = [decision EXCEPT ![c] = result]
    /\ via' = [via EXCEPT ![c] = base]
    /\ ticket' = [ticket EXCEPT ![c] = row]
    /\ UNCHANGED <<case, again, late>>

Deny(c, row) == Settle(c, "DENY", <<"policy", 0>>, row)

\* The call is over, and its variables are what they were in Init.
Return(c) == /\ Goto(c, "idle")
             /\ case' = [case EXCEPT ![c] = ACase]
             /\ decision' = [decision EXCEPT ![c] = "DENY"]
             /\ via' = [via EXCEPT ![c] = <<"policy", 0>>]
             /\ ticket' = [ticket EXCEPT ![c] = 0]
             /\ again' = [again EXCEPT ![c] = FALSE]
             /\ late' = [late EXCEPT ![c] = FALSE]

Stay == UNCHANGED <<case, decision, via, ticket, again, late>>

Arrive(c, k) == /\ pc[c] = "idle"
                /\ Goto(c, "evaluating")
                /\ case' = [case EXCEPT ![c] = k]
                /\ UNCHANGED <<decision, via, ticket, again, late, approvals,
                               token, history>>

-----------------------------------------------------------------------------
\* PermissionGateway.evaluate.

\* Mutant of SkipsApproval: a dry run goes on to the stores.
NeverSkips(c) == FALSE

\* A dry run stops at a decision that needs an approval.
SkipsApproval(c) == case[c].setup.dry

\* Classification and policy decide, or say where to go for an approval.
Evaluate(c) ==
    LET needsApproval == Required(c) \in Held
        asks == needsApproval /\ ~SkipsApproval(c)
    IN /\ pc[c] = "evaluating"
       /\ \/ /\ ~asks
             /\ Settle(c, Required(c), <<"policy", 0>>, 0)
          \/ /\ asks /\ case[c].setup.delegations
             /\ Goto(c, "authorizing") /\ Stay
          \/ /\ asks /\ ~case[c].setup.delegations /\ case[c].setup.pending
             /\ Goto(c, "matching") /\ Stay
          \/ /\ asks /\ ~case[c].setup.delegations /\ ~case[c].setup.pending
             /\ IF External(RequestOf(c)) THEN Deny(c, 0)
                ELSE Goto(c, "prompting") /\ Stay
       /\ UNCHANGED <<approvals, token, history>>

\* DelegationStore.authorize, with one token.
Concerns(c) == RequestOf(c).action \in TokenActions

\* Mutant of TokenUsable: one use too many.
TokenUsableLate == ~revoked /\ uses <= MaxUses

TokenUsable == ~revoked /\ uses < MaxUses
LacksFlag(c) == Classify(RequestOf(c)) = "CRITICAL" /\ ~TokenCritical

\* True allows and pays with a use, False (also when the lock times out)
\* denies, None goes on to the approvals.
Authorize(c) ==
    /\ pc[c] = "authorizing"
    /\ \/ /\ Concerns(c) /\ TokenUsable /\ ~LacksFlag(c)
          /\ uses' = uses + 1
          /\ Settle(c, "ALLOW", <<"token", 0>>, 0)
       \/ /\ (Concerns(c) /\ ~TokenUsable) \/ Failures
          /\ Deny(c, 0)
          /\ UNCHANGED uses
       \/ /\ ~Concerns(c) \/ (TokenUsable /\ LacksFlag(c))
          /\ Goto(c, IF case[c].setup.pending THEN "matching" ELSE "prompting")
          /\ Stay
          /\ UNCHANGED uses
    /\ UNCHANGED <<approvals, revoked, history>>

\* A row is read back with from_dict, which reconciles its trust again.
Reload(q) == Reconcile(q)

\* Mutant of Matching: the fingerprint is what is done, and to what.
MatchingDeed(c) == {i \in Rows : /\ status[i] \in {"PENDING", "APPROVED"}
                                 /\ request[i].action = RequestOf(c).action
                                 /\ request[i].target = RequestOf(c).target}

\* The active rows with the fingerprint of the call's request.
Matching(c) == {i \in Rows : /\ status[i] \in {"PENDING", "APPROVED"}
                             /\ Reload(request[i]) = RequestOf(c)}

Newest(i, rows) == i \in rows /\ \A j \in rows : j <= i
Oldest(i, rows) == i \in rows /\ \A j \in rows : i <= j

\* find_matching, and what follows when nothing matches.
Match(c) ==
    /\ pc[c] = "matching"
    /\ \/ \E i \in Rows :
             /\ Newest(i, Matching(c)) /\ status[i] = "PENDING"
             /\ Settle(c, needed[i], <<"policy", 0>>, i)
       \/ \E i \in Rows :
             /\ Newest(i, Matching(c)) /\ status[i] = "APPROVED"
             /\ Goto(c, "consuming")
             /\ ticket' = [ticket EXCEPT ![c] = i]
             /\ UNCHANGED <<case, decision, via, again, late>>
       \/ /\ Matching(c) = {}
          /\ IF External(RequestOf(c)) /\ ~case[c].setup.delegations THEN Deny(c, 0)
             ELSE Goto(c, "prompting") /\ Stay
    /\ UNCHANGED <<approvals, token, history>>

\* Mutant of Consumable: the row that find_matching returned is taken.
FoundBefore(c) == {ticket[c]}

Consumable(c) == {i \in Matching(c) : status[i] = "APPROVED"}

\* consume_matching takes the oldest approved row; when there is none any more
\* the call is denied.
Consume(c) ==
    /\ pc[c] = "consuming"
    /\ \/ \E i \in Rows :
             /\ Oldest(i, Consumable(c))
             /\ status' = [status EXCEPT ![i] = "USED"]
             /\ granted' = [granted EXCEPT ![i] = @ + 1]
             /\ Settle(c, "ALLOW", <<"row", i>>, i)
       \/ /\ Consumable(c) = {}
          /\ Deny(c, ticket[c])
          /\ UNCHANGED <<status, granted>>
    /\ UNCHANGED <<request, needed, nextRow, token, history>>

\* Without a terminal the approval stays pending: a row is created, if there
\* is a store.  Past the bound on rows the call is given up.
HoldBack(c) ==
    /\ pc[c] = "prompting" /\ ~case[c].setup.tty
    /\ \/ /\ case[c].setup.pending /\ nextRow \in Rows
          /\ status' = [status EXCEPT ![nextRow] = "PENDING"]
          /\ request' = [request EXCEPT ![nextRow] = RequestOf(c)]
          /\ needed' = [needed EXCEPT ![nextRow] = Required(c)]
          /\ nextRow' = nextRow + 1
          /\ Settle(c, Required(c), <<"policy", 0>>, nextRow)
       \/ /\ case[c].setup.pending /\ nextRow \notin Rows
          /\ Return(c)
          /\ UNCHANGED <<status, request, needed, nextRow>>
       \/ /\ ~case[c].setup.pending
          /\ Settle(c, Required(c), <<"policy", 0>>, 0)
          /\ UNCHANGED <<status, request, needed, nextRow>>
    /\ UNCHANGED <<granted, token, history>>

\* The human answers on the terminal: yes, the passphrase, or anything else.
Answer(c) == /\ pc[c] = "prompting" /\ case[c].setup.tty
             /\ Settle(c, "ALLOW", <<"prompt", 0>>, 0) \/ Deny(c, 0)
             /\ UNCHANGED <<approvals, token, history>>

\* _call_tool waits after its first dispatch only.
MayWait(c) == case[c].setup.waits /\ ~again[c]

\* audit_logger.record; then the caller acts on the decision.
Record(c) ==
    /\ pc[c] = "recording"
    /\ allowed' = IF decision[c] = "ALLOW" /\ via[c] \in Spendable
                  THEN [allowed EXCEPT ![via[c]] = @ + 1] ELSE allowed
    /\ \/ /\ decision[c] = "ALLOW" /\ ~case[c].setup.dry
          /\ Goto(c, "running") /\ Stay
       \/ /\ decision[c] \in Held /\ ticket[c] # 0 /\ MayWait(c)
          /\ Goto(c, "waiting") /\ Stay
       \/ /\ \/ decision[c] = "DENY" \/ case[c].setup.dry
             \/ decision[c] \in Held /\ ~(ticket[c] # 0 /\ MayWait(c))
          /\ Return(c)
    /\ UNCHANGED <<approvals, token, ran>>

-----------------------------------------------------------------------------
\* The callers: MCPGateway.dispatch, SafeToolExecutor, and the MCP server.

\* The tool runs.
Run(c) == /\ pc[c] = "running"
          /\ ran' = IF via[c] \in Spendable THEN [ran EXCEPT ![via[c]] = @ + 1]
                    ELSE ran
          /\ Return(c)
          /\ UNCHANGED <<approvals, token, allowed>>

\* One round of _wait_for_decision that ends the wait: the status is looked at
\* before the clock, so an approval in the last moment still counts.
Poll(c) ==
    /\ pc[c] = "waiting"
    /\ \/ /\ status[ticket[c]] = "APPROVED"
          /\ Goto(c, "evaluating")
          /\ again' = [again EXCEPT ![c] = TRUE]
          /\ ticket' = [ticket EXCEPT ![c] = 0]
          /\ late' = [late EXCEPT ![c] = FALSE]
          /\ decision' = [decision EXCEPT ![c] = "DENY"]
          /\ UNCHANGED <<case, via>>
       \/ /\ status[ticket[c]] \in {"DENIED", "EXPIRED", "USED"}
          /\ Return(c)
       \/ /\ status[ticket[c]] = "PENDING" /\ late[c]
          /\ Return(c)
    /\ UNCHANGED <<approvals, token, history>>

\* Mutant of WindowEnds: the server waits without a deadline.
NoWindow(c) == FALSE

\* The wait window elapses.
WindowEnds(c) == /\ pc[c] = "waiting" /\ ~late[c]
                 /\ late' = [late EXCEPT ![c] = TRUE]
                 /\ UNCHANGED <<pc, case, decision, via, ticket, again,
                                approvals, token, history>>

\* A store or the audit log raises, or the process dies.
Fail(c) == /\ Failures
           /\ pc[c] # "idle"
           /\ Return(c)
           /\ UNCHANGED <<approvals, token, history>>

-----------------------------------------------------------------------------
\* Everybody else: operators, the reset, and time.

SetStatus(i, to) == /\ status' = [status EXCEPT ![i] = to]
                    /\ UNCHANGED <<call, request, needed, nextRow, granted,
                                   token, history>>

\* Mutant of Approve: the row is not looked at again after the prompt.
ApproveAny(i) == status[i] # "ABSENT" /\ SetStatus(i, "APPROVED")

Approve(i) == status[i] = "PENDING" /\ SetStatus(i, "APPROVED")

Refuse(i) == status[i] # "ABSENT" /\ SetStatus(i, "DENIED")

Expire(i) == status[i] \in {"PENDING", "APPROVED"} /\ SetStatus(i, "EXPIRED")

\* The token is revoked, or expires.
Revoke == /\ revoked' = TRUE
          /\ UNCHANGED <<call, approvals, uses, history>>

-----------------------------------------------------------------------------
\* Steps a call takes without a human.
Step(c) == \/ Evaluate(c) \/ Authorize(c) \/ Match(c) \/ Consume(c)
           \/ HoldBack(c) \/ Record(c) \/ Run(c) \/ Poll(c) \/ WindowEnds(c)

Next == \/ \E c \in Calls : \/ \E k \in Cases : Arrive(c, k)
                            \/ Step(c) \/ Answer(c) \/ Fail(c)
        \/ \E i \in Rows : Approve(i) \/ Refuse(i) \/ Expire(i)
        \/ Revoke

Spec == Init /\ [][Next]_vars

\* A call that has begun keeps running, and its clock too; nothing is assumed
\* of the human.
FairSpec == Spec /\ \A c \in Calls : WF_vars(Step(c))

-----------------------------------------------------------------------------
CallOK == /\ pc \in [Calls -> Phases]
          /\ case \in [Calls -> Cases]
          /\ decision \in [Calls -> Decisions]
          /\ via \in [Calls -> Bases]
          /\ ticket \in [Calls -> Rows \cup {0}]
          /\ again \in [Calls -> BOOLEAN] /\ late \in [Calls -> BOOLEAN]

RowsOK == /\ status \in [Rows -> Status]
          /\ request \in [Rows -> Request]
          /\ needed \in [Rows -> Decisions]
          /\ nextRow \in 1..(MaxRow + 1)

TokenOK == uses \in 0..MaxUses /\ revoked \in BOOLEAN

HistoryOK == /\ allowed \in [Spendable -> Nat]
             /\ ran \in [Spendable -> Nat]
             /\ granted \in [Rows -> Nat]

\* Types of everything; in particular every decision of every rule is one of
\* the four, and the token is never used beyond max_uses.
TypeOK == CallOK /\ RowsOK /\ TokenOK /\ HistoryOK

\* The gateway and its callers use the approval requests only as the store
\* promises: module ApprovalLifecycle, which PendingApprovals implements.
Lifecycle == INSTANCE ApprovalLifecycle WITH Ids <- Rows, uses <- granted
ImplementsLifecycle == Lifecycle!Spec

Deciding(c) == pc[c] \in {"recording", "running"}

Paid(b) == IF b[1] = "token" THEN uses ELSE granted[b[2]]

\* Nothing runs that was not recorded as allowed, nothing is allowed that was
\* not paid for, and an approval pays once: over all callers, their second
\* dispatches and their failures (gateway.py:248, mcp_server.py:197, "a USED
\* approval cannot be replayed", tests/test_authorization_binding.py).
NothingRunsUnpaid == /\ \A b \in Spendable : ran[b] <= allowed[b] /\ allowed[b] <= Paid(b)
                     /\ \A i \in Rows : granted[i] <= 1

\* An approval lets a call through only if it asked at least what the call
\* requires: a CRITICAL call never runs on an approval that took no passphrase
\* (pending_approvals.py:535).  It may have asked more: a request that was never
\* reconciled is saved as it is and read back with less trust, where its
\* critical hint no longer counts, and then another call has its fingerprint.
ApprovalFits ==
    \A c \in Calls, i \in Rows :
        Deciding(c) /\ via[c] = <<"row", i>>
        => needed[i] \in {Required(c), "REQUIRE_STRONG_APPROVAL"}

\* A dry run changes no store and runs nothing, whatever it decides
\* (gateway.py:96, mcp_gateway.py:36).
DryRunSpendsNothing ==
    [][\A c \in Calls : case[c].setup.dry /\ pc'[c] # pc[c]
                            => UNCHANGED <<status, granted, uses, ran>>]_vars

\* The call comes from outside, by its source or by its origin, and it claims
\* a trust or is normalized by an adapter, so that trust is reconciled.
FromOutside(c) == \/ case[c].input.source \in ExternalSources
                  \/ case[c].input.origin \in ExternalOrigins
Reconciled(c) == case[c].setup.adapter \/ case[c].input.trust # "absent"

\* No claim of trust lets a call from outside run on the policy alone, and
\* external content is allowed on a prompt only where delegations were asked
\* first (models.py:219, gateway.py:433: "external content cannot approve,
\* escalate, or initiate tool execution without delegation").
OutsideIsGated ==
    \A c \in Calls :
        /\ Deciding(c) /\ decision[c] = "ALLOW"
        /\ case[c].input.action # "get_runtime_context"
        => /\ FromOutside(c) /\ Reconciled(c) => via[c] # <<"policy", 0>>
           /\ External(RequestOf(c)) /\ via[c] = <<"prompt", 0>>
                => case[c].setup.delegations

\* Every call ends, waits included, unless it sits at a terminal where a human
\* does not answer (mcp_server.py:246).
CallsEnd == \A c \in Calls : pc[c] # "idle" /\ ~case[c].setup.tty ~> pc[c] = "idle"

\* "External content may raise risk but must never lower it" (CHANGELOG.md:7).
TaintNeverLowers ==
    \A c \in Calls :
        LET q == RequestOf(c)
            tainted == [q EXCEPT !.origin = "EXTERNAL_CONTENT"]
        IN ClassRank[Classify(q)] <= ClassRank[Classify(tainted)]
=============================================================================
