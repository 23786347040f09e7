----------------------------- MODULE MCGateway -----------------------------
(***************************************************************************)
(* Instances of Gateway for TLC.                                           *)
(***************************************************************************)
EXTENDS Gateway, TLC

CallSymmetry == Permutations(Calls)

\* A part of config/default_policy.yaml; actions it does not list are SENSITIVE.
DefaultPolicy == [read_file |-> "SAFE", write_file |-> "SENSITIVE",
                  send_message |-> "SENSITIVE", run_shell_command |-> "CRITICAL",
                  disable_audit |-> "BLOCKED", get_runtime_context |-> "SENSITIVE",
                  unknown_tool_call |-> "SENSITIVE"]

Call(action, hints, source, origin, trust) ==
    [action |-> action, target |-> "plain", hints |-> hints, injected |-> FALSE,
     source |-> source, origin |-> origin, trust |-> trust]

Message == Call("send_message", {}, "user", "USER_DIRECT", "USER_DIRECT")
UrgentMessage == Call("send_message", {"critical"}, "user", "USER_DIRECT", "USER_DIRECT")
Read == Call("read_file", {}, "user", "absent", "USER_DIRECT")

\* A web page's call that claims to be the user's.
PageRead == Call("read_file", {}, "web", "USER_DIRECT", "USER_DIRECT")

\* One that leaves its trust to be inferred from the origin it names, and the
\* same with a claim, which the source does not support.
Unclaimed == Call("send_message", {"critical"}, "web", "USER_DIRECT", "absent")
Claimed == [Unclaimed EXCEPT !.trust = "USER_DIRECT"]

Setup(delegations, pending, tty, dry, waits, adapter) ==
    [delegations |-> delegations, pending |-> pending, tty |-> tty,
     dry |-> dry, waits |-> waits, adapter |-> adapter]

McpServer == Setup(FALSE, TRUE, FALSE, FALSE, TRUE, TRUE)
McpWithDelegations == Setup(TRUE, TRUE, FALSE, FALSE, TRUE, TRUE)
CommandLine == Setup(FALSE, TRUE, TRUE, FALSE, FALSE, FALSE)
Library == Setup(TRUE, TRUE, FALSE, FALSE, FALSE, FALSE)
Script == Setup(FALSE, TRUE, FALSE, FALSE, FALSE, FALSE)
Bare == Setup(FALSE, FALSE, TRUE, FALSE, FALSE, FALSE)
TokensOnly == Setup(TRUE, FALSE, FALSE, FALSE, FALSE, FALSE)
DryRun == Setup(TRUE, TRUE, FALSE, TRUE, FALSE, FALSE)

Of(input, setup) == [input |-> input, setup |-> setup]

\* Callers that compete for approvals and the token.  An approval of the
\* unclaimed request is found by the claimed one.
RaceCases == {Of(Message, McpServer), Of(Message, McpWithDelegations),
              Of(Unclaimed, Library), Of(Claimed, Script)}

\* One case at least for every way through the evaluation.
AllCases == RaceCases \cup
            {Of(Message, Library), Of(UrgentMessage, TokensOnly),
             Of(Message, DryRun), Of(Message, Bare), Of(Read, Bare),
             Of(PageRead, Bare), Of(PageRead, McpServer)}

TaintCases == {Of(Message, CommandLine), Of(UrgentMessage, CommandLine),
               Of(Read, CommandLine), Of(PageRead, CommandLine)}
=============================================================================
