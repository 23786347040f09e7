----------------------------- MODULE McpServer -----------------------------
(***************************************************************************)
(* The MCP server of agent_sudo/mcp_server.py: it reads one JSON-RPC       *)
(* message at a time, answers it, and reads the next.  A tools/call that   *)
(* is held for an approval stays open while the server polls the approval  *)
(* request, and is dispatched once more when it is approved.               *)
(*                                                                         *)
(* The evaluation is that of module Gateway without delegations, one store *)
(* method a step.  What the policy says of a call is a field of the call.  *)
(* The rows are shared with other processes: the module that composes them *)
(* moves their status.                                                     *)
(***************************************************************************)
EXTENDS Tools, Naturals, Sequences

CONSTANTS Servers,      \* servers that share the store, each with its client
          Messages,     \* what clients send
          MaxMessages,  \* messages a client sends, at most
          MaxRow,       \* approval requests ever created, at most
          Interactive   \* interactive_approvals

Rows == 1..MaxRow
Methods == {"initialized", "initialize", "tools/list", "tools/call", "unknown", "garbage"}
NoCall == [tool |-> "unimplemented", target |-> "none", needs |-> "DENY"]
Call == [tool : ToolNames, target : Regions \cup Commands \cup {"none"},
         needs : {"ALLOW", "REQUIRE_APPROVAL", "DENY"}]

ASSUME MessagesAssumption == Messages \subseteq [method : Methods, call : Call]
ASSUME ServerBounds == MaxMessages \in Nat /\ MaxRow \in Nat /\ Interactive \in BOOLEAN

VARIABLES status,   \* of each approval request
          callOf,   \* the call each was created for
          nextRow,
          maker,    \* history: the server that created each, none for another process
          pc,       \* where each server is
          call,     \* the call in hand
          heard,    \* history: of each message read, whether it wants an answer
          answers,  \* history: the messages it has answered, in order
          ticket,   \* the approval request its result names, 0 for none
          awaited,  \* the one whose approval let it dispatch again, 0 for none
          late,     \* whether the wait window has elapsed
          reply,    \* the status it is about to answer with
          effect    \* history: what the tool call has done to the world

store == <<status, callOf, nextRow, maker>>
serverVars == <<pc, call, heard, answers, ticket, awaited, late, reply, effect>>

Status == {"ABSENT", "PENDING", "APPROVED", "DENIED", "USED", "EXPIRED"}
Phases == {"reading", "evaluating", "matching", "consuming", "creating", "held",
           "running", "waiting", "answering", "stopped"}
Replies == {"none", "result", "executed", "blocked", "approval_required", "error"}

ServerTypeOK == /\ status \in [Rows -> Status]
                /\ nextRow \in 1..MaxRow + 1
                /\ maker \in [Rows -> SUBSET Servers]
                /\ pc \in [Servers -> Phases]
                /\ callOf \in [Rows -> Call]
                /\ call \in [Servers -> Call]
                /\ \A s \in Servers : /\ heard[s] \in Seq(BOOLEAN)
                                      /\ Len(heard[s]) <= MaxMessages
                                      /\ answers[s] \in Seq(1..MaxMessages)
                /\ ticket \in [Servers -> 0..MaxRow]
                /\ awaited \in [Servers -> 0..MaxRow]
                /\ late \in [Servers -> BOOLEAN]
                /\ reply \in [Servers -> Replies]
                /\ effect \in [Servers -> {"none", "partial", "full"}]

ServerInit == /\ status = [i \in Rows |-> "ABSENT"]
              /\ callOf = [i \in Rows |-> NoCall]
              /\ nextRow = 1
              /\ maker = [i \in Rows |-> {}]
              /\ pc = [s \in Servers |-> "reading"]
              /\ call = [s \in Servers |-> NoCall]
              /\ heard = [s \in Servers |-> <<>>]
              /\ answers = [s \in Servers |-> <<>>]
              /\ ticket = [s \in Servers |-> 0]
              /\ awaited = [s \in Servers |-> 0]
              /\ late = [s \in Servers |-> FALSE]
              /\ reply = [s \in Servers |-> "none"]
              /\ effect = [s \in Servers |-> "none"]

-----------------------------------------------------------------------------
Goto(s, phase) == pc' = [pc EXCEPT ![s] = phase]

\* The local variables of a message are gone.
Forget(s) == /\ call' = [call EXCEPT ![s] = NoCall]
             /\ reply' = [reply EXCEPT ![s] = "none"]
             /\ ticket' = [ticket EXCEPT ![s] = 0]
             /\ awaited' = [awaited EXCEPT ![s] = 0]
             /\ late' = [late EXCEPT ![s] = FALSE]
             /\ effect' = [effect EXCEPT ![s] = "none"]

\* The answer is known; it is written next.
Reply(s, with) == /\ Goto(s, "answering")
                  /\ reply' = [reply EXCEPT ![s] = with]

\* read_message and the methods of handle() that need no tool.  A line that is
\* no JSON object raises out of the loop, and the server is gone.
Read(s, m) ==
    /\ pc[s] = "reading"
    /\ Len(heard[s]) < MaxMessages
    /\ heard' = [heard EXCEPT ![s] = Append(@, m.method # "initialized")]
    /\ call' = [call EXCEPT ![s] = m.call]
    /\ \/ /\ m.method = "garbage"
          /\ Goto(s, "stopped")
          /\ UNCHANGED reply
       \/ /\ m.method = "initialized"
          /\ UNCHANGED <<pc, reply>>
       \/ m.method \in {"initialize", "tools/list"} /\ Reply(s, "result")
       \/ m.method = "unknown" /\ Reply(s, "error")
       \/ /\ m.method = "tools/call"
          /\ Goto(s, "evaluating")
          /\ UNCHANGED reply
    /\ UNCHANGED <<answers, ticket, awaited, late, effect, store>>

\* Classification and policy.
Evaluate(s) ==
    /\ pc[s] = "evaluating"
    /\ \/ call[s].needs = "ALLOW" /\ Goto(s, "running") /\ UNCHANGED reply
       \/ call[s].needs = "DENY" /\ Reply(s, "blocked")
       \/ call[s].needs = "REQUIRE_APPROVAL" /\ Goto(s, "matching") /\ UNCHANGED reply
    /\ UNCHANGED <<call, heard, answers, ticket, awaited, late, effect, store>>

\* Mutant of Active: an approved request is no longer looked for.
PendingOnly == {"PENDING"}

Active == {"PENDING", "APPROVED"}
Matching(s, states) == {i \in Rows : status[i] \in states /\ callOf[i] = call[s]}
Newest(rows) == CHOOSE i \in rows : \A j \in rows : j <= i
Oldest(rows) == CHOOSE i \in rows : \A j \in rows : i <= j

\* find_matching, and what a PENDING row answers.
Match(s) ==
    /\ pc[s] = "matching"
    /\ IF Matching(s, Active) = {}
       THEN Goto(s, "creating") /\ UNCHANGED ticket
       ELSE /\ ticket' = [ticket EXCEPT ![s] = Newest(Matching(s, Active))]
            /\ Goto(s, IF status[Newest(Matching(s, Active))] = "APPROVED"
                       THEN "consuming" ELSE "held")
    /\ UNCHANGED <<call, heard, answers, awaited, late, reply, effect, store>>

\* consume_matching; when another gateway was faster, the call is denied.
Consume(s) ==
    /\ pc[s] = "consuming"
    /\ IF Matching(s, {"APPROVED"}) = {}
       THEN Reply(s, "blocked") /\ UNCHANGED <<status, ticket>>
       ELSE LET i == Oldest(Matching(s, {"APPROVED"}))
            IN /\ status' = [status EXCEPT ![i] = "USED"]
               /\ ticket' = [ticket EXCEPT ![s] = i]
               /\ Goto(s, "running")
               /\ UNCHANGED reply
    /\ UNCHANGED <<callOf, nextRow, maker, call, heard, answers, awaited, late, effect>>

\* _create_pending_approval.  Beyond MaxRow, create() raises.
Create(s) ==
    /\ pc[s] = "creating"
    /\ nextRow <= MaxRow
    /\ nextRow' = nextRow + 1
    /\ status' = [status EXCEPT ![nextRow] = "PENDING"]
    /\ callOf' = [callOf EXCEPT ![nextRow] = call[s]]
    /\ maker' = [maker EXCEPT ![nextRow] = {s}]
    /\ ticket' = [ticket EXCEPT ![s] = nextRow]
    /\ Goto(s, "held")
    /\ UNCHANGED <<call, heard, answers, awaited, late, reply, effect>>

NoMoreRows(s) ==
    /\ pc[s] = "creating"
    /\ nextRow > MaxRow
    /\ Reply(s, "error")
    /\ UNCHANGED <<call, heard, answers, ticket, awaited, late, effect, store>>

\* A held call waits, unless it has waited before.
Hold(s) ==
    /\ pc[s] = "held"
    /\ IF Interactive /\ awaited[s] = 0
       THEN Goto(s, "waiting") /\ UNCHANGED reply
       ELSE Reply(s, "approval_required")
    /\ UNCHANGED <<call, heard, answers, ticket, awaited, late, effect, store>>

\* Mutant of StatusOf: a failure of the host counts as an execution, as it did
\* before release 0.5.5.
FailedAsExecuted(end) == IF end \in {"done", "failed"} THEN "executed"
                         ELSE IF end = "raised" THEN "error" ELSE "blocked"

\* The status of the answer; what a tool raises becomes a JSON-RPC error.
StatusOf(end) == IF end = "done" THEN "executed"
                 ELSE IF end = "raised" THEN "error" ELSE "blocked"

\* The tool runs.
Run(s) ==
    /\ pc[s] = "running"
    /\ \E end \in Execute(call[s].tool, call[s].target) :
          /\ \E e \in Effects(call[s].tool, end) : effect' = [effect EXCEPT ![s] = e]
          /\ Reply(s, StatusOf(end))
    /\ UNCHANGED <<call, heard, answers, ticket, awaited, late, store>>

\* One poll of _wait_for_decision that ends the wait.
Poll(s) ==
    /\ pc[s] = "waiting"
    /\ \/ /\ status[ticket[s]] = "APPROVED"
          /\ awaited' = [awaited EXCEPT ![s] = ticket[s]]
          /\ Goto(s, "evaluating")
          /\ UNCHANGED reply
       \/ /\ status[ticket[s]] # "APPROVED"
          /\ status[ticket[s]] # "PENDING" \/ late[s]
          /\ Reply(s, "approval_required")
          /\ UNCHANGED awaited
    /\ UNCHANGED <<call, heard, answers, ticket, late, effect, store>>

\* Mutant of WindowEnds: the deadline is never reached.
NoWindow(s) == FALSE /\ UNCHANGED <<serverVars, store>>

WindowEnds(s) == /\ pc[s] = "waiting"
                 /\ ~late[s]
                 /\ late' = [late EXCEPT ![s] = TRUE]
                 /\ UNCHANGED <<pc, call, heard, answers, ticket, awaited, reply, effect, store>>

\* A store or the audit log raises before the tool runs: handle() answers with
\* an error.  Mutant of Fail: it answers nothing.
Raises(s) == pc[s] \in {"evaluating", "matching", "consuming", "creating", "held",
                        "running", "waiting"}
SwallowError(s) == /\ Raises(s)
                   /\ Goto(s, "reading")
                   /\ Forget(s)
                   /\ UNCHANGED <<heard, answers, store>>

Fail(s) == /\ Raises(s)
           /\ Reply(s, "error")
           /\ UNCHANGED <<call, heard, answers, ticket, awaited, late, effect, store>>

\* write_message; the loop goes on to the next message.
Write(s) ==
    /\ pc[s] = "answering"
    /\ answers' = [answers EXCEPT ![s] = Append(@, Len(heard[s]))]
    /\ Goto(s, "reading")
    /\ Forget(s)
    /\ UNCHANGED <<heard, store>>

\* The end of the input, a broken pipe, or the death of the process.
Stop(s) == /\ pc[s] # "stopped"
           /\ Goto(s, "stopped")
           /\ Forget(s)
           /\ UNCHANGED <<heard, answers, store>>

\* What the server does with a message, but for creating a request.
Handle(s) == \/ Evaluate(s) \/ Match(s) \/ Consume(s) \/ NoMoreRows(s) \/ Hold(s)
             \/ Run(s) \/ Poll(s) \/ WindowEnds(s) \/ Write(s)

-----------------------------------------------------------------------------
Requests(s) == {n \in 1..Len(heard[s]) : heard[s][n]}
InHand(s) == pc[s] \notin {"reading", "stopped"}
Answered(s) == {answers[s][k] : k \in 1..Len(answers[s])}

\* Every request is answered once and in the order the client sent them in
\* (mcp_server.py:330-336), also when a handler raises (149-150); only the
\* message in hand is open, or was lost with the server.
AnsweredInOrder ==
    \A s \in Servers :
       /\ \A k \in 2..Len(answers[s]) : answers[s][k - 1] < answers[s][k]
       /\ Answered(s) \subseteq Requests(s)
       /\ Requests(s) \ Answered(s) \subseteq
             (IF pc[s] = "reading" THEN {} ELSE {Len(heard[s])})

\* An answer does not claim an execution that failed, nor hide one that took
\* place (release notes 0.5.5); only an error leaves the client in doubt.
HonestAnswers ==
    \A s \in Servers :
       pc[s] = "answering" =>
          /\ reply[s] = "executed" => effect[s] = "full"
          /\ reply[s] \in {"blocked", "approval_required"} => effect[s] # "full"

\* A call whose approval came while it waited is not held again
\* (mcp_server.py:176-181), unless the approval was used, denied or expired in
\* between, or another process holds the same call: its newer request is found
\* first.
ApprovalServes ==
    \A s \in Servers :
       (pc[s] = "answering" /\ awaited[s] # 0 /\ reply[s] = "approval_required")
       => \/ status[awaited[s]] # "APPROVED"
          \/ \E i \in Rows : maker[i] # {s} /\ callOf[i] = call[s]
=============================================================================
