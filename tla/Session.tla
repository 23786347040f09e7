------------------------------ MODULE Session ------------------------------
(***************************************************************************)
(* A session: MCP servers with their clients, the terminals in which a     *)
(* human answers the helper's questions, and the approval requests between *)
(* them, which other command lines decide as well and which expire.        *)
(***************************************************************************)
EXTENDS McpServer

CONSTANTS Helpers,
          HelperModes   \* how terminals are opened, see Helper

VARIABLES hpc, mode, seen, queue, lone, closes, asked

H == INSTANCE Helper

ASSUME ModesAssumption == HelperModes \subseteq H!Modes

helperVars == <<hpc, mode, seen, queue, lone, closes, asked>>
vars == <<store, serverVars, helperVars>>

TypeOK == ServerTypeOK /\ H!HelperTypeOK

Init == ServerInit /\ H!HelperInit

Serve(s) == Handle(s) /\ UNCHANGED helperVars
Receive(s) == (\E m \in Messages : Read(s, m)) /\ UNCHANGED helperVars
Break(s) == (Fail(s) \/ Stop(s)) /\ UNCHANGED helperVars

\* create() may open a terminal for the new request; an opener that fails is
\* only warned about.
CreateAndOpen(s) ==
    /\ Create(s)
    /\ \/ "opened" \in HelperModes /\ \E h \in Helpers : H!Start(h, "opened")
       \/ UNCHANGED helperVars

Help(h) == /\ H!Work(h)
           /\ UNCHANGED <<callOf, nextRow, maker, serverVars>>

OpenOrQuit(h) == /\ \/ H!Quit(h)
                    \/ UNCHANGED status /\ \E m \in HelperModes \ {"opened"} : H!Start(h, m)
                 /\ UNCHANGED <<callOf, nextRow, maker, serverVars>>

\* Another command line approves, or the request is over: its time to live has
\* passed, or (no different to this server) it is denied or used elsewhere.
Elsewhere(i) ==
    /\ \/ status[i] = "PENDING" /\ status' = [status EXCEPT ![i] = "APPROVED"]
       \/ status[i] \in Active /\ status' = [status EXCEPT ![i] = "EXPIRED"]
    /\ UNCHANGED <<callOf, nextRow, maker, serverVars, helperVars>>

\* Another gateway, which found no request for the call yet, creates one too.
CreateElsewhere(s) ==
    /\ pc[s] = "waiting"
    /\ nextRow <= MaxRow
    /\ nextRow' = nextRow + 1
    /\ status' = [status EXCEPT ![nextRow] = "PENDING"]
    /\ callOf' = [callOf EXCEPT ![nextRow] = call[s]]
    /\ UNCHANGED <<maker, serverVars, helperVars>>

Next == \/ \E s \in Servers : Serve(s) \/ Receive(s) \/ Break(s) \/ CreateAndOpen(s)
        \/ \E h \in Helpers : Help(h) \/ OpenOrQuit(h)
        \/ \E i \in Rows : Elsewhere(i)
        \/ \E s \in Servers : CreateElsewhere(s)

Spec == Init /\ [][Next]_vars

\* A server that runs goes on with the message in hand, and the deadline of a
\* wait is reached.  A human who has opened a terminal answers its questions.
FairSpec == /\ Spec
            /\ \A s \in Servers : WF_vars(Serve(s)) /\ WF_vars(CreateAndOpen(s))
            /\ \A h \in Helpers : WF_vars(Help(h))

-----------------------------------------------------------------------------
AskedOnce == H!AskedOnce
ClosesWhenDecided == H!ClosesWhenDecided

\* Every message comes to its end (by AnsweredInOrder, with its answer), or the
\* server has gone: a call that nobody approves blocks the next message no
\* longer than the wait window (mcp_server.py:257-269).
MessagesEnd ==
    \A s \in Servers : InHand(s) ~> ~InHand(s)

\* A request that stays pending is asked about in every terminal that watches
\* and is not closed (helper.py:226-248).
PendingIsAsked ==
    \A h \in Helpers, i \in Rows :
       (status[i] = "PENDING" /\ hpc[h] # "off" /\ mode[h] = "watch")
       ~> (status[i] # "PENDING" \/ i \in asked[h] \/ hpc[h] = "off")
=============================================================================
