------------------------------- MODULE Helper -------------------------------
(***************************************************************************)
(* run_approval_helper of agent_sudo/helper.py: the guided terminal that   *)
(* lists the pending approval requests and asks a human about each of      *)
(* them, once or in a loop, or in a window that the server opened.         *)
(*                                                                         *)
(* The list it asks about is read once per round; other processes move the *)
(* rows while the human thinks.  The store's methods are one step each, as *)
(* in module Gateway; approve() asks for a passphrase that may be wrong.   *)
(***************************************************************************)
EXTENDS Naturals, FiniteSets

CONSTANTS MaxRow, Helpers

Ids == 1..MaxRow

VARIABLES status,     \* of each approval request; other processes move it too
          hpc,        \* where each helper is
          mode,       \* "once", "watch" or "opened"
          seen,       \* processed_ids
          queue,      \* what is left of the list of this round
          lone,       \* allow_autoclose
          closes,     \* autoclose_triggered
          asked       \* history: what it has asked about since it started

helperVars == <<hpc, mode, seen, queue, lone, closes, asked>>

Modes == {"once", "watch", "opened"}
HelperPhases == {"off", "starting", "listing", "asking", "approving", "checking",
                 "cleaning", "closed"}

HelperTypeOK == /\ hpc \in [Helpers -> HelperPhases]
                /\ mode \in [Helpers -> Modes]
                /\ {seen, queue, asked} \subseteq [Helpers -> SUBSET Ids]
                /\ {lone, closes} \subseteq [Helpers -> BOOLEAN]

HelperInit == /\ hpc = [h \in Helpers |-> "off"]
              /\ mode = [h \in Helpers |-> "once"]
              /\ seen = [h \in Helpers |-> {}]
              /\ queue = [h \in Helpers |-> {}]
              /\ lone = [h \in Helpers |-> FALSE]
              /\ closes = [h \in Helpers |-> FALSE]
              /\ asked = [h \in Helpers |-> {}]

-----------------------------------------------------------------------------
Goto(h, phase) == hpc' = [hpc EXCEPT ![h] = phase]

Waiting == {i \in Ids : status[i] = "PENDING"}
First(ids) == CHOOSE i \in ids : \A j \in ids : i <= j
Front(h) == First(queue[h])

\* A terminal is opened, by a human or by the store after a create().
Start(h, m) == /\ hpc[h] = "off"
               /\ Goto(h, "starting")
               /\ mode' = [mode EXCEPT ![h] = m]
               /\ UNCHANGED <<seen, queue, lone, closes, asked>>

\* initial_pending.
Look(h) == /\ hpc[h] = "starting"
           /\ lone' = [lone EXCEPT ![h] = Cardinality(Waiting) = 1]
           /\ Goto(h, "listing")
           /\ UNCHANGED <<status, mode, seen, queue, closes, asked>>

\* The end of a round: watch goes on, a window closes itself or waits for a
\* key, which makes no difference to the store.
AfterRound(h) == IF mode[h] = "watch" THEN "cleaning" ELSE "closed"

\* process_pending reads the list, and goes through what it has not processed.
List(h) ==
    /\ hpc[h] = "listing"
    /\ queue' = [queue EXCEPT ![h] = Waiting \ seen[h]]
    /\ Goto(h, IF Waiting \subseteq seen[h] THEN AfterRound(h) ELSE "asking")
    /\ UNCHANGED <<status, mode, seen, lone, closes, asked>>

\* Mutant of Processed: a request that was skipped is not remembered.
OnlyDecided(h, skipped) == IF skipped THEN seen[h] ELSE seen[h] \cup {Front(h)}

Processed(h, skipped) == seen[h] \cup {Front(h)}

\* On to the next request of the list.
Done(h, skipped) ==
    /\ seen' = [seen EXCEPT ![h] = Processed(h, skipped)]
    /\ queue' = [queue EXCEPT ![h] = @ \ {Front(h)}]
    /\ Goto(h, IF queue[h] = {Front(h)} THEN AfterRound(h) ELSE "asking")

Ask(h) == /\ hpc[h] = "asking"
          /\ asked' = [asked EXCEPT ![h] = @ \cup {Front(h)}]

\* Any other answer, an interrupt or the end of the input skips the request.
Skip(h) == /\ Ask(h)
           /\ Done(h, TRUE)
           /\ UNCHANGED <<status, mode, lone, closes>>

Yes(h) == /\ Ask(h)
          /\ Goto(h, "approving")
          /\ UNCHANGED <<status, mode, seen, queue, lone, closes>>

\* store.approve, which checks the status itself.
Approve(h) == /\ hpc[h] = "approving"
              /\ status[Front(h)] = "PENDING"
              /\ status' = [status EXCEPT ![Front(h)] = "APPROVED"]
              /\ Goto(h, "checking")
              /\ UNCHANGED <<mode, seen, queue, lone, closes, asked>>

\* The passphrase is wrong, the request is gone from PENDING, or the store raises.
Refuse(h) == /\ hpc[h] = "approving"
             /\ Done(h, FALSE)
             /\ UNCHANGED <<status, mode, lone, closes, asked>>

\* store.deny asks for no status; whatever it returns, the helper says denied.
No(h) == /\ Ask(h)
         /\ status' = [status EXCEPT ![Front(h)] = "DENIED"]
         /\ Goto(h, "checking")
         /\ UNCHANGED <<mode, seen, queue, lone, closes>>

\* Mutant of Closing: the window closes whatever else is pending.
ClosingAtOnce(h) == mode[h] = "opened" /\ lone[h]

\* The window closes itself if it was opened for one request and none is left.
Closing(h) == mode[h] = "opened" /\ lone[h] /\ Waiting = {}

Check(h) == /\ hpc[h] = "checking"
            /\ closes' = [closes EXCEPT ![h] = @ \/ Closing(h)]
            /\ Done(h, FALSE)
            /\ UNCHANGED <<status, mode, lone, asked>>

\* Mutant of Kept: the ids of the store replace the processed ones.
CurrentIds(h) == {i \in Ids : status[i] # "ABSENT"}

\* processed_ids forgets what has left the store.
Kept(h) == seen[h] \cap {i \in Ids : status[i] # "ABSENT"}

\* The end of a watch round, and the sleep before the next.
Clean(h) == /\ hpc[h] = "cleaning"
            /\ seen' = [seen EXCEPT ![h] = Kept(h)]
            /\ Goto(h, "listing")
            /\ UNCHANGED <<status, mode, queue, lone, closes, asked>>

\* The terminal is closed or interrupted outside the [y/N] question, or a
\* one-shot helper has come to its end.
Quit(h) == /\ hpc[h] # "off"
           /\ Goto(h, "off")
           /\ mode' = [mode EXCEPT ![h] = "once"]
           /\ seen' = [seen EXCEPT ![h] = {}]
           /\ queue' = [queue EXCEPT ![h] = {}]
           /\ lone' = [lone EXCEPT ![h] = FALSE]
           /\ closes' = [closes EXCEPT ![h] = FALSE]
           /\ asked' = [asked EXCEPT ![h] = {}]
           /\ UNCHANGED status

Choose(h) == Skip(h) \/ Yes(h) \/ No(h)
Work(h) == \/ Look(h) \/ List(h) \/ Choose(h) \/ Approve(h) \/ Refuse(h)
           \/ Check(h) \/ Clean(h)

-----------------------------------------------------------------------------
\* No terminal asks twice about one request; helper.py:243-246 forgets only
\* those that have left the store.
AskedOnce == \A h \in Helpers : hpc[h] = "asking" => Front(h) \notin asked[h]

\* A window that closes by itself leaves nothing open that it asked about,
\* whatever came in or was decided elsewhere meanwhile (helper.py:154-169).
ClosesWhenDecided ==
    \A h \in Helpers : (hpc[h] = "closed" /\ closes[h]) => asked[h] \cap Waiting = {}
=============================================================================
