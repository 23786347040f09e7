----------------------------- MODULE Passphrase -----------------------------
(***************************************************************************)
(* The approval passphrase: approve_critical of agent_sudo/approvals.py    *)
(* with its lockout, init_approval_config, which chooses the passphrase,   *)
(* and save_config_workspace of context.py, which writes the same file.    *)
(*                                                                         *)
(* approval_state.json and config.json are read, changed and written back  *)
(* without a lock, and a write truncates the file before it fills it.  A   *)
(* process is in the window of a file from the read that its write rests   *)
(* on (or from the truncation, if it rests on none) to the end of the      *)
(* write; `raced` remembers the files on which windows overlapped, and     *)
(* those where a process died before its attempt was counted or written.   *)
(*                                                                         *)
(* Passphrases are numbered in the order they were chosen in; 0 is a       *)
(* configuration without one, against which every guess is wrong.  A guess *)
(* is compared with the configuration that was read before the prompt.     *)
(***************************************************************************)
EXTENDS Integers, FiniteSets

CONSTANTS Approvers,     \* calls of approve_critical
          Admins,        \* processes that run init-approval or workspace set
          Workspaces,    \* directories that can become the workspace
          NoWorkspace,   \* no "workspace" key
          MaxAttempts,   \* max_failed_attempts
          LockSeconds,   \* lockout_seconds, in clock ticks
          MaxTime,       \* the clock stops here
          MaxPassphrase, \* passphrases chosen, at most
          MaxWrong       \* wrong guesses, at most

ASSUME RolesAssumption == Approvers \cap Admins = {}
ASSUME ApproversAssumption == IsFiniteSet(Approvers)
ASSUME WorkspaceAssumption == NoWorkspace \notin Workspaces
ASSUME BoundsAssumption ==
    /\ {LockSeconds, MaxAttempts} \subseteq Nat \ {0}
    /\ {MaxTime, MaxPassphrase, MaxWrong} \subseteq Nat

VARIABLES pc,
          lockout,   \* approval_state.json
          config,    \* config.json
          prompted,  \* whether each approver's configuration has a passphrase
          counts,    \* what an approver is about to write to lockout
          then,      \* where it goes on after the write
          draft,     \* what an admin is about to write to config
          now        \* the clock

\* History: the passphrase of the last init-approval that ended, passphrases
\* chosen, wrong guesses, wrong guesses since the last right one or the last
\* expiry, and the files raced on.
VARIABLES latest, chosen, wrong, streak, raced

approverVars == <<lockout, prompted, counts, then>>
adminVars == <<config, draft, latest, chosen>>
guessVars == <<wrong, streak>>
vars == <<pc, approverVars, adminVars, guessVars, now, raced>>

Counts == [failed : Nat, until : Nat]
None == [failed |-> 0, until |-> 0]

Configs == [state : {"absent", "empty", "whole"}, hash : 0..MaxPassphrase,
            workspace : Workspaces \cup {NoWorkspace}]
Unreadable(state) == [state |-> state, hash |-> 0, workspace |-> NoWorkspace]

ApproverPhases == {"idle", "loaded", "held", "prompting", "failing",
                   "decided", "writing", "approved"}
AdminPhases == {"idle", "cancelling", "resetting", "setting", "filling"}

TypeOK == /\ pc \in [Approvers \cup Admins -> ApproverPhases \cup AdminPhases]
          /\ lockout \in Counts
          /\ config \in Configs
          /\ prompted \in [Approvers -> BOOLEAN]
          /\ counts \in [Approvers -> Counts]
          /\ then \in [Approvers -> {"idle", "prompting", "approved"}]
          /\ draft \in [Admins -> Configs]
          /\ now \in 0..MaxTime
          /\ {latest, chosen} \subseteq 0..MaxPassphrase
          /\ {wrong, streak} \subseteq Nat
          /\ raced \subseteq {"lockout", "config"}

Init == /\ pc = [p \in Approvers \cup Admins |-> "idle"]
        /\ lockout = None
        /\ config = Unreadable("absent")
        /\ prompted = [p \in Approvers |-> FALSE]
        /\ counts = [p \in Approvers |-> None]
        /\ then = [p \in Approvers |-> "idle"]
        /\ draft = [p \in Admins |-> Unreadable("absent")]
        /\ now = 0
        /\ latest = 0 /\ chosen = 0
        /\ wrong = 0 /\ streak = 0
        /\ raced = {}

-----------------------------------------------------------------------------
Goto(p, phase) == pc' = [pc EXCEPT ![p] = phase]

\* The call ends; its local variables are gone.
End(p) == /\ Goto(p, "idle")
          /\ prompted' = [q \in Approvers |-> IF q = p THEN FALSE ELSE prompted[q]]
          /\ counts' = [q \in Approvers |-> IF q = p THEN None ELSE counts[q]]
          /\ then' = [q \in Approvers |-> IF q = p THEN "idle" ELSE then[q]]
          /\ draft' = [q \in Admins |-> IF q = p THEN Unreadable("absent") ELSE draft[q]]

\* The processes in the window of each file.
Counting == {p \in Approvers : pc[p] \in {"decided", "writing"}}
Configuring == {p \in Admins : pc[p] \in {"setting", "resetting", "filling"}}

Race(file, others) == raced' = IF others = {} THEN raced ELSE raced \cup {file}

\* An approver reads the lockout file, and may go on to write it.
ReadLockout(p) == Race("lockout", Counting \ {p})

Decide(p, new, next) == /\ counts' = [counts EXCEPT ![p] = new]
                        /\ then' = [then EXCEPT ![p] = next]
                        /\ Goto(p, "decided")

\* approve_critical begins.  Without a configuration it answers that there is
\* no passphrase, and one that cannot be parsed raises: nothing changes.
Load(p) == /\ pc[p] = "idle"
           /\ config.state = "whole"
           /\ prompted' = [prompted EXCEPT ![p] = config.hash # 0]
           /\ Goto(p, "loaded")
           /\ UNCHANGED <<lockout, counts, then, adminVars, guessVars, now, raced>>

\* _locked_until: a lock that has not expired refuses the call, if it still has
\* not when the clock is read again.
Held(p) == /\ pc[p] = "loaded"
           /\ lockout.until > now
           /\ counts' = [counts EXCEPT ![p] = lockout]
           /\ Goto(p, "held")
           /\ ReadLockout(p)
           /\ UNCHANGED <<lockout, prompted, then, adminVars, guessVars, now>>

Refused(p) == /\ pc[p] = "held"
              /\ counts[p].until > now
              /\ End(p)
              /\ UNCHANGED <<lockout, config, latest, chosen, guessVars, now, raced>>

\* It has by now: the prompt opens with the failures still in the file.
Lapsed(p) == /\ pc[p] = "held"
             /\ counts[p].until <= now
             /\ counts' = [counts EXCEPT ![p] = None]
             /\ streak' = 0
             /\ Goto(p, "prompting")
             /\ UNCHANGED <<lockout, prompted, then, adminVars, wrong, now, raced>>

\* A lock that has expired is cleared before the prompt, failures included.
Expired(p) == /\ pc[p] = "loaded"
              /\ lockout.until \in 1..now
              /\ Decide(p, None, "prompting")
              /\ streak' = 0
              /\ ReadLockout(p)
              /\ UNCHANGED <<lockout, prompted, adminVars, wrong, now>>

\* No lock, or no file, or one that another process has just truncated.
Unlocked(p) == /\ pc[p] = "loaded"
               /\ lockout.until = 0
               /\ Goto(p, "prompting")
               /\ ReadLockout(p)
               /\ UNCHANGED <<approverVars, adminVars, guessVars, now>>

CheckLock(p) == Held(p) \/ Refused(p) \/ Lapsed(p) \/ Expired(p) \/ Unlocked(p)

\* The right passphrase resets the lockout.  The window of a write that rests
\* on no read begins here, for nothing is in between.
Right(p) == /\ pc[p] = "prompting"
            /\ prompted[p]
            /\ Decide(p, None, "approved")
            /\ streak' = 0
            /\ Race("lockout", Counting)
            /\ UNCHANGED <<lockout, prompted, adminVars, wrong, now>>

Wrong(p) == /\ pc[p] = "prompting"
            /\ wrong < MaxWrong
            /\ wrong' = wrong + 1
            /\ streak' = streak + 1
            /\ Goto(p, "failing")
            /\ UNCHANGED <<approverVars, adminVars, now, raced>>

\* Mutants of Failure: an attempt too many, or one too few, before the lock.
LateFailure(n) == [failed |-> n, until |-> IF n > MaxAttempts
                                           THEN now + LockSeconds ELSE 0]
EagerFailure(n) == [failed |-> n, until |-> IF n + 1 >= MaxAttempts
                                            THEN now + LockSeconds ELSE 0]

Failure(n) == [failed |-> n, until |-> IF n >= MaxAttempts
                                       THEN now + LockSeconds ELSE 0]

\* _record_failed_attempt reads the file again.
Count(p) == /\ pc[p] = "failing"
            /\ Decide(p, Failure(lockout.failed + 1), "idle")
            /\ ReadLockout(p)
            /\ UNCHANGED <<lockout, prompted, adminVars, guessVars, now>>

\* A truncated file reads as no failures.
Truncate(p) == /\ pc[p] = "decided"
               /\ lockout' = None
               /\ Goto(p, "writing")
               /\ UNCHANGED <<prompted, counts, then, adminVars, guessVars, now, raced>>

Write(p) == /\ pc[p] = "writing"
            /\ lockout' = counts[p]
            /\ IF then[p] = "idle"
               THEN End(p)
               ELSE /\ Goto(p, then[p])
                    /\ counts' = [counts EXCEPT ![p] = None]
                    /\ then' = [then EXCEPT ![p] = "idle"]
                    /\ UNCHANGED <<prompted, draft>>
            /\ UNCHANGED <<config, latest, chosen, guessVars, now, raced>>

\* The caller gets its approval.
Return(p) == /\ pc[p] = "approved"
             /\ End(p)
             /\ UNCHANGED <<lockout, config, latest, chosen, guessVars,
                            now, raced>>

Approve(p) == \/ Load(p) \/ CheckLock(p) \/ Right(p) \/ Wrong(p) \/ Count(p)
              \/ Truncate(p) \/ Write(p) \/ Return(p)

-----------------------------------------------------------------------------
\* init-approval, with both passphrases typed the same.  A reset, where there
\* is a configuration, first cancels what the stores hold.
InitBegin(p) == /\ pc[p] = "idle"
                /\ chosen < MaxPassphrase
                /\ chosen' = chosen + 1
                /\ draft' = [draft EXCEPT ![p] = [state |-> "whole", hash |-> chosen + 1,
                                                  workspace |-> NoWorkspace]]
                /\ IF config.state = "absent"
                   THEN Goto(p, "resetting") /\ Race("config", Configuring)
                   ELSE Goto(p, "cancelling") /\ UNCHANGED raced
                /\ UNCHANGED <<approverVars, config, latest, guessVars, now>>

\* The stores have been rewritten and the reset is in the audit log.
InitCancel(p) == /\ pc[p] = "cancelling"
                 /\ Goto(p, "resetting")
                 /\ Race("config", Configuring)
                 /\ UNCHANGED <<approverVars, adminVars, guessVars, now>>

\* Mutant of SetBegin: the file is written without what it held.
SetAlone(p) == /\ pc[p] = "idle"
               /\ config.state # "empty"
               /\ \E w \in Workspaces :
                     draft' = [draft EXCEPT ![p] =
                        [state |-> "whole", hash |-> 0, workspace |-> w]]
               /\ Goto(p, "setting")
               /\ Race("config", Configuring)
               /\ UNCHANGED <<approverVars, config, latest, chosen, guessVars, now>>

\* workspace set reads the file, absent or whole (one that cannot be parsed
\* raises), and keeps its other keys.
SetBegin(p) == /\ pc[p] = "idle"
               /\ config.state # "empty"
               /\ \E w \in Workspaces :
                     draft' = [draft EXCEPT ![p] =
                        [state |-> "whole", hash |-> config.hash, workspace |-> w]]
               /\ Goto(p, "setting")
               /\ Race("config", Configuring)
               /\ UNCHANGED <<approverVars, config, latest, chosen, guessVars, now>>

\* Both writers truncate config.json and fill it.  Only an init-approval that
\* has ended has chosen the passphrase.
TruncateConfig(p) == /\ pc[p] \in {"setting", "resetting"}
                     /\ config' = Unreadable("empty")
                     /\ Goto(p, "filling")
                     /\ UNCHANGED <<approverVars, draft, latest, chosen,
                                    guessVars, now, raced>>

WriteConfig(p) == /\ pc[p] = "filling"
                  /\ config' = draft[p]
                  /\ latest' = IF draft[p].workspace = NoWorkspace
                               THEN draft[p].hash ELSE latest
                  /\ End(p)
                  /\ UNCHANGED <<lockout, chosen, guessVars, now, raced>>

Administer(p) == \/ InitBegin(p) \/ InitCancel(p) \/ SetBegin(p)
                 \/ TruncateConfig(p) \/ WriteConfig(p)

-----------------------------------------------------------------------------
\* A process dies, is interrupted at its prompt, or its call raises.  What it
\* had yet to count or write is lost.
Crash(p) == /\ pc[p] # "idle"
            /\ End(p)
            /\ raced' = raced \cup
                  (IF p \in Counting \/ pc[p] = "failing" THEN {"lockout"} ELSE {}) \cup
                  (IF p \in Configuring THEN {"config"} ELSE {})
            /\ UNCHANGED <<lockout, config, latest, chosen, guessVars, now>>

Tick == /\ now < MaxTime
        /\ now' = now + 1
        /\ UNCHANGED <<pc, approverVars, adminVars, guessVars, raced>>

Next == \/ \E p \in Approvers : Approve(p)
        \/ \E p \in Admins : Administer(p)
        \/ \E p \in Approvers \cup Admins : Crash(p)
        \/ Tick

Spec == Init /\ [][Next]_vars

-----------------------------------------------------------------------------
\* Guesses in a row are bounded, as the lockout of approvals.py:114-124 means
\* them to be: whoever has a prompt open when the lock falls has one guess
\* left, and nobody else has any before the lock expires.  Only prompts that
\* record at the same moment, or one that dies uncounted, can lose a count.
GuessesBounded ==
    "lockout" \notin raced => streak < MaxAttempts + Cardinality(Approvers)

\* Nobody is locked out who has not failed MaxAttempts times, whatever races,
\* torn files and crashes do to the count (approvals.py:118-119).
LockIsEarned == lockout.until # 0 => wrong >= MaxAttempts

\* The passphrase in force is the one that was chosen last: setting the
\* workspace (context.py:69-83) does not bring an older one back, as long as
\* it does not overlap with init-approval.
LatestPassphrase ==
    ("config" \notin raced /\ config.state = "whole") => config.hash = latest
=============================================================================
