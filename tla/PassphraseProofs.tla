-------------------------- MODULE PassphraseProofs --------------------------
(***************************************************************************)
(* The passphrase prompts and the writers of the configuration, for any    *)
(* number of processes, bounds and crashes: guesses in a row are bounded,  *)
(* a lock is earned, and the passphrase in force is the one chosen last.   *)
(***************************************************************************)
EXTENDS Passphrase, FiniteSetTheorems, TLAPS

All == Approvers \cup Admins

LEMMA ConstantFacts ==
    /\ None \in Counts
    /\ \A state \in {"absent", "empty", "whole"} : Unreadable(state) \in Configs
    /\ 0 \in 0..MaxPassphrase /\ MaxAttempts \in Nat \ {0} /\ LockSeconds \in Nat \ {0}
    /\ MaxTime \in Nat
  BY BoundsAssumption DEF None, Counts, Unreadable, Configs

LEMMA FailureType == ASSUME NEW n \in Nat, now \in Nat PROVE Failure(n) \in Counts
  BY BoundsAssumption DEF Failure, Counts

\* A call that ends leaves the locals of everybody well-formed.
LEMMA EndKeeps ==
    ASSUME TypeOK, NEW p \in All, End(p), lockout' \in Counts, config' \in Configs,
           latest' \in 0..MaxPassphrase, chosen' \in 0..MaxPassphrase,
           now' \in 0..MaxTime, wrong' \in Nat, streak' \in Nat,
           raced' \subseteq {"lockout", "config"}
    PROVE  TypeOK'
<1>1. pc' \in [Approvers \cup Admins -> ApproverPhases \cup AdminPhases]
  BY DEF TypeOK, End, Goto, ApproverPhases, AdminPhases, All
<1>2. /\ prompted' \in [Approvers -> BOOLEAN]
      /\ counts' \in [Approvers -> Counts]
      /\ then' \in [Approvers -> {"idle", "prompting", "approved"}]
  BY ConstantFacts DEF TypeOK, End
<1>3. draft' \in [Admins -> Configs]
  BY ConstantFacts DEF TypeOK, End
<1> QED BY <1>1, <1>2, <1>3 DEF TypeOK

LEMMA TypeInductive == TypeOK /\ [Next]_vars => TypeOK'
<1> SUFFICES ASSUME TypeOK, [Next]_vars PROVE TypeOK'
  OBVIOUS
<1> USE ConstantFacts
<1>1. now \in Nat
  BY DEF TypeOK
<1>2. ASSUME NEW p \in Approvers, Approve(p) PROVE TypeOK'
  <2>1. CASE Load(p)
    BY <2>1 DEF Load, Goto, TypeOK, adminVars, guessVars, ApproverPhases
  <2>2. CASE Held(p)
    BY <2>2 DEF Held, ReadLockout, Race, Goto, TypeOK, adminVars, guessVars, ApproverPhases
  <2>8. CASE Lapsed(p)
    BY <2>8 DEF Lapsed, Goto, TypeOK, adminVars, ApproverPhases
  <2>9. CASE Unlocked(p)
    BY <2>9 DEF Unlocked, ReadLockout, Race, Goto, TypeOK, approverVars, adminVars, guessVars,
          ApproverPhases
  <2>10. CASE Refused(p) \/ Return(p)
    <3>1. End(p) /\ UNCHANGED <<lockout, config, latest, chosen, wrong, streak, now, raced>>
      BY <2>10 DEF Refused, Return, guessVars
    <3> QED BY <3>1, EndKeeps DEF All, TypeOK
  <2>3. CASE Expired(p)
    BY <2>3 DEF Expired, Decide, ReadLockout, Race, Goto, TypeOK, adminVars, ApproverPhases
  <2>11. CASE Right(p)
    BY <2>11 DEF Right, Decide, Race, Goto, TypeOK, adminVars, ApproverPhases
  <2>4. CASE Wrong(p)
    BY <2>4 DEF Wrong, Goto, TypeOK, approverVars, adminVars, ApproverPhases
  <2>5. CASE Count(p)
    <3>1. Failure(lockout.failed + 1) \in Counts
      BY <1>1, FailureType DEF TypeOK, Counts
    <3> QED BY <2>5, <3>1 DEF Count, Decide, ReadLockout, Race, Goto, TypeOK, adminVars,
               guessVars, ApproverPhases
  <2>6. CASE Truncate(p)
    BY <2>6 DEF Truncate, Goto, TypeOK, adminVars, guessVars, ApproverPhases
  <2>7. CASE Write(p)
    <3>1. CASE then[p] = "idle"
      <4>1. /\ End(p) /\ lockout' \in Counts
            /\ UNCHANGED <<config, latest, chosen, wrong, streak, now, raced>>
        BY <2>7, <3>1 DEF Write, TypeOK, guessVars
      <4> QED BY <4>1, EndKeeps DEF All, TypeOK
    <3>2. CASE then[p] # "idle"
      BY <2>7, <3>2 DEF Write, Goto, TypeOK, guessVars, ApproverPhases
    <3> QED BY <3>1, <3>2
  <2> QED BY <1>2, <2>1, <2>2, <2>3, <2>4, <2>5, <2>6, <2>7, <2>8, <2>9, <2>10, <2>11
             DEF Approve, CheckLock
<1>3. ASSUME NEW p \in Admins, Administer(p) PROVE TypeOK'
  <2>1. CASE InitBegin(p)
    <3>1. [state |-> "whole", hash |-> chosen + 1, workspace |-> NoWorkspace] \in Configs
      BY <2>1, BoundsAssumption DEF InitBegin, TypeOK, Configs
    <3>2. chosen' \in 0..MaxPassphrase
      BY <2>1, BoundsAssumption DEF InitBegin, TypeOK
    <3> QED BY <2>1, <3>1, <3>2 DEF InitBegin, Race, Goto, TypeOK, approverVars, guessVars,
               AdminPhases
  <2>2. CASE SetBegin(p)
    <3>1. \A w \in Workspaces :
             [state |-> "whole", hash |-> config.hash, workspace |-> w] \in Configs
      BY DEF TypeOK, Configs
    <3> QED BY <2>2, <3>1 DEF SetBegin, Race, Goto, TypeOK, approverVars, guessVars,
               AdminPhases
  <2>3. CASE InitCancel(p) \/ TruncateConfig(p)
    BY <2>3 DEF InitCancel, TruncateConfig, Race, Goto, TypeOK, approverVars, adminVars,
          guessVars, AdminPhases
  <2>4. CASE WriteConfig(p)
    <3>1. draft[p] \in Configs /\ draft[p].hash \in 0..MaxPassphrase
      BY DEF TypeOK, Configs
    <3>2. /\ End(p) /\ config' \in Configs /\ latest' \in 0..MaxPassphrase
          /\ UNCHANGED <<lockout, chosen, wrong, streak, now, raced>>
      BY <2>4, <3>1 DEF WriteConfig, guessVars, TypeOK
    <3> QED BY <3>2, EndKeeps DEF All, TypeOK
  <2> QED BY <1>3, <2>1, <2>2, <2>3, <2>4 DEF Administer
<1>4. ASSUME NEW p \in All, Crash(p) PROVE TypeOK'
  <2>1. /\ End(p) /\ raced' \subseteq {"lockout", "config"}
        /\ UNCHANGED <<lockout, config, latest, chosen, wrong, streak, now>>
    BY <1>4 DEF Crash, guessVars, TypeOK
  <2> QED BY <2>1, EndKeeps DEF All, TypeOK
<1>5. CASE Tick \/ UNCHANGED vars
  <2>1. now' \in 0..MaxTime
    BY <1>5 DEF Tick, vars, TypeOK
  <2>2. UNCHANGED <<pc, approverVars, adminVars, guessVars, raced>>
    BY <1>5 DEF Tick, vars
  <2> QED BY <2>1, <2>2 DEF TypeOK, approverVars, adminVars, guessVars
<1> QED BY <1>2, <1>3, <1>4, <1>5 DEF Next, All

\* The files, the prompts and the drafts stay well-formed.
THEOREM TypeCorrect == Spec => []TypeOK
<1>1. Init => TypeOK
  BY ConstantFacts DEF Init, TypeOK, ApproverPhases
<1> QED BY <1>1, TypeInductive, PTL DEF Spec

-----------------------------------------------------------------------------
\* The prompts whose wrong guess is not counted yet.
Failing == {p \in Approvers : pc[p] = "failing"}
Prompting == {p \in Approvers : pc[p] = "prompting"}

\* The phase of every process but p stays what it is.
Moves(p, phase) == /\ pc'[p] = phase
                   /\ \A q \in All : q # p => pc'[q] = pc[q]

LEMMA GotoMoves == ASSUME TypeOK, NEW p \in All, NEW phase, Goto(p, phase)
                   PROVE  Moves(p, phase)
  BY DEF TypeOK, Goto, Moves, All

LEMMA EndMoves == ASSUME TypeOK, NEW p \in All, End(p)
                  PROVE  /\ Moves(p, "idle")
                         /\ \A q \in Approvers : counts'[q] = IF q = p THEN None ELSE counts[q]
                         /\ \A q \in Admins : q # p => draft'[q] = draft[q]
  BY GotoMoves DEF End

LEMMA FiniteCounts == /\ IsFiniteSet(Failing) /\ IsFiniteSet(Prompting)
                      /\ Cardinality(Failing) \in Nat /\ Cardinality(Prompting) \in Nat
                      /\ Cardinality(Failing) + Cardinality(Prompting) <= Cardinality(Approvers)
<1>1. IsFiniteSet(Failing) /\ IsFiniteSet(Prompting)
  BY ApproversAssumption, FS_Subset DEF Failing, Prompting
<1>2. Failing \cap Prompting = {} /\ Failing \cup Prompting \in SUBSET Approvers
  BY DEF Failing, Prompting
<1>3. Cardinality(Failing \cup Prompting) = Cardinality(Failing) + Cardinality(Prompting)
  <2>1. Cardinality(Failing \cup Prompting)
          = Cardinality(Failing) + Cardinality(Prompting) - Cardinality(Failing \cap Prompting)
    BY <1>1, FS_Union
  <2>2. Cardinality(Failing \cap Prompting) = 0
    BY <1>2, FS_EmptySet
  <2>3. Cardinality(Failing) \in Nat /\ Cardinality(Prompting) \in Nat
    BY <1>1, FS_CardinalityType
  <2> QED BY <2>1, <2>2, <2>3
<1>4. Cardinality(Failing \cup Prompting) <= Cardinality(Approvers)
  BY <1>2, ApproversAssumption, FS_Subset
<1> QED BY <1>1, <1>3, <1>4, FS_CardinalityType

LEMMA FiniteAfter == Cardinality(Failing') \in Nat /\ Cardinality(Prompting') \in Nat
<1>1. IsFiniteSet(Failing') /\ IsFiniteSet(Prompting')
  BY ApproversAssumption, FS_Subset DEF Failing, Prompting
<1> QED BY <1>1, FS_CardinalityType

\* What a move does to the two sets.
LEMMA MoveCounts ==
    ASSUME NEW p \in Approvers, NEW phase, Moves(p, phase)
    PROVE  /\ Failing' = IF phase = "failing" THEN Failing \cup {p} ELSE Failing \ {p}
           /\ Prompting' = IF phase = "prompting" THEN Prompting \cup {p} ELSE Prompting \ {p}
           /\ Cardinality(Failing') = Cardinality(Failing)
                + (IF phase = "failing" THEN 1 ELSE 0) - (IF pc[p] = "failing" THEN 1 ELSE 0)
           /\ Cardinality(Prompting') = Cardinality(Prompting)
                + (IF phase = "prompting" THEN 1 ELSE 0) - (IF pc[p] = "prompting" THEN 1 ELSE 0)
<1>1. Failing' = IF phase = "failing" THEN Failing \cup {p} ELSE Failing \ {p}
  BY DEF Failing, Moves, All
<1>2. Prompting' = IF phase = "prompting" THEN Prompting \cup {p} ELSE Prompting \ {p}
  BY DEF Prompting, Moves, All
<1>3. (p \in Failing <=> pc[p] = "failing") /\ (p \in Prompting <=> pc[p] = "prompting")
  BY DEF Failing, Prompting
<1>4. /\ Cardinality(Failing \cup {p}) = IF p \in Failing THEN Cardinality(Failing)
                                         ELSE Cardinality(Failing) + 1
      /\ Cardinality(Failing \ {p}) = IF p \in Failing THEN Cardinality(Failing) - 1
                                      ELSE Cardinality(Failing)
  BY FiniteCounts, FS_AddElement, FS_RemoveElement
<1>5. /\ Cardinality(Prompting \cup {p}) = IF p \in Prompting THEN Cardinality(Prompting)
                                           ELSE Cardinality(Prompting) + 1
      /\ Cardinality(Prompting \ {p}) = IF p \in Prompting THEN Cardinality(Prompting) - 1
                                        ELSE Cardinality(Prompting)
  BY FiniteCounts, FS_AddElement, FS_RemoveElement
<1>6. /\ Cardinality(Failing') = Cardinality(Failing)
           + (IF phase = "failing" THEN 1 ELSE 0) - (IF pc[p] = "failing" THEN 1 ELSE 0)
  BY <1>1, <1>3, <1>4, FiniteCounts
<1>7. /\ Cardinality(Prompting') = Cardinality(Prompting)
           + (IF phase = "prompting" THEN 1 ELSE 0) - (IF pc[p] = "prompting" THEN 1 ELSE 0)
  BY <1>2, <1>3, <1>5, FiniteCounts
<1> QED BY <1>1, <1>2, <1>6, <1>7

LEMMA AdminMoves == ASSUME NEW p \in Admins, NEW phase, Moves(p, phase)
                    PROVE  /\ Failing' = Failing /\ Prompting' = Prompting
                           /\ \A q \in Approvers : pc'[q] = pc[q]
  BY RolesAssumption DEF Failing, Prompting, Moves, All

-----------------------------------------------------------------------------
\* A count in a file or on its way there never exceeds the wrong guesses that
\* have been counted, and locks only when they are enough.
Justified(c) == /\ c.until # 0 => c.failed >= MaxAttempts
                /\ c.failed + Cardinality(Failing) <= wrong

EarnedInv == Justified(lockout) /\ \A q \in Approvers : Justified(counts[q])

\* Counts are copied or forgotten.
LEMMA EarnedKept ==
    ASSUME TypeOK, TypeOK', EarnedInv,
           Cardinality(Failing') + wrong <= Cardinality(Failing) + wrong',
           Cardinality(Failing') \in Nat,
           lockout' \in {lockout, None} \cup {counts[q] : q \in Approvers},
           \A q \in Approvers : counts'[q] \in {counts[q], lockout, None}
    PROVE  EarnedInv'
<1>1. /\ Cardinality(Failing) \in Nat /\ wrong \in Nat /\ wrong' \in Nat
      /\ \A c \in Counts : c.failed \in Nat
  BY FiniteCounts DEF TypeOK, Counts
<1>2. lockout \in Counts /\ \A q \in Approvers : counts[q] \in Counts
  BY DEF TypeOK
<1>3. Justified(None)
  BY <1>1, <1>2 DEF EarnedInv, Justified, None
<1>4. ASSUME NEW c \in Counts, Justified(c)
      PROVE  /\ c.until # 0 => c.failed >= MaxAttempts
             /\ c.failed + Cardinality(Failing') <= wrong'
  BY <1>1, <1>4 DEF Justified
<1>5. lockout' \in Counts /\ Justified(lockout')
  BY <1>2, <1>3, ConstantFacts DEF EarnedInv
<1>6. \A q \in Approvers : counts'[q] \in Counts /\ Justified(counts'[q])
  BY <1>2, <1>3, ConstantFacts DEF EarnedInv
<1> QED BY <1>4, <1>5, <1>6 DEF EarnedInv, Justified

LEMMA EarnedInductive ==
    ASSUME TypeOK, TypeOK', EarnedInv, [Next]_vars
    PROVE  EarnedInv'
<1>1. /\ Cardinality(Failing) \in Nat /\ wrong \in Nat
      /\ \A q \in Approvers : q \in All /\ counts[q] \in Counts
      /\ \A q \in Admins : q \in All
  BY FiniteCounts DEF TypeOK, All
<1>2. ASSUME NEW p \in Approvers, Approve(p) PROVE EarnedInv'
  <2>1. ASSUME NEW phase, Moves(p, phase), phase # "failing", UNCHANGED wrong,
               lockout' \in {lockout, None} \cup {counts[q] : q \in Approvers},
               \A q \in Approvers : counts'[q] \in {counts[q], lockout, None}
        PROVE  EarnedInv'
    <3>1. Cardinality(Failing') + wrong <= Cardinality(Failing) + wrong'
      BY <1>1, <2>1, MoveCounts
    <3>2. Cardinality(Failing') \in Nat
      BY FiniteAfter
    <3> QED BY <2>1, <3>1, <3>2, EarnedKept
  <2>2. CASE Load(p) \/ Unlocked(p)
    BY <1>1, <2>1, <2>2, GotoMoves DEF Load, Unlocked, approverVars, guessVars
  <2>3. CASE Held(p) \/ Lapsed(p)
    BY <1>1, <2>1, <2>3, GotoMoves DEF Held, Lapsed, guessVars, TypeOK
  <2>4. CASE Refused(p) \/ Return(p)
    BY <1>1, <2>1, <2>4, EndMoves DEF Refused, Return, guessVars
  <2>5. CASE Expired(p) \/ Right(p)
    BY <1>1, <2>1, <2>5, GotoMoves DEF Expired, Right, Decide, guessVars, TypeOK
  <2>6. CASE Truncate(p)
    BY <1>1, <2>1, <2>6, GotoMoves DEF Truncate, guessVars
  <2>7. CASE Write(p)
    <3>1. CASE then[p] = "idle"
      BY <1>1, <2>1, <2>7, <3>1, EndMoves DEF Write, guessVars
    <3>2. CASE then[p] # "idle"
      <4>1. then[p] # "failing"
        BY DEF TypeOK
      <4> QED BY <1>1, <2>1, <2>7, <3>2, <4>1, GotoMoves DEF Write, guessVars, TypeOK
    <3> QED BY <3>1, <3>2
  <2>8. CASE Wrong(p)
    <3>1. Cardinality(Failing') = Cardinality(Failing) + 1 /\ wrong' = wrong + 1
      BY <1>1, <2>8, GotoMoves, MoveCounts DEF Wrong
    <3> QED BY <1>1, <2>8, <3>1, EarnedKept DEF Wrong, approverVars
  <2>9. CASE Count(p)
    <3>1. Cardinality(Failing') = Cardinality(Failing) - 1 /\ wrong' = wrong
      BY <1>1, <2>9, GotoMoves, MoveCounts DEF Count, Decide, guessVars
    <3>2. /\ lockout' = lockout
          /\ \A q \in Approvers : counts'[q] = IF q = p THEN Failure(lockout.failed + 1)
                                               ELSE counts[q]
      BY <2>9 DEF Count, Decide, TypeOK
    <3>3. lockout.failed \in Nat /\ \A q \in Approvers : counts[q].failed \in Nat
      BY DEF TypeOK, Counts
    <3>4. Failure(lockout.failed + 1).failed = lockout.failed + 1
      BY DEF Failure
    <3>5. Failure(lockout.failed + 1).until # 0 => lockout.failed + 1 >= MaxAttempts
      BY DEF Failure
    <3> QED BY <1>1, <3>1, <3>2, <3>3, <3>4, <3>5 DEF EarnedInv, Justified
  <2> QED BY <1>2, <2>2, <2>3, <2>4, <2>5, <2>6, <2>7, <2>8, <2>9 DEF Approve, CheckLock
<1>3. ASSUME UNCHANGED <<lockout, wrong, Failing>>,
             \A q \in Approvers : counts'[q] \in {counts[q], None}
      PROVE  EarnedInv'
  BY <1>1, <1>3, EarnedKept
<1>4. ASSUME NEW p \in Admins, Administer(p) PROVE EarnedInv'
  <2>1. \E phase : Moves(p, phase)
    BY <1>1, <1>4, GotoMoves, EndMoves
    DEF Administer, InitBegin, InitCancel, SetBegin, TruncateConfig, WriteConfig
  <2>2. Failing' = Failing
    BY <2>1, AdminMoves
  <2>3. UNCHANGED <<lockout, wrong>> /\ \A q \in Approvers : counts'[q] \in {counts[q], None}
    BY <1>1, <1>4, EndMoves
    DEF Administer, InitBegin, InitCancel, SetBegin, TruncateConfig, WriteConfig,
        approverVars, guessVars
  <2> QED BY <1>3, <2>2, <2>3
<1>5. ASSUME NEW p \in All, Crash(p) PROVE EarnedInv'
  <2>1. /\ Moves(p, "idle") /\ UNCHANGED <<lockout, wrong>>
        /\ \A q \in Approvers : counts'[q] \in {counts[q], None}
    BY <1>5, EndMoves DEF Crash, guessVars
  <2>2. CASE p \in Approvers
    <3>1. Cardinality(Failing') <= Cardinality(Failing) /\ Cardinality(Failing') \in Nat
      BY <1>1, <2>1, <2>2, MoveCounts, FiniteAfter
    <3> QED BY <1>1, <2>1, <3>1, EarnedKept
  <2>3. CASE p \in Admins
    BY <1>3, <2>1, <2>3, AdminMoves
  <2> QED BY <2>2, <2>3 DEF All
<1>6. CASE Tick \/ UNCHANGED vars
  BY <1>3, <1>6 DEF Tick, vars, approverVars, guessVars, Failing
<1> QED BY <1>2, <1>4, <1>5, <1>6 DEF Next, All

\* Nobody is locked out who has not failed MaxAttempts times, whatever races,
\* torn files and deaths do to the counter (approvals.py:118-119).
THEOREM LockoutsAreEarned == Spec => []LockIsEarned
<1>1. Init => EarnedInv
  <2>1. Init => Failing = {}
    BY DEF Init, Failing
  <2> QED BY <2>1, FS_EmptySet DEF Init, EarnedInv, Justified, None
<1>2. TypeOK /\ EarnedInv => LockIsEarned
  BY FiniteCounts, ConstantFacts DEF TypeOK, Counts, EarnedInv, Justified, LockIsEarned
<1>3. TypeOK /\ TypeOK' /\ EarnedInv /\ [Next]_vars => EarnedInv'
  BY EarnedInductive
<1> QED BY <1>1, <1>2, <1>3, TypeCorrect, PTL DEF Spec

-----------------------------------------------------------------------------
\* The writers of the configuration, one at a time unless they raced.  Setting
\* the workspace keeps the passphrase; init-approval brings its own.
Keeps(p) == pc[p] = "setting" \/ (pc[p] = "filling" /\ draft[p].workspace # NoWorkspace)

Choosing(p) == pc[p] \in {"cancelling", "resetting"}

Solo == \A p, q \in Configuring : p = q

ConfigInv ==
    /\ Solo
    /\ config.state = "whole" => config.hash = latest
    /\ config.state = "absent" => config.hash = latest
    /\ config.state = "empty" => \E p \in Admins : pc[p] = "filling"
    /\ \A p \in Admins : Keeps(p) => draft[p].hash = latest
    /\ \A p \in Admins : pc[p] = "setting" => draft[p].workspace # NoWorkspace
    /\ \A p \in Admins : Choosing(p) => draft[p].workspace = NoWorkspace
    /\ \A p \in Admins : pc[p] # "idle" => draft[p].state = "whole"

LatestInv == "config" \notin raced => ConfigInv

LEMMA ConfigUntouched ==
    ASSUME ConfigInv, UNCHANGED <<config, latest>>,
           \A p \in Admins : \/ pc'[p] = pc[p] /\ draft'[p] = draft[p]
                             \/ pc'[p] = "idle" /\ p \notin Configuring
    PROVE  ConfigInv'
<1>1. Configuring' = Configuring
  BY DEF Configuring
<1>2. \A p \in Configuring : pc'[p] = pc[p] /\ draft'[p] = draft[p]
  BY DEF Configuring
<1>3. \A p \in Admins : pc[p] = "filling" => pc'[p] = "filling"
  BY <1>2 DEF Configuring
<1>4. \A p \in Admins : /\ Keeps(p)' => Keeps(p) /\ draft'[p] = draft[p]
                        /\ Choosing(p)' => Choosing(p) /\ draft'[p] = draft[p]
  BY DEF Keeps, Choosing
<1> QED BY <1>1, <1>3, <1>4 DEF ConfigInv, Solo

\* A writer comes into its window, alone.
LEMMA ConfigEntered ==
    ASSUME TypeOK, ConfigInv, UNCHANGED <<config, latest>>, NEW p \in Admins,
           Configuring \ {p} = {}, Moves(p, "setting") \/ Moves(p, "resetting"),
           \A q \in Admins : q # p => draft'[q] = draft[q],
           draft'[p].state = "whole", config.state # "empty" \/ pc[p] # "filling",
           pc'[p] = "setting" => draft'[p].hash = latest /\ draft'[p].workspace # NoWorkspace,
           pc'[p] = "resetting" => draft'[p].workspace = NoWorkspace
    PROVE  ConfigInv'
<1>1. Configuring' = {p}
  BY DEF Configuring, Moves, All
<1>2. \A q \in Admins : q # p => pc'[q] = pc[q] /\ ~Keeps(q)' /\ pc[q] # "filling"
  BY DEF Configuring, Moves, All, Keeps
<1> QED BY <1>1, <1>2 DEF ConfigInv, Solo, Moves, Keeps, Choosing

LEMMA LatestInductive ==
    ASSUME TypeOK, TypeOK', LatestInv, [Next]_vars
    PROVE  LatestInv'
<1> SUFFICES ASSUME "config" \notin raced' PROVE ConfigInv'
  BY DEF LatestInv
<1> USE RolesAssumption DEF All
<1>1. ConfigInv /\ raced \subseteq raced'
  <2>1. raced \subseteq raced'
    BY DEF Next, Approve, Load, CheckLock, Held, Refused, Lapsed, Expired, Unlocked, Right,
           Wrong, Count, Truncate, Write, Return, Administer, InitBegin, InitCancel, SetBegin,
           TruncateConfig, WriteConfig, Crash, Tick, ReadLockout, Race, vars
  <2> QED BY <2>1 DEF LatestInv
<1>2. ASSUME NEW p \in Approvers, Approve(p) PROVE ConfigInv'
  <2>1. ASSUME NEW phase, Moves(p, phase), \A q \in Admins : draft'[q] = draft[q],
               UNCHANGED <<config, latest>>
        PROVE  ConfigInv'
    BY <1>1, <2>1, ConfigUntouched DEF Moves
  <2>2. CASE Load(p) \/ Held(p) \/ Lapsed(p) \/ Unlocked(p) \/ Wrong(p) \/ Truncate(p)
    BY <2>1, <2>2, GotoMoves
    DEF Load, Held, Lapsed, Unlocked, Wrong, Truncate, adminVars
  <2>3. CASE Expired(p) \/ Right(p) \/ Count(p)
    BY <2>1, <2>3, GotoMoves DEF Expired, Right, Count, Decide, adminVars
  <2>4. CASE Refused(p) \/ Return(p)
    BY <2>1, <2>4, EndMoves DEF Refused, Return
  <2>5. CASE Write(p)
    BY <2>1, <2>5, EndMoves, GotoMoves DEF Write
  <2> QED BY <1>2, <2>2, <2>3, <2>4, <2>5 DEF Approve, CheckLock
<1>3. ASSUME NEW p \in Admins, InitBegin(p) PROVE ConfigInv'
  <2>1. /\ pc[p] = "idle" /\ UNCHANGED <<config, latest>>
        /\ draft'[p].state = "whole" /\ draft'[p].workspace = NoWorkspace
        /\ \A q \in Admins : q # p => draft'[q] = draft[q]
    BY <1>3 DEF InitBegin, TypeOK
  <2>2. CASE config.state = "absent"
    <3>1. Moves(p, "resetting") /\ Configuring = {}
      BY <1>3, <2>2, GotoMoves DEF InitBegin, Race
    <3> QED BY <1>1, <2>1, <3>1, ConfigEntered DEF Moves
  <2>3. CASE config.state # "absent"
    <3>1. Moves(p, "cancelling")
      BY <1>3, <2>3, GotoMoves DEF InitBegin
    <3>2. /\ Configuring' = Configuring
          /\ \A q \in Admins : /\ Keeps(q)' <=> Keeps(q)
                               /\ q # p => (Choosing(q)' <=> Choosing(q))
      BY <2>1, <3>1 DEF Configuring, Moves, Keeps, Choosing
    <3>3. ~Keeps(p) /\ pc'[p] = "cancelling" /\ \A q \in Admins : q # p => pc'[q] = pc[q]
      BY <2>1, <3>1 DEF Moves, Keeps
    <3>4. \A q \in Admins : Choosing(q)' => draft'[q].workspace = NoWorkspace
      BY <1>1, <2>1, <3>2 DEF ConfigInv
    <3>5. config'.state = "empty" => \E q \in Admins : pc'[q] = "filling"
      BY <1>1, <2>1, <3>3 DEF ConfigInv
    <3>6. \A q \in Admins : Keeps(q)' => draft'[q].hash = latest'
      BY <1>1, <2>1, <3>2, <3>3 DEF ConfigInv
    <3> QED BY <1>1, <2>1, <3>2, <3>3, <3>4, <3>5, <3>6 DEF ConfigInv, Solo
  <2> QED BY <2>2, <2>3
<1>4. ASSUME NEW p \in Admins, InitCancel(p) PROVE ConfigInv'
  <2>1. /\ Moves(p, "resetting") /\ Configuring = {} /\ UNCHANGED <<config, latest, draft>>
        /\ pc[p] = "cancelling"
    BY <1>4, GotoMoves DEF InitCancel, Race, adminVars
  <2> QED BY <1>1, <2>1, ConfigEntered DEF Moves, ConfigInv, Choosing
<1>5. ASSUME NEW p \in Admins, SetBegin(p) PROVE ConfigInv'
  <2>1. PICK w \in Workspaces :
           draft' = [draft EXCEPT ![p] =
              [state |-> "whole", hash |-> config.hash, workspace |-> w]]
    BY <1>5 DEF SetBegin
  <2>2. /\ draft'[p].state = "whole" /\ draft'[p].hash = config.hash
        /\ draft'[p].workspace # NoWorkspace
        /\ \A q \in Admins : q # p => draft'[q] = draft[q]
    BY <2>1, WorkspaceAssumption DEF TypeOK
  <2>3. /\ Moves(p, "setting") /\ Configuring = {} /\ UNCHANGED <<config, latest>>
        /\ pc[p] = "idle" /\ config.state # "empty"
    BY <1>5, GotoMoves DEF SetBegin, Race
  <2>4. config.hash = latest
    BY <1>1, <2>3 DEF ConfigInv, TypeOK, Configs
  <2> QED BY <1>1, <2>2, <2>3, <2>4, ConfigEntered DEF Moves
<1>6. ASSUME NEW p \in Admins, TruncateConfig(p) PROVE ConfigInv'
  <2>1. /\ Moves(p, "filling") /\ config' = Unreadable("empty") /\ UNCHANGED <<latest, draft>>
        /\ pc[p] \in {"setting", "resetting"}
    BY <1>6, GotoMoves DEF TruncateConfig
  <2>2. Configuring' = Configuring /\ config'.state = "empty" /\ pc'[p] = "filling"
    BY <2>1 DEF Moves, Configuring, Unreadable
  <2>3. \A q \in Admins : q # p => pc'[q] = pc[q] /\ pc[q] # "setting" /\ pc[q] # "filling"
    BY <1>1, <2>1 DEF Moves, ConfigInv, Solo, Configuring
  <2>4. \A q \in Admins : pc'[q] # "setting" /\ (Keeps(q)' => q = p)
                           /\ (Choosing(q)' => Choosing(q))
    BY <2>2, <2>3 DEF Keeps, Choosing
  <2>5. Keeps(p)' => draft'[p].hash = latest'
    <3>1. CASE pc[p] = "setting"
      BY <1>1, <2>1, <3>1 DEF ConfigInv, Keeps
    <3>2. CASE pc[p] = "resetting"
      BY <1>1, <2>1, <2>2, <3>2 DEF ConfigInv, Keeps, Choosing
    <3> QED BY <2>1, <3>1, <3>2
  <2> QED BY <1>1, <2>1, <2>2, <2>3, <2>4, <2>5 DEF ConfigInv, Solo
<1>7. ASSUME NEW p \in Admins, WriteConfig(p) PROVE ConfigInv'
  <2>1. /\ Moves(p, "idle") /\ config' = draft[p] /\ pc[p] = "filling"
        /\ \A q \in Admins : q # p => draft'[q] = draft[q]
        /\ latest' = IF draft[p].workspace = NoWorkspace THEN draft[p].hash ELSE latest
    BY <1>7, EndMoves DEF WriteConfig
  <2>2. \A q \in Admins : q # p => pc'[q] = pc[q] /\ q \notin Configuring
    BY <1>1, <2>1 DEF Moves, ConfigInv, Solo, Configuring
  <2>3. Configuring' = {} /\ \A q \in Admins : /\ ~Keeps(q)' /\ pc'[q] # "setting"
                                               /\ Choosing(q)' => (Choosing(q) /\ q # p)
    BY <2>1, <2>2 DEF Moves, Configuring, Keeps, Choosing
  <2>4. draft[p].state = "whole"
    BY <1>1, <2>1 DEF ConfigInv
  <2>5. config'.hash = latest'
    BY <1>1, <2>1 DEF ConfigInv, Keeps
  <2> QED BY <1>1, <2>1, <2>2, <2>3, <2>4, <2>5 DEF ConfigInv, Solo, Moves
<1>8. ASSUME NEW p \in Admins \cup Approvers, Crash(p) PROVE ConfigInv'
  <2>1. /\ Moves(p, "idle") /\ \A q \in Admins : q # p => draft'[q] = draft[q]
        /\ UNCHANGED <<config, latest>>
    BY <1>8, EndMoves DEF Crash
  <2>2. p \notin Configuring
    BY <1>8 DEF Crash
  <2> QED BY <1>1, <2>1, <2>2, ConfigUntouched DEF Moves
<1>9. CASE Tick \/ UNCHANGED vars
  BY <1>1, <1>9, ConfigUntouched DEF Tick, vars, adminVars
<1> QED BY <1>2, <1>3, <1>4, <1>5, <1>6, <1>7, <1>8, <1>9 DEF Next, Administer

\* The passphrase of the last init-approval that ended is the one in force:
\* while no two writers of config.json overlapped and none died, whatever
\* workspace set keeps or truncates (context.py:70-80, approvals.py:244-254).
THEOREM LatestIsInForce == Spec => []LatestPassphrase
<1>1. Init => LatestInv
  BY RolesAssumption
  DEF Init, Unreadable, LatestInv, ConfigInv, Solo, Configuring, Keeps, Choosing
<1>2. TypeOK /\ LatestInv => LatestPassphrase
  BY DEF TypeOK, Configs, LatestInv, ConfigInv, LatestPassphrase
<1>3. TypeOK /\ TypeOK' /\ LatestInv /\ [Next]_vars => LatestInv'
  BY LatestInductive
<1> QED BY <1>1, <1>2, <1>3, TypeCorrect, PTL DEF Spec

-----------------------------------------------------------------------------
\* What the counter in force says of the guesses made since the last right one:
\* while it does not lock, it counts them all but those on their way; once it
\* does, no more than one for each prompt that was open can come.
Balanced(c) ==
    IF c.until = 0
    THEN c.failed < MaxAttempts /\ streak <= c.failed + Cardinality(Failing)
    ELSE /\ c.failed >= MaxAttempts
         /\ streak + Cardinality(Prompting) < MaxAttempts + Cardinality(Approvers)

CountInv == /\ \A p, q \in Counting : p = q
            /\ \A p \in Counting : /\ Balanced(counts[p])
                                   /\ then[p] = "prompting" => counts[p] = None
            /\ Counting = {} => Balanced(lockout)

GuessInv == "lockout" \notin raced => CountInv

LEMMA BalanceTypes == ASSUME TypeOK
                      PROVE  /\ Cardinality(Failing) \in Nat /\ Cardinality(Prompting) \in Nat
                             /\ Cardinality(Failing) + Cardinality(Prompting)
                                  <= Cardinality(Approvers)
                             /\ Cardinality(Approvers) \in Nat
                             /\ streak \in Nat /\ MaxAttempts \in Nat \ {0}
                             /\ \A c \in Counts : c.failed \in Nat /\ c.until \in Nat
                             /\ lockout \in Counts /\ \A q \in Approvers : counts[q] \in Counts
  BY FiniteCounts, ConstantFacts, ApproversAssumption, FS_CardinalityType DEF TypeOK, Counts

\* Nothing was counted, and no prompt opened that did not have its guesses reset.
LEMMA BalancedKept ==
    ASSUME TypeOK, TypeOK', NEW c \in Counts, Balanced(c),
           Cardinality(Failing') \in Nat, Cardinality(Prompting') \in Nat,
           streak' + Cardinality(Failing) <= streak + Cardinality(Failing'),
           c.until # 0 =>
              streak' + Cardinality(Prompting') <= streak + Cardinality(Prompting)
    PROVE  Balanced(c)'
<1>1. streak' \in Nat
  BY DEF TypeOK
<1> QED BY <1>1, BalanceTypes DEF Balanced

\* With no guess to answer for, any counter that is not between its limits holds.
LEMMA BalancedAtZero ==
    ASSUME TypeOK, NEW c \in Counts, streak' = 0,
           Cardinality(Failing') \in Nat, Cardinality(Prompting') \in Nat,
           Cardinality(Prompting') <= Cardinality(Approvers),
           c.until = 0 <=> c.failed < MaxAttempts
    PROVE  Balanced(c)'
  BY BalanceTypes DEF Balanced

LEMMA PromptsAfter == Cardinality(Prompting') <= Cardinality(Approvers)
<1>1. Prompting' \in SUBSET Approvers
  BY DEF Prompting
<1> QED BY <1>1, ApproversAssumption, FS_Subset

\* The counter in force stays where it is.
LEMMA CountUntouched ==
    ASSUME CountInv, lockout' = lockout, Counting' = Counting,
           TypeOK, \A q \in Counting : counts'[q] = counts[q] /\ then'[q] = then[q],
           \A c \in Counts : (Balanced(c) /\ c \in {lockout} \cup {counts[q] : q \in Approvers})
                             => Balanced(c)'
    PROVE  CountInv'
<1>1. lockout \in Counts /\ \A q \in Approvers : counts[q] \in Counts
  BY BalanceTypes
<1>2. Counting \subseteq Approvers
  BY DEF Counting
<1>3. \A q \in Counting : Balanced(counts[q])'
  BY <1>1, <1>2 DEF CountInv
<1>4. Counting = {} => Balanced(lockout)'
  BY <1>1 DEF CountInv
<1> QED BY <1>3, <1>4 DEF CountInv

LEMMA GuessInductive ==
    ASSUME TypeOK, TypeOK', GuessInv, [Next]_vars
    PROVE  GuessInv'
<1> SUFFICES ASSUME "lockout" \notin raced' PROVE CountInv'
  BY DEF GuessInv
<1> USE RolesAssumption
<1>1. CountInv
  <2>1. raced \subseteq raced'
    BY DEF Next, Approve, Load, CheckLock, Held, Refused, Lapsed, Expired, Unlocked, Right,
           Wrong, Count, Truncate, Write, Return, Administer, InitBegin, InitCancel, SetBegin,
           TruncateConfig, WriteConfig, Crash, Tick, ReadLockout, Race, vars
  <2> QED BY <2>1 DEF GuessInv
<1>2. ASSUME NEW p \in Approvers, Approve(p) PROVE CountInv'
  <2> p \in All
    BY DEF All
  \* A step out of the window, from one phase to another.
  <2>1. ASSUME NEW phase, Moves(p, phase), pc[p] \notin {"decided", "writing"},
               phase \notin {"decided", "writing"}, lockout' = lockout,
               \A q \in Approvers : q # p => counts'[q] = counts[q] /\ then'[q] = then[q],
               streak' + Cardinality(Failing) <= streak + Cardinality(Failing'),
               \/ streak' + Cardinality(Prompting') <= streak + Cardinality(Prompting)
               \/ Counting = {} /\ lockout.until = 0
        PROVE  CountInv'
    <3>1. Counting' = Counting /\ p \notin Counting
      BY <2>1 DEF Counting, Moves, All
    <3>2. Cardinality(Failing') \in Nat /\ Cardinality(Prompting') \in Nat
      BY FiniteAfter
    <3>3. CASE streak' + Cardinality(Prompting') <= streak + Cardinality(Prompting)
      <4>1. \A c \in Counts : Balanced(c) => Balanced(c)'
        BY <2>1, <3>2, <3>3, BalancedKept
      <4> QED BY <1>1, <2>1, <3>1, <4>1, CountUntouched DEF Counting
    <3>4. CASE Counting = {} /\ lockout.until = 0
      <4>1. lockout \in Counts /\ Balanced(lockout)
        BY <1>1, <3>4, BalanceTypes DEF CountInv
      <4>2. Balanced(lockout)'
        BY <2>1, <3>2, <3>4, <4>1, BalancedKept
      <4> QED BY <2>1, <3>1, <3>4, <4>2 DEF CountInv
    <3> QED BY <2>1, <3>3, <3>4
  <2>2. Cardinality(Failing) \in Nat /\ Cardinality(Prompting) \in Nat /\ streak \in Nat
    BY BalanceTypes
  <2>3. CASE Load(p) \/ Held(p) \/ Refused(p) \/ Return(p)
    <3>1. PICK phase \in {"loaded", "held", "idle"} : Moves(p, phase)
      BY <2>3, GotoMoves, EndMoves DEF Load, Held, Refused, Return
    <3>2. /\ pc[p] \notin {"decided", "writing", "failing", "prompting"}
          /\ lockout' = lockout /\ streak' = streak
      BY <2>3 DEF Load, Held, Refused, Return, guessVars
    <3>3. \A q \in Approvers : q # p => counts'[q] = counts[q] /\ then'[q] = then[q]
      BY <2>3 DEF Load, Held, Refused, Return, End, TypeOK
    <3>4. Failing' = Failing /\ Prompting' = Prompting
      BY <3>1, <3>2 DEF Failing, Prompting, Moves, All
    <3> QED BY <2>1, <2>2, <3>1, <3>2, <3>3, <3>4
  <2>4. CASE Unlocked(p)
    <3>1. /\ Moves(p, "prompting") /\ pc[p] = "loaded" /\ lockout' = lockout
          /\ streak' = streak /\ counts' = counts /\ then' = then /\ lockout.until = 0
      BY <2>4, GotoMoves DEF Unlocked, approverVars, guessVars
    <3>2. Counting = {}
      <4>1. Counting \ {p} = {}
        BY <2>4 DEF Unlocked, ReadLockout, Race
      <4> QED BY <3>1, <4>1 DEF Counting
    <3>3. Failing' = Failing
      BY <3>1 DEF Failing, Moves, All
    <3> QED BY <2>1, <2>2, <3>1, <3>2, <3>3
  <2>5. CASE Lapsed(p)
    <3>1. /\ Moves(p, "prompting") /\ pc[p] = "held" /\ lockout' = lockout
          /\ streak' = 0 /\ then' = then
          /\ \A q \in Approvers : q # p => counts'[q] = counts[q]
      BY <2>5, GotoMoves DEF Lapsed, TypeOK
    <3>2. Counting' = Counting /\ p \notin Counting
      BY <3>1 DEF Counting, Moves, All
    <3>3. \A c \in Counts : Balanced(c) => Balanced(c)'
      <4>1. \A c \in Counts : Balanced(c) => (c.until = 0 <=> c.failed < MaxAttempts)
        BY BalanceTypes DEF Balanced
      <4> QED BY <3>1, <4>1, FiniteAfter, PromptsAfter, BalancedAtZero
    <3> QED BY <1>1, <3>1, <3>2, <3>3, CountUntouched DEF Counting
  <2>6. CASE Wrong(p)
    <3>1. /\ Moves(p, "failing") /\ pc[p] = "prompting" /\ lockout' = lockout
          /\ streak' = streak + 1 /\ counts' = counts /\ then' = then
      BY <2>6, GotoMoves DEF Wrong, approverVars
    <3>2. /\ Cardinality(Failing') = Cardinality(Failing) + 1
          /\ Cardinality(Prompting') = Cardinality(Prompting) - 1
      BY <2>2, <3>1, MoveCounts
    <3> QED BY <2>1, <2>2, <3>1, <3>2
  <2>7. CASE Expired(p) \/ Right(p)
    <3>1. /\ Moves(p, "decided") /\ pc[p] \in {"loaded", "prompting"}
          /\ streak' = 0 /\ counts'[p] = None /\ Counting \ {p} = {}
      BY <2>7, GotoMoves DEF Expired, Right, Decide, ReadLockout, Race, TypeOK
    <3>2. Counting' = {p}
      BY <3>1 DEF Counting, Moves, All
    <3>3. Balanced(None)'
      <4>1. None \in Counts /\ None.until = 0 /\ None.failed < MaxAttempts
        BY BalanceTypes, ConstantFacts DEF None
      <4> QED BY <3>1, <4>1, FiniteAfter, PromptsAfter, BalancedAtZero
    <3>4. Balanced(counts[p])'
      BY <3>1, <3>3 DEF Balanced
    <3> QED BY <3>1, <3>2, <3>4 DEF CountInv
  <2>8. CASE Count(p)
    <3> DEFINE f == lockout.failed + 1
    <3>1. /\ Moves(p, "decided") /\ pc[p] = "failing" /\ streak' = streak
          /\ counts'[p] = Failure(f) /\ then'[p] = "idle" /\ Counting \ {p} = {}
      BY <2>8, GotoMoves DEF Count, Decide, ReadLockout, Race, TypeOK, guessVars
    <3>2. Counting' = {p} /\ Counting = {}
      BY <3>1 DEF Counting, Moves, All
    <3>3. /\ Cardinality(Failing') = Cardinality(Failing) - 1
          /\ Cardinality(Prompting') = Cardinality(Prompting)
      BY <2>2, <3>1, MoveCounts
    <3>4. Balanced(lockout) /\ lockout.failed \in Nat /\ lockout.until \in Nat
      BY <1>1, <3>2, BalanceTypes DEF CountInv
    <3>5. now + LockSeconds \in Nat \ {0}
      BY ConstantFacts DEF TypeOK
    <3>6. ASSUME NEW c, c = Failure(f) PROVE Balanced(c)'
      <4>1. CASE f < MaxAttempts
        <5>1. lockout.until = 0 /\ streak <= lockout.failed + Cardinality(Failing)
          BY <3>4, <4>1, BalanceTypes DEF Balanced
        <5>2. c.failed = f /\ c.until = 0
          BY <3>4, <3>6, <4>1, BalanceTypes DEF Failure
        <5> QED BY <2>2, <3>1, <3>3, <3>4, <4>1, <5>1, <5>2 DEF Balanced
      <4>2. CASE f >= MaxAttempts
        <5>1. streak + Cardinality(Prompting) < MaxAttempts + Cardinality(Approvers)
          BY <3>4, <4>2, BalanceTypes DEF Balanced
        <5>2. c.failed = f /\ c.until = now + LockSeconds
          BY <3>6, <4>2 DEF Failure
        <5> QED BY <2>2, <3>1, <3>3, <3>5, <4>2, <5>1, <5>2 DEF Balanced
      <4> QED BY <3>4, <4>1, <4>2, BalanceTypes
    <3>7. Balanced(counts[p])'
      BY <3>1, <3>6 DEF Balanced
    <3> QED BY <3>1, <3>2, <3>7 DEF CountInv
  <2>9. CASE Truncate(p)
    <3>1. /\ Moves(p, "writing") /\ pc[p] = "decided" /\ UNCHANGED <<streak, counts, then>>
      BY <2>9, GotoMoves DEF Truncate, guessVars
    <3>2. Counting' = Counting /\ p \in Counting /\ Failing' = Failing /\ Prompting' = Prompting
      BY <3>1 DEF Counting, Failing, Prompting, Moves, All
    <3> QED BY <1>1, <3>1, <3>2 DEF CountInv, Balanced
  <2>10. CASE Write(p)
    <3>1. /\ Moves(p, then[p]) /\ pc[p] = "writing" /\ lockout' = counts[p] /\ streak' = streak
      BY <2>10, GotoMoves, EndMoves DEF Write, guessVars
    <3>2. then[p] \in {"idle", "prompting", "approved"}
      BY DEF TypeOK
    <3>3. p \in Counting /\ Counting' = {} /\ Failing' = Failing
      BY <1>1, <3>1, <3>2 DEF Counting, CountInv, Failing, Moves, All
    <3>4. Balanced(counts[p]) /\ (then[p] = "prompting" => counts[p] = None)
      BY <1>1, <3>3 DEF CountInv
    <3>5. CASE then[p] = "prompting"
      BY <3>1, <3>3, <3>4, <3>5 DEF CountInv, Balanced, None
    <3>6. CASE then[p] # "prompting"
      <4>1. Prompting' = Prompting
        BY <3>1, <3>6 DEF Prompting, Moves, All
      <4> QED BY <3>1, <3>3, <3>4, <4>1 DEF CountInv, Balanced
    <3> QED BY <3>5, <3>6
  <2> QED BY <1>2, <2>3, <2>4, <2>5, <2>6, <2>7, <2>8, <2>9, <2>10 DEF Approve, CheckLock
<1>3. ASSUME NEW p \in Admins, NEW phase, Moves(p, phase), UNCHANGED <<lockout, streak>>,
             \A q \in Approvers : counts'[q] = counts[q] /\ then'[q] = then[q]
      PROVE  CountInv'
  <2>1. Counting' = Counting /\ Failing' = Failing /\ Prompting' = Prompting
    BY <1>3, AdminMoves DEF Counting
  <2> QED BY <1>1, <1>3, <2>1 DEF CountInv, Balanced, Counting
<1>4. ASSUME NEW p \in Admins, Administer(p) PROVE CountInv'
  <2> p \in All
    BY DEF All
  <2>1. \E phase : Moves(p, phase)
    BY <1>4, GotoMoves, EndMoves
    DEF Administer, InitBegin, InitCancel, SetBegin, TruncateConfig, WriteConfig
  <2>2. /\ UNCHANGED <<lockout, streak>>
        /\ \A q \in Approvers : counts'[q] = counts[q] /\ then'[q] = then[q]
    BY <1>4 DEF Administer, InitBegin, InitCancel, SetBegin, TruncateConfig, WriteConfig,
                approverVars, guessVars, End, TypeOK
  <2> QED BY <1>3, <2>1, <2>2
<1>6. ASSUME NEW p \in All, Crash(p) PROVE CountInv'
  <2>1. Moves(p, "idle") /\ UNCHANGED <<lockout, streak>>
    BY <1>6, EndMoves DEF Crash, guessVars
  <2>2. \A q \in Approvers : q # p => counts'[q] = counts[q] /\ then'[q] = then[q]
    BY <1>6 DEF Crash, End, TypeOK
  <2>3. CASE p \in Admins
    BY <1>3, <2>1, <2>2, <2>3
  <2>4. CASE p \in Approvers
    <3>1. p \notin Counting /\ pc[p] # "failing"
      BY <1>6, <2>4 DEF Crash
    <3>2. Counting' = Counting /\ Failing' = Failing
      BY <2>1, <3>1 DEF Counting, Failing, Moves, All
    <3>3. /\ Cardinality(Prompting') <= Cardinality(Prompting)
          /\ Cardinality(Failing') \in Nat /\ Cardinality(Prompting') \in Nat
      BY <2>1, <2>4, MoveCounts, FiniteAfter, BalanceTypes
    <3>4. \A c \in Counts : Balanced(c) => Balanced(c)'
      BY <2>1, <3>2, <3>3, BalanceTypes, BalancedKept
    <3> QED BY <1>1, <2>1, <2>2, <3>1, <3>2, <3>4, CountUntouched DEF Counting
  <2> QED BY <2>3, <2>4 DEF All
<1>5. CASE Tick \/ UNCHANGED vars
  BY <1>1, <1>5 DEF Tick, vars, approverVars, guessVars, CountInv, Balanced, Counting,
                    Failing, Prompting
<1> QED BY <1>2, <1>4, <1>5, <1>6 DEF Next, All

\* However many prompts are open at once, the guesses since the last right one
\* or the last expired lock stay below max_failed_attempts and one for each
\* prompt, unless two of them record at the same moment or one dies uncounted
\* (approvals.py:71-124).
THEOREM GuessesAreBounded == Spec => []GuessesBounded
<1>1. Init => GuessInv
  <2>1. Init => Counting = {} /\ Failing = {}
    BY DEF Init, Counting, Failing
  <2> QED BY <2>1, FS_EmptySet, ConstantFacts DEF Init, GuessInv, CountInv, Balanced, None
<1>2. TypeOK /\ GuessInv => GuessesBounded
  <2> SUFFICES ASSUME TypeOK, CountInv
               PROVE  streak < MaxAttempts + Cardinality(Approvers)
    BY DEF GuessInv, GuessesBounded
  <2>1. \E c \in Counts : Balanced(c)
    BY BalanceTypes DEF CountInv, Counting
  <2> QED BY <2>1, BalanceTypes DEF Balanced
<1>3. TypeOK /\ TypeOK' /\ GuessInv /\ [Next]_vars => GuessInv'
  BY GuessInductive
<1> QED BY <1>1, <1>2, <1>3, TypeCorrect, PTL DEF Spec
=============================================================================
