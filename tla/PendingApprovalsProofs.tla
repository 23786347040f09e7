----------------------- MODULE PendingApprovalsProofs -----------------------
(***************************************************************************)
(* The pending-approval store for any number of gateways, operators,       *)
(* resets, rows and requests: its state is well-formed, an approval is     *)
(* used at most once, its use is not reported before the approval, and a   *)
(* retry finds it unless another gateway's newer request hides it.         *)
(* Without resets the store implements ApprovalLifecycle, moves no expired *)
(* row forward, and every row's last change is in the log, owed to it, or  *)
(* made by a process that had no logger or died owing it.                  *)
(***************************************************************************)
EXTENDS PendingApprovals, TLAPS

LEMMA ConstantFacts ==
    /\ Gateways \subseteq Procs /\ Operators \subseteq Procs
    /\ Resetters \subseteq Procs
    /\ Blank \in [Ids -> Status]
    /\ 1 \in Ids /\ 1 \in 1..(MaxId + 1) /\ Ids \subseteq 1..(MaxId + 1)
    /\ Ids \subseteq Int
    /\ \A i \in 1..(MaxId + 1) : i \notin Ids => i = MaxId + 1
    /\ \A i \in Ids : i + 1 \in 1..(MaxId + 1)
  BY BoundsAssumption DEF Procs, Ids, Blank, Status

LEMMA GotoType == ASSUME TypeOK, NEW p \in Procs,
                         NEW phase \in Phases, NEW method \in Methods,
                         Goto(p, phase, method)
                  PROVE  pc' \in [Procs -> Phases] /\ op' \in [Procs -> Methods]
  BY DEF TypeOK, ControlOK, Goto

LEMMA ForgetType == ASSUME TypeOK, NEW p \in Procs, Forget(p) PROVE MemoryOK'
  BY ConstantFacts DEF TypeOK, MemoryOK, Forget

LEMMA ReturnType == ASSUME TypeOK, NEW p \in Procs, Return(p)
                    PROVE  /\ pc' \in [Procs -> Phases] /\ op' \in [Procs -> Methods]
                           /\ ArgsOK' /\ MemoryOK'
<1>1. "idle" \in Phases /\ "none" \in Methods
  BY DEF Phases, Methods
<1>2. ArgsOK'
  BY ConstantFacts DEF Return, ForgetArgs, TypeOK, ArgsOK
<1> QED BY <1>1, <1>2, GotoType, ForgetType DEF Return

LEMMA UnlockType == ASSUME TypeOK, NEW p \in Procs,
                           Unlock(p) \/ UnlockAfterEvent(p) \/ UNCHANGED lock
                    PROVE  lock' \in Procs \cup {None}
  BY DEF TypeOK, ControlOK, Unlock, UnlockAfterEvent

LEMMA ThenRecordType ==
    ASSUME TypeOK, NEW p \in Procs, NEW events \in SUBSET Events,
           ThenRecord(p, events)
    PROVE  /\ pc' \in [Procs -> Phases] /\ op' \in [Procs -> Methods]
           /\ ArgsOK' /\ MemoryOK' /\ todo' \in [Procs -> SUBSET Events]
<1>1. todo' \in [Procs -> SUBSET Events]
  BY DEF ThenRecord, TypeOK, AuditOK
<1>2. CASE Return(p)
  BY <1>1, <1>2, ReturnType
<1>3. CASE Goto(p, "recording", op[p]) /\ Forget(p) /\ UNCHANGED args
  <2>1. "recording" \in Phases /\ op[p] \in Methods
    BY DEF Phases, TypeOK, ControlOK
  <2>2. ArgsOK'
    BY <1>3 DEF args, TypeOK, ArgsOK
  <2> QED BY <1>1, <1>3, <2>1, <2>2, GotoType, ForgetType
<1> QED BY <1>2, <1>3 DEF ThenRecord

LEMMA AccountType == ASSUME TypeOK, NEW p, Account(p) PROVE unlogged' \in SUBSET Ids
  BY DEF Account, Changed, TypeOK, HistoryOK

\* Rows that are written back, or changed in one place, are rows.
LEMMA WithType == ASSUME NEW list \in [Ids -> Status], NEW i \in Ids,
                         NEW status \in Status
                  PROVE  With(list, i, status) \in [Ids -> Status]
  BY DEF With

LEMMA EventType == ASSUME NEW e \in EventTypes, NEW i \in Ids
                   PROVE  {<<e, i>>} \in SUBSET Events
  BY DEF Events

LEMMA SaveAsType ==
    ASSUME TypeOK, NEW o \in Procs, NEW status \in Status,
           NEW event \in EventTypes, SaveAs(o, status, event)
    PROVE  /\ file' \in [Ids -> Status]
           /\ pc' \in [Procs -> Phases] /\ op' \in [Procs -> Methods]
           /\ ArgsOK' /\ MemoryOK' /\ todo' \in [Procs -> SUBSET Events]
<1>1. target[o] \in Ids /\ rows[o] \in [Ids -> Status]
  BY DEF TypeOK, ArgsOK, MemoryOK
<1>2. file' \in [Ids -> Status]
  BY <1>1, WithType DEF SaveAs
<1>3. {<<event, target[o]>>} \in SUBSET Events
  BY <1>1, EventType
<1> QED BY <1>2, <1>3, ThenRecordType DEF SaveAs

LEMMA RefuseType ==
    ASSUME TypeOK, NEW o \in Procs, Refuse(o) \/ Expire(o)
    PROVE  /\ file' \in [Ids -> Status]
           /\ lock' \in Procs \cup {None}
           /\ pc' \in [Procs -> Phases] /\ op' \in [Procs -> Methods]
           /\ ArgsOK' /\ MemoryOK' /\ todo' \in [Procs -> SUBSET Events]
<1>1. CASE Refuse(o)
  BY <1>1, UnlockType, ReturnType DEF Refuse, TypeOK, StoreOK, AuditOK
<1>2. CASE Expire(o)
  BY <1>2, UnlockType, SaveAsType DEF Expire, Status, EventTypes
<1> QED BY <1>1, <1>2

-----------------------------------------------------------------------------
LEMMA CallType ==
    ASSUME TypeOK, NEW p \in Procs,
           \/ \E r \in Requests : Evaluate(p, r)
           \/ Poll(p)
           \/ \E i \in Ids : Decide(p, i, "approve") \/ Decide(p, i, "deny")
           \/ Prompt(p)
           \/ Acquire(p)
    PROVE  TypeOK'
<1> USE ConstantFacts DEF TypeOK
<1>0. /\ "waiting" \in Phases /\ "scanning" \in Phases /\ "acting" \in Phases
      /\ {"find", "list", "approve", "deny", "apply", "attempt"} \subseteq Methods
  BY DEF Phases, Methods
<1>1. ASSUME NEW r \in Requests, Evaluate(p, r) PROVE TypeOK'
  BY <1>0, <1>1, GotoType
  DEF Evaluate, store, memory, history, StoreOK, ControlOK, ArgsOK, MemoryOK,
      AuditOK, HistoryOK
<1>2. CASE Poll(p)
  BY <1>0, <1>2, GotoType
  DEF Poll, store, args, memory, history, StoreOK, ControlOK, ArgsOK, MemoryOK,
      AuditOK, HistoryOK
<1>3. ASSUME NEW i \in Ids, NEW method \in {"approve", "deny"}, Decide(p, i, method)
      PROVE  TypeOK'
  BY <1>0, <1>3, GotoType
  DEF Decide, store, memory, history, StoreOK, ControlOK, ArgsOK, MemoryOK,
      AuditOK, HistoryOK
<1>4. CASE Prompt(p)
  BY <1>0, <1>4, GotoType, ForgetType
  DEF Prompt, ThenWait, store, args, history, StoreOK, ControlOK, ArgsOK,
      AuditOK, HistoryOK
<1>5. CASE Acquire(p)
  <2>1. PICK phase \in Phases : Goto(p, phase, op[p]) /\ op[p] \in Methods
    BY <1>0, <1>5 DEF Acquire, ControlOK
  <2> QED BY <1>5, <2>1, GotoType
          DEF Acquire, store, args, history, StoreOK, ControlOK, ArgsOK, MemoryOK,
              AuditOK, HistoryOK
<1> QED BY <1>1, <1>2, <1>3, <1>4, <1>5

LEMMA ScanType ==
    ASSUME TypeOK, NEW p \in Procs, Scan(p) \/ EndScan(p) \/ Record(p)
    PROVE  TypeOK'
<1> USE ConstantFacts DEF TypeOK
<1>1. CASE Scan(p)
  <2> DEFINE i == cursor[p]
             stale == rows[p][i] \in Active /\ Expired(i)
  <2>1. i \in Ids /\ i + 1 \in 1..(MaxId + 1)
    BY <1>1 DEF Scan
  <2>2. rows[p] \in [Ids -> Status] /\ "EXPIRED" \in Status
    BY DEF MemoryOK, Status
  <2>3. With(rows[p], i, "EXPIRED") \in [Ids -> Status]
    BY <2>1, <2>2, WithType
  <2>4. rows' \in [Procs -> [Ids -> Status]]
    BY <1>1, <2>3 DEF Scan, MemoryOK
  <2>5. cursor' \in [Procs -> 1..(MaxId + 1)]
    BY <1>1, <2>1 DEF Scan, MemoryOK
  <2>6. dirty' \in [Procs -> BOOLEAN]
    BY <1>1 DEF Scan, MemoryOK
  <2>7. {<<"approval_expired", i>>} \in SUBSET Events
    BY <2>1, EventType DEF EventTypes
  <2>8. recorded' \in SUBSET Events
    BY <1>1, <2>7 DEF Scan, AuditOK
  <2> QED BY <1>1, <2>4, <2>5, <2>6, <2>8
          DEF Scan, store, args, history, StoreOK, ControlOK, ArgsOK, MemoryOK,
              AuditOK, HistoryOK
<1>2. CASE EndScan(p)
  <2>1. "acting" \in Phases /\ op[p] \in Methods
    BY DEF Phases, ControlOK
  <2>2. file' \in [Ids -> Status]
    BY <1>2 DEF EndScan, StoreOK, MemoryOK
  <2> QED BY <1>2, <2>1, <2>2, GotoType, AccountType
          DEF EndScan, args, memory, history, StoreOK, ControlOK, ArgsOK,
              MemoryOK, AuditOK, HistoryOK
<1>3. CASE Record(p)
  <2>1. AuditOK'
    BY <1>3 DEF Record, AuditOK
  <2>2. /\ pc' \in [Procs -> Phases] /\ op' \in [Procs -> Methods]
        /\ ArgsOK' /\ MemoryOK'
    BY <1>3, ReturnType DEF Record, ControlOK, ArgsOK, MemoryOK, args, memory
  <2>3. lock' \in Procs \cup {None}
    BY <1>3, UnlockType DEF Record
  <2> QED BY <1>3, <2>1, <2>2, <2>3
          DEF Record, store, history, StoreOK, ControlOK, HistoryOK
<1> QED BY <1>1, <1>2, <1>3

LEMMA GatewayType ==
    ASSUME TypeOK, NEW g \in Gateways, GatewayStep(g)
    PROVE  TypeOK'
<1> USE ConstantFacts DEF TypeOK
<1>0. g \in Procs
  OBVIOUS
<1>1. CASE Find(g)
  <2>1. ControlOK'
    <3>1. {"waiting"} \subseteq Phases /\ {"consume", "create"} \subseteq Methods
      BY DEF Phases, Methods
    <3> QED BY <1>1, <3>1, GotoType, ReturnType, UnlockType
            DEF Find, ThenWait, ControlOK
  <2>2. MemoryOK'
    BY <1>1, ReturnType, ForgetType DEF Find, ThenWait
  <2>3. now + Ttl \in Nat
    BY BoundsAssumption
  <2>4. ArgsOK'
    BY <1>1, <2>3, ReturnType DEF Find, args, ArgsOK
  <2> QED BY <1>1, <2>1, <2>2, <2>4
          DEF Find, store, history, StoreOK, AuditOK, HistoryOK
<1>2. CASE Consume(g)
  <2> DEFINE approved == {i \in Matching(g) : rows[g][i] = "APPROVED"}
             late == {i \in approved : Expired(i)}
  <2>1. approved \subseteq Ids
    BY DEF Matching
  <2>2. \A some \in SUBSET late : {<<"approval_expired", i>> : i \in some} \in SUBSET Events
    BY <2>1 DEF Events, EventTypes
  <2>3. \A i \in Ids : {<<"approval_used", i>>} \in SUBSET Events
    BY DEF Events, EventTypes
  <2>4. /\ file' \in [Ids -> Status] /\ grants' \in [Ids -> Nat]
        /\ \E events \in SUBSET Events : ThenRecord(g, events)
    <3>1. CASE approved \ late = {}
      <4>1. ThenRecord(g, {<<"approval_expired", i>> : i \in late})
        BY <1>2, <3>1 DEF Consume
      <4> QED BY <1>2, <3>1, <4>1, <2>2 DEF Consume, StoreOK, HistoryOK
    <3>2. CASE approved \ late # {}
      <4>1. PICK used \in approved \ late :
              LET passed == {i \in late : i < used}
              IN /\ file' = [i \in Ids |-> IF i = used THEN "USED"
                                           ELSE IF i \in passed THEN "EXPIRED"
                                           ELSE rows[g][i]]
                 /\ grants' = [grants EXCEPT ![used] = @ + 1]
                 /\ ThenRecord(g, {<<"approval_expired", i>> : i \in passed}
                                  \cup {<<"approval_used", used>>})
        BY <1>2, <3>2 DEF Consume
      <4>2. file' \in [Ids -> Status]
        BY <4>1 DEF MemoryOK, Status
      <4>3. grants' \in [Ids -> Nat]
        <5>1. used \in Ids /\ grants' = [grants EXCEPT ![used] = @ + 1]
          BY <4>1, <2>1
        <5>2. grants \in [Ids -> Nat]
          BY DEF HistoryOK
        <5> HIDE DEF late, approved, TypeOK
        <5>3. grants[used] \in Nat
          BY <5>1, <5>2
        <5>4. grants[used] + 1 \in Nat
          BY <5>3
        <5> QED BY <5>1, <5>2, <5>4
      <4>4. {i \in late : i < used} \in SUBSET late
        OBVIOUS
      <4>5. {<<"approval_expired", i>> : i \in {j \in late : j < used}}
              \cup {<<"approval_used", used>>} \in SUBSET Events
        BY <4>4, <2>1, <2>2, <2>3
      <4> QED BY <4>1, <4>2, <4>3, <4>5
    <3> QED BY <3>1, <3>2
  <2>5. lock' \in Procs \cup {None}
    BY <1>2, UnlockType DEF Consume
  <2> QED BY <1>2, <2>4, <2>5, ThenRecordType, AccountType
          DEF Consume, StoreOK, ControlOK, AuditOK, HistoryOK
<1>3. CASE Create(g)
  <2>1. lock' \in Procs \cup {None}
    BY <1>3, UnlockType DEF Create
  <2>2. CASE nextId \notin Ids
    BY <1>3, <2>1, <2>2, ReturnType, AccountType
    DEF Create, store, history, StoreOK, ControlOK, AuditOK, HistoryOK
  <2>3. CASE nextId \in Ids
    <3>1. {<<"approval_created", nextId>>} \in SUBSET Events
      BY <2>3, EventType DEF EventTypes
    <3>2. "PENDING" \in Status /\ rows[g] \in [Ids -> Status]
      BY DEF Status, MemoryOK
    <3>3. With(rows[g], nextId, "PENDING") \in [Ids -> Status]
      BY <2>3, <3>2, WithType
    <3>4. StoreOK'
      BY <1>3, <2>3, <3>3 DEF Create, StoreOK, ArgsOK
    <3>5. HistoryOK'
      BY <1>3, <2>3, AccountType DEF Create, HistoryOK
    <3> QED BY <1>3, <2>1, <2>3, <3>1, <3>4, <3>5, ThenRecordType
            DEF Create, history, ControlOK, AuditOK, HistoryOK
  <2> QED BY <2>2, <2>3
<1> QED BY <1>1, <1>2, <1>3 DEF GatewayStep

LEMMA OperatorType ==
    ASSUME TypeOK, NEW o \in Procs, OperatorStep(o)
    PROVE  TypeOK'
<1> USE ConstantFacts DEF TypeOK
<1>0. {"APPROVED", "DENIED"} \subseteq Status
      /\ {"approval_approved", "approval_denied"} \subseteq EventTypes
  BY DEF Status, EventTypes
<1>1. CASE List(o)
  BY <1>1, ReturnType, UnlockType
  DEF List, store, history, StoreOK, ControlOK, AuditOK, HistoryOK
<1>2. CASE Approve(o)
  <2>1. CASE Refuse(o) \/ Expire(o)
    BY <1>2, <2>1, RefuseType, AccountType
    DEF Approve, StoreOK, ControlOK, AuditOK, history, HistoryOK
  <2>2. CASE SaveAs(o, "APPROVED", "approval_approved") /\ UnlockAfterEvent(o)
    BY <1>0, <1>2, <2>2, SaveAsType, UnlockType, AccountType
    DEF Approve, StoreOK, ControlOK, AuditOK, history, HistoryOK
  <2>3. CASE AskPassphrase(o)
    <3>1. "prompting" \in Phases /\ "approve" \in Methods
      BY DEF Phases, Methods
    <3> QED BY <1>2, <2>3, <3>1, GotoType, ForgetType, UnlockType, AccountType
            DEF Approve, AskPassphrase, args, history, StoreOK, ControlOK,
                ArgsOK, AuditOK, HistoryOK
  <2> QED BY <1>2, <2>1, <2>2, <2>3 DEF Approve
<1>3. CASE Attempt(o)
  <2>1. \E events \in SUBSET Events : ThenRecord(o, events)
    <3>1. {<<"approval_approve_failed", target[o]>>} \in SUBSET Events
      BY EventType DEF EventTypes, ArgsOK
    <3> QED BY <1>3, <3>1 DEF Attempt
  <2>2. lock' \in Procs \cup {None}
    BY <1>3, UnlockType DEF Attempt
  <2> QED BY <1>3, <2>1, <2>2, ThenRecordType
          DEF Attempt, store, history, StoreOK, ControlOK, AuditOK, HistoryOK
<1>4. CASE Apply(o)
  <2>1. CASE Refuse(o) \/ Expire(o)
    BY <1>4, <2>1, RefuseType, AccountType
    DEF Apply, StoreOK, ControlOK, AuditOK, history, HistoryOK
  <2>2. CASE SaveAs(o, "APPROVED", "approval_approved") /\ Unlock(o)
    BY <1>0, <1>4, <2>2, SaveAsType, UnlockType, AccountType
    DEF Apply, StoreOK, ControlOK, AuditOK, history, HistoryOK
  <2> QED BY <1>4, <2>1, <2>2 DEF Apply
<1>5. CASE Deny(o)
  <2>1. lock' \in Procs \cup {None}
    BY <1>5, UnlockType DEF Deny
  <2>2. CASE rows[o][target[o]] = "ABSENT"
    BY <1>5, <2>1, <2>2, ThenRecordType, AccountType
    DEF Deny, StoreOK, ControlOK, MemoryOK, AuditOK, history, HistoryOK
  <2>3. CASE SaveAs(o, "DENIED", "approval_denied")
    BY <1>0, <1>5, <2>1, <2>3, SaveAsType, AccountType
    DEF Deny, StoreOK, ControlOK, AuditOK, history, HistoryOK
  <2> QED BY <1>5, <2>2, <2>3 DEF Deny
<1> QED BY <1>1, <1>2, <1>3, <1>4, <1>5 DEF OperatorStep

LEMMA OtherType ==
    ASSUME TypeOK,
           \/ \E x \in Procs : ResetRead(x) \/ ResetSave(x) \/ Abort(x)
           \/ Tick
    PROVE  TypeOK'
<1> USE ConstantFacts DEF TypeOK
<1>1. ASSUME NEW x \in Procs, ResetRead(x) PROVE TypeOK'
  <2>1. "cancelling" \in Phases /\ "reset" \in Methods
    BY DEF Phases, Methods
  <2> QED BY <1>1, <2>1, GotoType
          DEF ResetRead, store, args, history, StoreOK, ControlOK, ArgsOK,
              MemoryOK, AuditOK, HistoryOK
<1>2. ASSUME NEW x \in Procs, ResetSave(x) PROVE TypeOK'
  <2>0. /\ file' \in [Ids -> Status] /\ cancelled' \in SUBSET Ids
        /\ unlogged' = unlogged \cup Changed /\ UNCHANGED <<grants, maker>>
    <3>1. file \in [Ids -> Status] /\ rows[x] \in [Ids -> Status] /\ "DENIED" \in Status
      BY DEF StoreOK, MemoryOK, Status
    <3>2. cancelled \in SUBSET Ids
      BY DEF HistoryOK
    <3> QED BY <1>2, <3>1, <3>2 DEF ResetSave, ToCancel
  <2>1. HistoryOK'
    BY <1>2, <2>0 DEF ResetSave, Changed, HistoryOK
  <2> QED BY <1>2, <2>0, <2>1, ReturnType
          DEF ResetSave, StoreOK, ControlOK, AuditOK, HistoryOK
<1>3. ASSUME NEW x \in Procs, Abort(x) PROVE TypeOK'
  BY <1>3, ReturnType, UnlockType
  DEF Abort, OwedBy, store, history, StoreOK, ControlOK, AuditOK, HistoryOK
<1>4. CASE Tick
  BY <1>4 DEF Tick, store, args, memory, history, StoreOK, ControlOK, ArgsOK,
              MemoryOK, AuditOK, HistoryOK
<1> QED BY <1>1, <1>2, <1>3, <1>4

-----------------------------------------------------------------------------
LEMMA TypeInductive == TypeOK /\ [Next]_vars => TypeOK'
<1> SUFFICES ASSUME TypeOK, [Next]_vars PROVE TypeOK'
  OBVIOUS
<1>1. CASE Next
  BY <1>1, ConstantFacts, CallType, ScanType, GatewayType, OperatorType, OtherType
  DEF Next, SharedStep
<1>2. CASE UNCHANGED vars
  BY <1>2 DEF vars, store, args, memory, history, TypeOK, StoreOK, ControlOK,
              ArgsOK, MemoryOK, AuditOK, HistoryOK
<1> QED BY <1>1, <1>2

\* The store, and what every process remembers of it, stays well-formed for
\* every number of processes, rows and requests.
THEOREM TypeCorrect == Spec => []TypeOK
<1>1. Init => TypeOK
  BY ConstantFacts DEF Init, TypeOK, StoreOK, ControlOK, ArgsOK, MemoryOK,
                       AuditOK, HistoryOK, Phases, Methods
<1> QED BY <1>1, TypeInductive, PTL DEF Spec

-----------------------------------------------------------------------------
\* Whoever is between reading the file and saving it has the lock.
InSection(p) == pc[p] \in {"scanning", "acting"}

LockInv == \A p \in Procs : InSection(p) => lock = p

\* A row that is active in the file, or in the list of a process that may still
\* save it, has let nothing through.
Unspent(i) == i < nextId /\ grants[i] = 0

FileInv == \A i \in Ids : file[i] \in Active => Unspent(i)

RowsInv == \A p \in Procs, i \in Ids :
              InSection(p) /\ rows[p][i] \in Active => Unspent(i)

GrantInv == \A i \in Ids : grants[i] <= 1 /\ (i >= nextId => grants[i] = 0)

UseInv == LockInv /\ FileInv /\ RowsInv /\ GrantInv

\* The step takes p out of its section, or leaves it outside, and touches no
\* other process; if it changes the lock, it releases the lock of p.
Leaves(p) == /\ \A q \in Procs \ {p} : pc'[q] = pc[q] /\ rows'[q] = rows[q]
             /\ pc'[p] \notin {"scanning", "acting"}
             /\ UNCHANGED lock \/ Unlock(p)

LEMMA Alone == ASSUME LockInv, NEW p \in Procs, NEW q \in Procs,
                      InSection(p), InSection(q)
               PROVE  p = q
  BY DEF LockInv

LEMMA GotoLeaves ==
    ASSUME TypeOK, NEW p \in Procs, NEW phase \in Phases \ {"scanning", "acting"},
           NEW method, Goto(p, phase, method), Forget(p) \/ UNCHANGED rows,
           UNCHANGED lock \/ Unlock(p) \/ UnlockAfterEvent(p)
    PROVE  Leaves(p)
  BY DEF TypeOK, ControlOK, MemoryOK, Goto, Forget, Leaves, UnlockAfterEvent

LEMMA ReturnLeaves ==
    ASSUME TypeOK, NEW p \in Procs, Return(p),
           UNCHANGED lock \/ Unlock(p) \/ UnlockAfterEvent(p)
    PROVE  Leaves(p)
  BY GotoLeaves DEF Return, Phases

LEMMA ThenRecordLeaves ==
    ASSUME TypeOK, NEW p \in Procs, NEW events, ThenRecord(p, events),
           UNCHANGED lock \/ Unlock(p) \/ UnlockAfterEvent(p)
    PROVE  Leaves(p)
<1>1. CASE Return(p)
  BY <1>1, ReturnLeaves
<1>2. CASE Goto(p, "recording", op[p]) /\ Forget(p)
  BY <1>2, GotoLeaves DEF Phases
<1> QED BY <1>1, <1>2 DEF ThenRecord

\* A step outside the section keeps what the lock protects.
LEMMA LeavesKeeps ==
    ASSUME UseInv, NEW p \in Procs, Leaves(p)
    PROVE  LockInv' /\ (UNCHANGED <<nextId, grants>> => RowsInv')
<1>1. LockInv'
  BY DEF UseInv, LockInv, InSection, Leaves, Unlock
<1>2. ASSUME UNCHANGED <<nextId, grants>> PROVE RowsInv'
  BY <1>2 DEF UseInv, RowsInv, InSection, Leaves, Unspent
<1> QED BY <1>1, <1>2

\* A step that ends a section leaves nobody in one.
LEMMA LeavesEmpty ==
    ASSUME UseInv, NEW p \in Procs, InSection(p), Leaves(p)
    PROVE  LockInv' /\ RowsInv'
<1>1. \A q \in Procs : ~InSection(q)'
  BY Alone DEF UseInv, InSection, Leaves
<1> QED BY <1>1 DEF LockInv, RowsInv, InSection

\* A section that saves no active row besides those it read.
LEMMA SavedRows ==
    ASSUME UseInv, NEW p \in Procs, InSection(p), UNCHANGED <<nextId, grants>>,
           \A i \in Ids : file'[i] \in Active => rows[p][i] \in Active
    PROVE  FileInv' /\ GrantInv'
  BY DEF UseInv, RowsInv, FileInv, GrantInv, Unspent

-----------------------------------------------------------------------------
LEMMA OutsideLeaves ==
    ASSUME TypeOK, NEW p \in Procs,
           \/ \E r \in Requests : Evaluate(p, r)
           \/ Poll(p)
           \/ \E i \in Ids : Decide(p, i, "approve") \/ Decide(p, i, "deny")
           \/ Prompt(p) \/ Record(p) \/ Abort(p) \/ ResetRead(p)
    PROVE  /\ Leaves(p) /\ UNCHANGED <<file, nextId, grants>>
           /\ \A q \in Procs \ {p} : dirty'[q] = dirty[q]
<1>0. {"waiting", "cancelling"} \subseteq Phases \ {"scanning", "acting"}
  BY DEF Phases
<1>1. ASSUME NEW r \in Requests, Evaluate(p, r) PROVE Leaves(p)
  BY <1>0, <1>1, GotoLeaves DEF Evaluate, memory
<1>2. ASSUME Poll(p) PROVE Leaves(p)
  BY <1>0, <1>2, GotoLeaves DEF Poll, memory
<1>3. ASSUME NEW i \in Ids, NEW method, Decide(p, i, method) PROVE Leaves(p)
  BY <1>0, <1>3, GotoLeaves DEF Decide, memory
<1>4. ASSUME Prompt(p) PROVE Leaves(p)
  BY <1>0, <1>4, GotoLeaves DEF Prompt, ThenWait
<1>5. ASSUME Record(p) PROVE Leaves(p)
  <2>1. CASE UNCHANGED <<pc, rows, lock>>
    BY <1>5, <2>1 DEF Record, Leaves
  <2>2. CASE Return(p) /\ Unlock(p)
    BY <2>2, ReturnLeaves
  <2> QED BY <1>5, <2>1, <2>2 DEF Record, memory
<1>6. ASSUME Abort(p) PROVE Leaves(p)
  BY <1>6, ReturnLeaves DEF Abort
<1>7. ASSUME ResetRead(p) PROVE Leaves(p)
  BY <1>0, <1>7 DEF ResetRead, TypeOK, ControlOK, MemoryOK, Goto, Leaves
<1>8. UNCHANGED <<file, nextId, grants>>
  BY DEF Evaluate, Poll, Decide, Prompt, Record, Abort, ResetRead, store, history
<1>9. \A q \in Procs \ {p} : dirty'[q] = dirty[q]
  BY DEF Evaluate, Poll, Decide, Prompt, ThenWait, Record, Abort, ResetRead, Return, Forget,
         memory, TypeOK, MemoryOK
<1> QED BY <1>1, <1>2, <1>3, <1>4, <1>5, <1>6, <1>7, <1>8, <1>9

LEMMA OutsideUse ==
    ASSUME TypeOK, UseInv, NEW p \in Procs,
           \/ \E r \in Requests : Evaluate(p, r)
           \/ Poll(p)
           \/ \E i \in Ids : Decide(p, i, "approve") \/ Decide(p, i, "deny")
           \/ Prompt(p) \/ Record(p) \/ Abort(p) \/ ResetRead(p)
    PROVE  UseInv'
  BY OutsideLeaves, LeavesKeeps DEF UseInv, FileInv, GrantInv, Unspent

\* The unlocked reset writes back a stale list, but no active row in it.
LEMMA ResetUse ==
    ASSUME TypeOK, UseInv, NEW x \in Procs, ResetSave(x)
    PROVE  UseInv'
<1>1. Leaves(x)
  BY ReturnLeaves DEF ResetSave
<1>2. \A i \in Ids : file'[i] \in Active => file[i] \in Active
  BY DEF ResetSave, ToCancel, TypeOK, MemoryOK, Active
<1>3. FileInv' /\ GrantInv'
  BY <1>2 DEF ResetSave, UseInv, FileInv, GrantInv, Unspent
<1> QED BY <1>1, <1>3, LeavesKeeps DEF ResetSave, UseInv

LEMMA SectionUse ==
    ASSUME TypeOK, UseInv, NEW p \in Procs, Acquire(p) \/ Scan(p) \/ EndScan(p)
    PROVE  UseInv'
<1>1. CASE Acquire(p)
  <2>1. \A q \in Procs : ~InSection(q)
    BY <1>1, ProcsAssumption DEF Acquire, MayEnter, UseInv, LockInv
  <2>2. /\ pc' = [pc EXCEPT ![p] = pc'[p]] /\ rows' = [rows EXCEPT ![p] = file]
        /\ lock' = p /\ UNCHANGED <<file, nextId, grants>>
    BY <1>1 DEF Acquire, Goto, TypeOK, ControlOK, store, history
  <2>3. LockInv'
    BY <2>1, <2>2 DEF LockInv, InSection, TypeOK, ControlOK
  <2>4. RowsInv'
    BY <2>1, <2>2 DEF UseInv, FileInv, RowsInv, InSection, Unspent, TypeOK,
                      ControlOK, MemoryOK
  <2> QED BY <2>2, <2>3, <2>4 DEF UseInv, FileInv, GrantInv, Unspent
<1>2. CASE Scan(p)
  <2>1. InSection(p) /\ UNCHANGED <<pc, lock, file, nextId, grants>>
    BY <1>2 DEF Scan, InSection, store, history
  <2>2. \A q \in Procs, i \in Ids : rows'[q][i] \in Active => rows[q][i] \in Active
    BY <1>2 DEF Scan, With, Active, TypeOK, MemoryOK
  <2> QED BY <2>1, <2>2
          DEF UseInv, LockInv, FileInv, RowsInv, GrantInv, InSection, Unspent
<1>3. CASE EndScan(p)
  <2>1. InSection(p) /\ UNCHANGED <<lock, rows, nextId, grants>>
        /\ pc' = [pc EXCEPT ![p] = "acting"]
    BY <1>3 DEF EndScan, Goto, InSection, memory, history
  <2>2. LockInv' /\ RowsInv'
    BY <2>1 DEF UseInv, LockInv, RowsInv, InSection, Unspent, TypeOK, ControlOK
  <2>3. FileInv' /\ GrantInv'
    BY <1>3, <2>1 DEF EndScan, UseInv, FileInv, RowsInv, GrantInv, Unspent
  <2> QED BY <2>2, <2>3 DEF UseInv
<1> QED BY <1>1, <1>2, <1>3

-----------------------------------------------------------------------------
\* The grant: only a row that was active in the list may be used, and it is no
\* longer active in what is saved.
LEMMA ConsumeUse ==
    ASSUME TypeOK, UseInv, NEW g \in Procs, Consume(g)
    PROVE  UseInv'
<1> DEFINE late == {i \in Matching(g) : rows[g][i] = "APPROVED" /\ Expired(i)}
           valid == {i \in Matching(g) : rows[g][i] = "APPROVED"} \ late
<1>1. InSection(g)
  BY DEF Consume, Acting, InSection
<1>2. Leaves(g)
  <2>1. \E events : ThenRecord(g, events)
    BY DEF Consume
  <2> QED BY <2>1, ThenRecordLeaves DEF Consume
<1>3. FileInv' /\ GrantInv'
  <2>1. CASE UNCHANGED <<file, grants>>
    BY <2>1 DEF Consume, UseInv, FileInv, GrantInv, Unspent
  <2>2. ASSUME NEW used \in Ids, NEW passed \in SUBSET Ids,
               rows[g][used] = "APPROVED",
               file' = [i \in Ids |-> IF i = used THEN "USED"
                                     ELSE IF i \in passed THEN "EXPIRED"
                                     ELSE rows[g][i]],
               grants' = [grants EXCEPT ![used] = @ + 1]
        PROVE  FileInv' /\ GrantInv'
    <3>1. Unspent(used)
      BY <1>1, <2>2 DEF UseInv, RowsInv, Active
    <3>2. \A i \in Ids : grants'[i] = IF i = used THEN 1 ELSE grants[i]
      BY <2>2, <3>1 DEF Unspent, TypeOK, HistoryOK
    <3>3. \A i \in Ids : file'[i] \in Active
                         => i # used /\ rows[g][i] \in Active
      BY <2>2 DEF Active
    <3>4. UNCHANGED nextId /\ nextId \in Int
      BY BoundsAssumption DEF Consume, TypeOK, StoreOK
    <3>5. FileInv'
      BY <1>1, <3>2, <3>3, <3>4 DEF UseInv, RowsInv, FileInv, Unspent
    <3>6. GrantInv'
      BY <3>1, <3>2, <3>4 DEF UseInv, GrantInv, Unspent, Ids
    <3> QED BY <3>5, <3>6
  <2>3. CASE valid # {}
    <3>1. PICK used \in valid :
            LET passed == {i \in late : i < used}
            IN /\ file' = [i \in Ids |-> IF i = used THEN "USED"
                                         ELSE IF i \in passed THEN "EXPIRED"
                                         ELSE rows[g][i]]
               /\ grants' = [grants EXCEPT ![used] = @ + 1]
      BY <2>3 DEF Consume
    <3>2. used \in Ids /\ {i \in late : i < used} \in SUBSET Ids
          /\ rows[g][used] = "APPROVED"
      BY DEF Matching
    <3> QED BY <3>1, <3>2, <2>2
  <2> QED BY <2>1, <2>3 DEF Consume
<1> QED BY <1>1, <1>2, <1>3, LeavesEmpty DEF UseInv

\* A new row has let nothing through.
LEMMA CreateUse ==
    ASSUME TypeOK, UseInv, NEW g \in Procs, Create(g)
    PROVE  UseInv'
<1>1. InSection(g)
  BY DEF Create, Acting, InSection
<1>2. Leaves(g)
  BY ReturnLeaves, ThenRecordLeaves DEF Create
<1>3. CASE nextId \in Ids
  <2>1. nextId' = nextId + 1 /\ UNCHANGED grants
    BY <1>3 DEF Create, history
  <2>2. \A i \in Ids : file'[i] \in Active => rows[g][i] \in Active \/ i = nextId
    BY <1>3 DEF Create, With, TypeOK, MemoryOK
  <2>3. grants[nextId] = 0 /\ nextId \in Int
    BY <1>3 DEF UseInv, GrantInv, Ids
  <2>4. FileInv'
    BY <1>1, <2>1, <2>2, <2>3 DEF UseInv, RowsInv, FileInv, Unspent, Ids
  <2>5. GrantInv'
    BY <2>1, <2>3 DEF UseInv, GrantInv, Ids
  <2> QED BY <1>1, <1>2, <2>4, <2>5, LeavesEmpty DEF UseInv
<1>4. CASE nextId \notin Ids
  <2>1. FileInv' /\ GrantInv'
    BY <1>4 DEF Create, store, history, UseInv, FileInv, GrantInv, Unspent
  <2> QED BY <1>1, <1>2, <2>1, LeavesEmpty DEF UseInv
<1> QED BY <1>3, <1>4

LEMMA FindUse ==
    ASSUME TypeOK, UseInv, NEW p \in Procs, Find(p) \/ List(p)
    PROVE  UseInv'
<1>1. InSection(p)
  BY DEF Find, List, Acting, InSection
<1>2. Leaves(p)
  <2>1. CASE Return(p)
    BY <2>1, ReturnLeaves DEF Find, List
  <2>2. ASSUME NEW method, ThenWait(p, method) PROVE Leaves(p)
    BY <2>2, GotoLeaves DEF Find, List, ThenWait, Phases
  <2> QED BY <2>1, <2>2 DEF Find, List
<1>3. FileInv' /\ GrantInv'
  BY DEF Find, List, store, history, UseInv, FileInv, GrantInv, Unspent
<1> QED BY <1>1, <1>2, <1>3, LeavesEmpty DEF UseInv

\* Operators never give a row back its use: what they make active was PENDING.
LEMMA OperatorUse ==
    ASSUME TypeOK, UseInv, NEW o \in Procs,
           Approve(o) \/ Attempt(o) \/ Apply(o) \/ Deny(o)
    PROVE  UseInv'
<1>1. InSection(o)
  BY DEF Approve, Attempt, Apply, Deny, Acting, InSection
<1>2. UNCHANGED <<nextId, grants>>
  BY DEF Approve, Attempt, Apply, Deny, store, history
<1>3. target[o] \in Ids /\ rows[o] \in [Ids -> Status]
  BY DEF TypeOK, ArgsOK, MemoryOK
<1>4. ASSUME NEW status, NEW event, SaveAs(o, status, event),
             status \in Active => Pending(o),
             UNCHANGED lock \/ Unlock(o) \/ UnlockAfterEvent(o)
      PROVE  UseInv'
  <2>1. Leaves(o)
    BY <1>4, ThenRecordLeaves DEF SaveAs
  <2>2. \A i \in Ids : file'[i] \in Active => rows[o][i] \in Active
    BY <1>3, <1>4 DEF SaveAs, With, Pending, Active
  <2> QED BY <1>1, <1>2, <2>1, <2>2, SavedRows, LeavesEmpty DEF UseInv
<1>5. ASSUME UNCHANGED file \/ file' = rows[o], Leaves(o) PROVE UseInv'
  <2>1. CASE UNCHANGED file
    BY <1>1, <1>2, <1>5, <2>1, LeavesEmpty
    DEF UseInv, FileInv, GrantInv, Unspent
  <2>2. CASE file' = rows[o]
    BY <1>1, <1>2, <1>5, <2>2, SavedRows, LeavesEmpty DEF UseInv
  <2> QED BY <1>5, <2>1, <2>2
<1>6. CASE Refuse(o)
  BY <1>5, <1>6, ReturnLeaves DEF Refuse
<1>7. CASE Expire(o)
  BY <1>4, <1>7 DEF Expire, Active
<1>8. CASE Approve(o)
  <2>1. CASE AskPassphrase(o)
    BY <1>5, <2>1, GotoLeaves DEF AskPassphrase, Phases
  <2> QED BY <1>4, <1>6, <1>7, <1>8, <2>1 DEF Approve
<1>9. CASE Attempt(o)
  <2>1. PICK events : ThenRecord(o, events)
    BY <1>9 DEF Attempt
  <2> QED BY <1>5, <1>9, <2>1, ThenRecordLeaves DEF Attempt, store
<1>10. CASE Apply(o)
  BY <1>4, <1>6, <1>7, <1>10 DEF Apply
<1>11. CASE Deny(o)
  <2>1. CASE rows[o][target[o]] = "ABSENT"
    BY <1>5, <1>11, <2>1, ThenRecordLeaves DEF Deny
  <2>2. CASE SaveAs(o, "DENIED", "approval_denied")
    BY <1>4, <1>11, <2>2 DEF Deny, Active
  <2> QED BY <1>11, <2>1, <2>2 DEF Deny
<1> QED BY <1>8, <1>9, <1>10, <1>11

-----------------------------------------------------------------------------
LEMMA UseInductive == TypeOK /\ UseInv /\ [Next]_vars => UseInv'
<1> SUFFICES ASSUME TypeOK, UseInv, [Next]_vars PROVE UseInv'
  OBVIOUS
<1>1. CASE Tick \/ UNCHANGED vars
  BY <1>1 DEF Tick, vars, store, memory, history, UseInv, LockInv, FileInv,
              RowsInv, GrantInv, InSection, Unspent
<1>2. CASE Next
  BY <1>1, <1>2, ConstantFacts, OutsideUse, ResetUse, SectionUse, ConsumeUse,
     CreateUse, FindUse, OperatorUse
  DEF Next, GatewayStep, OperatorStep, SharedStep
<1> QED BY <1>1, <1>2

LEMMA UseCorrect == Spec => []UseInv
<1>1. Init => UseInv
  BY ConstantFacts DEF Init, Blank, Active, UseInv, LockInv, FileInv, RowsInv,
                       GrantInv, InSection, Unspent
<1> QED BY <1>1, UseInductive, TypeCorrect, PTL DEF Spec

\* One approval lets at most one request through, for any number of gateways,
\* operators, rows and requests, with crashes at any point and with passphrase
\* resets that write the file without the lock (issue #99,
\* pending_approvals.py:331).
THEOREM AtMostOneUse == Spec => []SingleUse
<1>1. UseInv => SingleUse
  BY DEF UseInv, GrantInv, SingleUse
<1> QED BY <1>1, UseCorrect, PTL

-----------------------------------------------------------------------------
\* Without resets, what a process in its section has read is the file, but for
\* the rows that it is about to save as expired.
Fresh(p) ==
    IF pc[p] = "acting" THEN rows[p] = file
    ELSE /\ \A i \in Ids : \/ rows[p][i] = file[i]
                           \/ file[i] \in Active /\ rows[p][i] = "EXPIRED"
         /\ ~dirty[p] => rows[p] = file

AbsentInv == \A i \in Ids : i >= nextId => file[i] = "ABSENT"

StoreInv == AbsentInv /\ \A p \in Procs : InSection(p) => Fresh(p)

\* A save that uses no row moves each row along the lifecycle.
LEMMA SaveStep ==
    ASSUME TypeOK, UNCHANGED grants,
           \A i \in Ids : \/ file'[i] = file[i]
                         \/ /\ <<file[i], file'[i]>> \in Lifecycle!Moves
                            /\ file'[i] # "USED"
    PROVE  Lifecycle!Save
<1>1. \A i \in Ids : ~Lifecycle!Used(i)
  BY DEF Lifecycle!Used
<1>2. grants' = [i \in Ids |-> IF Lifecycle!Used(i) THEN grants[i] + 1 ELSE grants[i]]
  BY <1>1 DEF TypeOK, HistoryOK
<1> QED BY <1>2 DEF Lifecycle!Save, Lifecycle!Stays

LEMMA SectionLeaves ==
    ASSUME TypeOK, NEW p \in Procs, GatewayStep(p) \/ OperatorStep(p)
    PROVE  pc[p] = "acting" /\ Leaves(p)
<1>1. pc[p] = "acting"
  BY DEF GatewayStep, OperatorStep, Find, Consume, Create, List, Approve, Attempt, Apply,
         Deny, Acting
<1>2. ASSUME Find(p) \/ List(p) PROVE Leaves(p)
  <2>1. CASE Return(p)
    BY <1>2, <2>1, ReturnLeaves DEF Find, List
  <2>2. ASSUME NEW method, ThenWait(p, method) PROVE Leaves(p)
    BY <1>2, <2>2, GotoLeaves DEF Find, List, ThenWait, Phases
  <2> QED BY <1>2, <2>1, <2>2 DEF Find, List
<1>3. ASSUME Create(p) PROVE Leaves(p)
  BY <1>3, ReturnLeaves, ThenRecordLeaves DEF Create
<1>4. ASSUME Consume(p) PROVE Leaves(p)
  <2>1. \E events : ThenRecord(p, events)
    BY <1>4 DEF Consume
  <2> QED BY <1>4, <2>1, ThenRecordLeaves DEF Consume
<1>5. ASSUME Attempt(p) PROVE Leaves(p)
  <2>1. \E events : ThenRecord(p, events)
    BY <1>5 DEF Attempt
  <2> QED BY <1>5, <2>1, ThenRecordLeaves DEF Attempt
<1>6. ASSUME Deny(p) PROVE Leaves(p)
  BY <1>6, ThenRecordLeaves DEF Deny, SaveAs
<1>7. ASSUME Refuse(p) \/ Expire(p) PROVE Leaves(p)
  BY <1>7, ReturnLeaves, ThenRecordLeaves DEF Refuse, Expire, SaveAs
<1>8. ASSUME Approve(p) PROVE Leaves(p)
  <2>1. CASE AskPassphrase(p)
    BY <2>1, GotoLeaves DEF AskPassphrase, Phases
  <2> QED BY <1>7, <1>8, <2>1, ThenRecordLeaves DEF Approve, SaveAs
<1>9. ASSUME Apply(p) PROVE Leaves(p)
  BY <1>7, <1>9, ThenRecordLeaves DEF Apply, SaveAs
<1> QED BY <1>1, <1>2, <1>3, <1>4, <1>5, <1>6, <1>8, <1>9 DEF GatewayStep, OperatorStep

\* A step at the end of a section leaves no section, and hence nothing to show
\* but the rows that are not there yet.
LEMMA SectionEnds ==
    ASSUME TypeOK, UseInv, NEW p \in Procs, GatewayStep(p) \/ OperatorStep(p), AbsentInv'
    PROVE  StoreInv'
<1>1. pc[p] = "acting" /\ Leaves(p)
  BY SectionLeaves
<1>2. \A q \in Procs : ~InSection(q)'
  BY <1>1, Alone DEF UseInv, InSection, Leaves
<1> QED BY <1>2 DEF StoreInv

LEMMA OutsideRefines ==
    ASSUME TypeOK, UseInv, StoreInv, NEW p \in Procs,
           \/ \E r \in Requests : Evaluate(p, r)
           \/ Poll(p)
           \/ \E i \in Ids : Decide(p, i, "approve") \/ Decide(p, i, "deny")
           \/ Prompt(p) \/ Record(p) \/ Abort(p)
    PROVE  StoreInv' /\ UNCHANGED <<file, grants>>
<1>1. /\ Leaves(p) /\ UNCHANGED <<file, nextId, grants>>
      /\ \A q \in Procs \ {p} : dirty'[q] = dirty[q]
  BY OutsideLeaves
<1>2. AbsentInv'
  BY <1>1 DEF StoreInv, AbsentInv
<1>3. ASSUME NEW q \in Procs, InSection(q)' PROVE Fresh(q)'
  <2>1. q # p
    BY <1>1, <1>3 DEF Leaves, InSection
  <2>2. pc'[q] = pc[q] /\ rows'[q] = rows[q] /\ dirty'[q] = dirty[q] /\ file' = file
    BY <1>1, <2>1 DEF Leaves
  <2>3. InSection(q)
    BY <1>3, <2>2 DEF InSection
  <2> QED BY <2>2, <2>3 DEF StoreInv, Fresh
<1> QED BY <1>1, <1>2, <1>3 DEF StoreInv

LEMMA SectionRefines ==
    ASSUME TypeOK, UseInv, StoreInv, NEW p \in Procs, Acquire(p) \/ Scan(p) \/ EndScan(p)
    PROVE  StoreInv' /\ (Lifecycle!Save \/ UNCHANGED <<file, grants>>)
<1>1. CASE Acquire(p)
  <2>1. \A q \in Procs : ~InSection(q)
    BY <1>1, ProcsAssumption DEF Acquire, MayEnter, UseInv, LockInv
  <2>2. /\ \A q \in Procs : q # p => pc'[q] = pc[q]
        /\ rows'[p] = file /\ UNCHANGED <<file, nextId, grants>>
    BY <1>1 DEF Acquire, Goto, TypeOK, ControlOK, MemoryOK, store, history
  <2>3. \A q \in Procs : InSection(q)' => q = p
    BY <2>1, <2>2 DEF InSection
  <2>4. Fresh(p)'
    BY <2>2 DEF Fresh
  <2> QED BY <2>2, <2>3, <2>4 DEF StoreInv, AbsentInv
<1>2. CASE Scan(p)
  <2> DEFINE i == cursor[p]
             stale == rows[p][i] \in Active /\ Expired(i)
  <2>1. /\ pc[p] = "scanning" /\ UNCHANGED <<pc, file, nextId, grants>>
        /\ \A q \in Procs \ {p} : rows'[q] = rows[q] /\ dirty'[q] = dirty[q]
        /\ rows'[p] = IF stale THEN With(rows[p], i, "EXPIRED") ELSE rows[p]
        /\ dirty'[p] = (dirty[p] \/ stale)
    BY <1>2 DEF Scan, TypeOK, MemoryOK, store, history
  <2>2. Fresh(p)
    BY <2>1 DEF StoreInv, InSection
  <2>3. Fresh(p)'
    <3>1. CASE stale
      <4>1. \A j \in Ids : rows'[p][j] = IF j = i THEN "EXPIRED" ELSE rows[p][j]
        BY <2>1, <3>1 DEF With, TypeOK, MemoryOK
      <4>2. i \in Ids /\ file[i] \in Active
        BY <1>2, <2>1, <2>2, <3>1 DEF Scan, Fresh, Active
      <4> QED BY <2>1, <2>2, <3>1, <4>1, <4>2 DEF Fresh
    <3>2. CASE ~stale
      <4>1. rows'[p] = rows[p] /\ dirty'[p] = dirty[p]
        BY <2>1, <3>2 DEF TypeOK, MemoryOK
      <4> QED BY <2>1, <2>2, <4>1 DEF Fresh
    <3> QED BY <3>1, <3>2
  <2> QED BY <2>1, <2>3 DEF StoreInv, AbsentInv, InSection, Fresh
<1>3. CASE EndScan(p)
  <2>1. /\ pc[p] = "scanning" /\ pc'[p] = "acting" /\ \A q \in Procs \ {p} : pc'[q] = pc[q]
        /\ UNCHANGED <<rows, nextId, grants>> /\ file' = IF dirty[p] THEN rows[p] ELSE file
    BY <1>3 DEF EndScan, Goto, TypeOK, ControlOK, memory, history
  <2>2. Fresh(p) /\ InSection(p)
    BY <2>1 DEF StoreInv, InSection
  <2>3. \A q \in Procs : InSection(q)' => q = p
    BY <2>1, <2>2, Alone DEF UseInv, InSection
  <2>4. file' = rows[p]
    BY <2>1, <2>2 DEF Fresh
  <2>5. \A i \in Ids : file'[i] = file[i] \/ (file[i] \in Active /\ file'[i] = "EXPIRED")
    BY <2>1, <2>2, <2>4 DEF Fresh
  <2>6. Lifecycle!Save
    BY <2>1, <2>5, SaveStep DEF Active, Lifecycle!Moves
  <2>7. AbsentInv'
    BY <2>1, <2>5 DEF StoreInv, AbsentInv, Active
  <2>8. Fresh(p)'
    BY <2>1, <2>4 DEF Fresh
  <2> QED BY <2>3, <2>6, <2>7, <2>8 DEF StoreInv
<1> QED BY <1>1, <1>2, <1>3

LEMMA GatewayRefines ==
    ASSUME TypeOK, UseInv, StoreInv, NEW g \in Procs, GatewayStep(g)
    PROVE  AbsentInv' /\ (Lifecycle!Save \/ UNCHANGED <<file, grants>>)
<1>1. rows[g] = file
  BY SectionLeaves DEF StoreInv, InSection, Fresh
<1>2. CASE Find(g)
  BY <1>2 DEF Find, store, history, StoreInv, AbsentInv
<1>3. CASE Create(g)
  <2>1. CASE nextId \notin Ids
    BY <1>3, <2>1 DEF Create, store, history, StoreInv, AbsentInv
  <2>2. CASE nextId \in Ids
    <3>1. /\ \A i \in Ids : file'[i] = IF i = nextId THEN "PENDING" ELSE file[i]
          /\ nextId' = nextId + 1 /\ UNCHANGED grants
      BY <1>1, <1>3, <2>2 DEF Create, With, TypeOK, StoreOK, history
    <3>2. file[nextId] = "ABSENT" /\ nextId \in Int
      BY <2>2, ConstantFacts DEF StoreInv, AbsentInv
    <3>3. Lifecycle!Save
      BY <3>1, <3>2, SaveStep DEF Lifecycle!Moves
    <3>4. AbsentInv'
      BY <3>1, <3>2, ConstantFacts DEF StoreInv, AbsentInv
    <3> QED BY <3>3, <3>4
  <2> QED BY <2>1, <2>2
<1>4. CASE Consume(g)
  <2> DEFINE late == {i \in Matching(g) : rows[g][i] = "APPROVED" /\ Expired(i)}
             valid == {i \in Matching(g) : rows[g][i] = "APPROVED"} \ late
  <2>1. CASE UNCHANGED <<file, grants>>
    BY <1>4, <2>1 DEF Consume, StoreInv, AbsentInv
  <2>2. CASE valid # {} /\ ~UNCHANGED <<file, grants>>
    <3>1. PICK used \in valid :
            LET passed == {i \in late : i < used}
            IN /\ file' = [i \in Ids |-> IF i = used THEN "USED"
                                         ELSE IF i \in passed THEN "EXPIRED"
                                         ELSE rows[g][i]]
               /\ grants' = [grants EXCEPT ![used] = @ + 1]
      BY <1>4, <2>2 DEF Consume
    <3>2. used \in Ids /\ file[used] = "APPROVED"
      BY <1>1 DEF Matching
    <3>3. \A i \in Ids : \/ i = used /\ file'[i] = "USED"
                         \/ i # used /\ file[i] = "APPROVED" /\ file'[i] = "EXPIRED"
                         \/ i # used /\ file'[i] = file[i]
      BY <1>1, <3>1
    <3>4. \A i \in Ids : Lifecycle!Used(i) <=> i = used
      BY <3>2, <3>3 DEF Lifecycle!Used
    <3>5. grants' = [i \in Ids |-> IF Lifecycle!Used(i) THEN grants[i] + 1 ELSE grants[i]]
      BY <3>1, <3>2, <3>4 DEF TypeOK, HistoryOK
    <3>6. Lifecycle!Save
      BY <3>2, <3>3, <3>5 DEF Lifecycle!Save, Lifecycle!Stays, Lifecycle!Moves
    <3>7. AbsentInv'
      BY <1>4, <3>2, <3>3 DEF Consume, StoreInv, AbsentInv
    <3> QED BY <3>6, <3>7
  <2> QED BY <1>4, <2>1, <2>2 DEF Consume
<1> QED BY <1>2, <1>3, <1>4 DEF GatewayStep

LEMMA OperatorRefines ==
    ASSUME TypeOK, UseInv, StoreInv, NEW o \in Procs, OperatorStep(o)
    PROVE  AbsentInv' /\ (Lifecycle!Save \/ UNCHANGED <<file, grants>>)
<1>1. rows[o] = file /\ target[o] \in Ids
  BY SectionLeaves DEF StoreInv, InSection, Fresh, TypeOK, ArgsOK
<1>2. UNCHANGED <<nextId, grants>>
  BY DEF OperatorStep, List, Approve, Attempt, Apply, Deny, store, history
<1>3. ASSUME NEW status, NEW event, SaveAs(o, status, event),
             <<file[target[o]], status>> \in Lifecycle!Moves \/ status = file[target[o]],
             status # "USED", file[target[o]] # "ABSENT"
      PROVE  AbsentInv' /\ Lifecycle!Save
  <2>1. \A i \in Ids : file'[i] = IF i = target[o] THEN status ELSE file[i]
    BY <1>1, <1>3 DEF SaveAs, With, TypeOK, StoreOK
  <2> QED BY <1>1, <1>2, <1>3, <2>1, SaveStep DEF StoreInv, AbsentInv
<1>4. CASE UNCHANGED file
  BY <1>2, <1>4 DEF StoreInv, AbsentInv
<1>5. CASE Refuse(o) \/ AskPassphrase(o)
  BY <1>4, <1>5 DEF Refuse, AskPassphrase
<1>6. CASE Expire(o)
  BY <1>1, <1>3, <1>6 DEF Expire, Pending, Lifecycle!Moves
<1>7. CASE SaveAs(o, "APPROVED", "approval_approved") /\ Pending(o)
  BY <1>1, <1>3, <1>7 DEF Pending, Lifecycle!Moves
<1>8. CASE Deny(o)
  <2>1. CASE file[target[o]] = "ABSENT"
    BY <1>1, <1>4, <1>8, <2>1 DEF Deny
  <2>2. CASE file[target[o]] # "ABSENT"
    <3>1. SaveAs(o, "DENIED", "approval_denied")
      BY <1>1, <1>8, <2>2 DEF Deny
    <3>2. file[target[o]] \in {"PENDING", "APPROVED", "USED", "EXPIRED", "DENIED"}
      BY <1>1, <2>2 DEF TypeOK, StoreOK, Status
    <3> QED BY <1>3, <2>2, <3>1, <3>2 DEF Lifecycle!Moves
  <2> QED BY <2>1, <2>2
<1>9. CASE List(o) \/ Attempt(o)
  BY <1>4, <1>9 DEF List, Attempt, store
<1> QED BY <1>5, <1>6, <1>7, <1>8, <1>9 DEF OperatorStep, Approve, Apply

LEMMA StoreInductive ==
    ASSUME Resetters = {}, TypeOK, UseInv, StoreInv, [Next]_vars
    PROVE  StoreInv' /\ (Lifecycle!Save \/ UNCHANGED <<file, grants>>)
<1>1. CASE Tick \/ UNCHANGED vars
  BY <1>1 DEF Tick, vars, store, memory, history, StoreInv, AbsentInv, InSection, Fresh
<1>2. ASSUME NEW p \in Procs, GatewayStep(p) \/ OperatorStep(p)
      PROVE  StoreInv' /\ (Lifecycle!Save \/ UNCHANGED <<file, grants>>)
  BY <1>2, GatewayRefines, OperatorRefines, SectionEnds
<1>3. CASE Next
  BY <1>1, <1>2, <1>3, ConstantFacts, OutsideRefines, SectionRefines DEF Next, SharedStep
<1> QED BY <1>1, <1>3

\* What every step of the store may rest on, without resets.
LEMMA StoreCorrect ==
    ASSUME Resetters = {}
    PROVE  Spec => [](TypeOK /\ UseInv /\ StoreInv)
<1>1. Init => UseInv /\ StoreInv
  BY ConstantFacts DEF Init, Blank, Active, UseInv, LockInv, FileInv, RowsInv,
                       GrantInv, InSection, Unspent, StoreInv, AbsentInv
<1>2. TypeOK /\ UseInv /\ StoreInv /\ [Next]_vars => StoreInv'
  BY StoreInductive
<1> QED BY <1>1, <1>2, UseInductive, TypeCorrect, PTL DEF Spec

\* While no reset writes the file without the lock, the store moves its rows
\* only along the lifecycle: no interleaving of gateways and operators, no
\* expiry that a reader saves and no death resurrects a row, loses one, or uses
\* one that was not approved (pending_approvals.py:128-374).
THEOREM Refinement == Resetters = {} => (Spec => ImplementsLifecycle)
<1> SUFFICES ASSUME Resetters = {} PROVE Spec => ImplementsLifecycle
  OBVIOUS
<1>1. Init => Lifecycle!Init
  BY DEF Init, Blank, Lifecycle!Init
<1>2. TypeOK /\ UseInv /\ StoreInv /\ [Next]_vars => [Lifecycle!Save]_<<file, grants>>
  BY StoreInductive
<1> QED BY <1>1, <1>2, StoreCorrect, PTL DEF Spec, ImplementsLifecycle, Lifecycle!Spec

-----------------------------------------------------------------------------
\* What the file says of a row that a step approves or uses is still valid at
\* that step.
Timely == \A i \in Ids : file'[i] # file[i] /\ file'[i] \in {"APPROVED", "USED"}
                          => now < expiry[i]

LEMMA GatewayTimely ==
    ASSUME TypeOK, StoreInv, NEW g \in Procs, GatewayStep(g)
    PROVE  Timely
<1>1. rows[g] = file
  BY SectionLeaves DEF StoreInv, InSection, Fresh
<1>2. CASE Find(g)
  BY <1>2 DEF Find, store, Timely
<1>3. CASE Create(g)
  BY <1>1, <1>3 DEF Create, With, store, Timely, TypeOK, StoreOK
<1>4. CASE Consume(g)
  <2> DEFINE late == {i \in Matching(g) : rows[g][i] = "APPROVED" /\ Expired(i)}
             valid == {i \in Matching(g) : rows[g][i] = "APPROVED"} \ late
  <2>1. CASE UNCHANGED file
    BY <2>1 DEF Timely
  <2>2. CASE valid # {} /\ ~UNCHANGED file
    <3>1. PICK used \in valid :
            LET passed == {i \in late : i < used}
            IN /\ file' = [i \in Ids |-> IF i = used THEN "USED"
                                         ELSE IF i \in passed THEN "EXPIRED"
                                         ELSE rows[g][i]]
               /\ grants' = [grants EXCEPT ![used] = @ + 1]
      BY <1>4, <2>2 DEF Consume
    <3>2. used \in Ids /\ ~Expired(used)
      BY DEF Matching
    <3>3. now < expiry[used]
      BY <3>2 DEF Expired, TypeOK, StoreOK
    <3>4. \A i \in Ids : i # used => file'[i] \in {file[i], "EXPIRED"}
      BY <1>1, <3>1
    <3> QED BY <3>3, <3>4 DEF Timely
  <2> QED BY <1>4, <2>1, <2>2 DEF Consume
<1> QED BY <1>2, <1>3, <1>4 DEF GatewayStep

LEMMA OperatorTimely ==
    ASSUME TypeOK, StoreInv, NEW o \in Procs, OperatorStep(o)
    PROVE  Timely
<1>1. rows[o] = file /\ target[o] \in Ids /\ file \in [Ids -> Status]
  BY SectionLeaves DEF StoreInv, InSection, Fresh, TypeOK, ArgsOK, StoreOK
<1>2. ASSUME NEW status, NEW event, SaveAs(o, status, event),
             status \notin {"APPROVED", "USED"} \/ (status = "APPROVED" /\ ~Expired(target[o]))
      PROVE  Timely
  BY <1>1, <1>2 DEF SaveAs, With, Expired, Timely, TypeOK, StoreOK
<1>3. CASE UNCHANGED file \/ Refuse(o) \/ AskPassphrase(o)
  BY <1>3 DEF Refuse, AskPassphrase, Timely
<1>4. CASE Expire(o)
  BY <1>2, <1>4 DEF Expire
<1>5. CASE Deny(o)
  BY <1>1, <1>2, <1>3, <1>5 DEF Deny
<1> QED BY <1>2, <1>3, <1>4, <1>5 DEF OperatorStep, List, Approve, Attempt, Apply, store

\* However long a prompt, a scan or a wait for the lock took, a row is approved
\* or used only before its expiry (pending_approvals.py:301, 345).
THEOREM MovedWhileValid == Resetters = {} => (Spec => ValidWhenMoved)
<1> SUFFICES ASSUME Resetters = {} PROVE Spec => ValidWhenMoved
  OBVIOUS
<1>1. TypeOK /\ UseInv /\ StoreInv /\ [Next]_vars => Timely
  <2> SUFFICES ASSUME TypeOK, UseInv, StoreInv, [Next]_vars PROVE Timely
    OBVIOUS
  <2>1. CASE UNCHANGED file
    BY <2>1 DEF Timely
  <2>2. ASSUME NEW p \in Procs, EndScan(p) PROVE Timely
    BY <2>2 DEF EndScan, StoreInv, InSection, Fresh, Timely
  <2>3. CASE Next
    BY <2>1, <2>2, <2>3, ConstantFacts, OutsideLeaves, GatewayTimely, OperatorTimely
    DEF Next, SharedStep, Acquire, Scan, Tick, store
  <2> QED BY <2>1, <2>3 DEF vars, store
<1>2. TypeOK /\ UseInv /\ StoreInv /\ [Next]_vars
        => [\A i \in Ids : file'[i] # file[i] /\ file'[i] \in {"APPROVED", "USED"}
                            => now < expiry[i]]_vars
  BY <1>1 DEF Timely
<1> QED BY <1>2, StoreCorrect, PTL DEF Spec, ValidWhenMoved

-----------------------------------------------------------------------------
\* An event is in the log, or a process that runs is about to write it.
Told(e, i) == <<e, i>> \in recorded \/ \E p \in Procs : <<e, i>> \in todo[p]

Quiet(p) == pc[p] # "recording" => todo[p] = {}

\* The rows that a reader is about to save as expired have been reported, if it
\* has a logger.
Reported(p) == \A i \in Ids : rows[p][i] # file[i] => <<"approval_expired", i>> \in recorded

Accounted(i) == Told(EventFor[file[i]], i) \/ i \in unlogged

AuditInv == /\ \A p \in Procs : Quiet(p) /\ (InSection(p) /\ p \in Audited => Reported(p))
            /\ \A i \in Ids : file[i] # "ABSENT" => Accounted(i)

\* What is recorded stays so, and what is owed is recorded or still owed.
NothingForgotten == /\ recorded \subseteq recorded'
                    /\ \A q \in Procs : todo[q] \subseteq todo'[q] \cup recorded'

\* Only a logger takes a row off the history, by changing it.
Remembered == \A i \in unlogged : file'[i] = file[i] => i \in unlogged'

LEMMA ToldKept ==
    ASSUME AuditInv, NothingForgotten, Remembered,
           \A i \in Ids : file'[i] # "ABSENT" /\ file'[i] # file[i] => Accounted(i)'
    PROVE  \A i \in Ids : file'[i] # "ABSENT" => Accounted(i)'
<1>1. \A e, i : Told(e, i) => Told(e, i)'
  BY DEF NothingForgotten, Told
<1>2. ASSUME NEW i \in Ids, file'[i] # "ABSENT", file'[i] = file[i]
      PROVE  Accounted(i)'
  <2>1. \A e : Told(e, i) => Told(e, i)'
    BY <1>1
  <2>2. Accounted(i)
    BY <1>2 DEF AuditInv
  <2> QED BY <1>2, <2>1, <2>2 DEF Accounted, Told, EventFor, Remembered
<1> QED BY <1>2

\* A process that saves accounts for what it changes.
LEMMA SectionAccounts ==
    ASSUME NEW p \in Procs, EndScan(p) \/ GatewayStep(p) \/ OperatorStep(p)
    PROVE  /\ Remembered
           /\ p \notin Audited => \A i \in Ids : file'[i] # file[i] => i \in unlogged'
<1>1. Account(p) \/ UNCHANGED <<file, unlogged>>
  BY DEF EndScan, GatewayStep, OperatorStep, Find, Consume, Create, List, Approve, Attempt,
         Apply, Deny, store, history
<1> QED BY <1>1 DEF Account, Changed, Remembered

\* The end of a section: the process owes what it has changed.
LEMMA SectionOwes ==
    ASSUME TypeOK, \A q \in Procs : Quiet(q), NEW p \in Procs, GatewayStep(p) \/ OperatorStep(p)
    PROVE  /\ NothingForgotten /\ UNCHANGED recorded /\ \A q \in Procs : Quiet(q)'
           /\ \A q \in Procs \ {p} : todo'[q] = todo[q]
           /\ \A events : ThenRecord(p, events)
                          => todo'[p] = IF p \in Audited THEN events ELSE {}
<1>1. pc[p] = "acting" /\ Leaves(p)
  BY SectionLeaves
<1>2. todo[p] = {}
  BY <1>1 DEF Quiet
<1>3. UNCHANGED recorded /\ \A q \in Procs \ {p} : todo'[q] = todo[q]
  BY DEF GatewayStep, OperatorStep, Find, Consume, Create, List, Approve, Attempt, Apply,
         Deny, Refuse, Expire, SaveAs, AskPassphrase, ThenRecord, TypeOK, AuditOK
<1>4. \A q \in Procs \ {p} : Quiet(q)'
  BY <1>1, <1>3 DEF Quiet, Leaves
<1>5. ASSUME NEW events, ThenRecord(p, events)
      PROVE  todo'[p] = (IF p \in Audited THEN events ELSE {}) /\ Quiet(p)'
  <2>1. todo'[p] = IF p \in Audited THEN events ELSE {}
    BY <1>5 DEF ThenRecord, TypeOK, AuditOK
  <2>2. CASE todo'[p] = {}
    BY <2>1, <2>2 DEF Quiet
  <2>3. CASE todo'[p] # {}
    BY <1>5, <2>1, <2>3 DEF ThenRecord, Goto, Quiet, TypeOK, ControlOK
  <2> QED BY <2>1, <2>2, <2>3
<1>6. CASE UNCHANGED todo
  BY <1>2, <1>3, <1>4, <1>5, <1>6 DEF NothingForgotten, Quiet
<1>7. CASE \E events : ThenRecord(p, events)
  BY <1>2, <1>3, <1>4, <1>5, <1>7 DEF NothingForgotten
<1>8. UNCHANGED todo \/ \E events : ThenRecord(p, events)
  <2>1. CASE Consume(p)
    BY <2>1 DEF Consume
  <2>2. CASE ~Consume(p)
    BY <2>2 DEF GatewayStep, OperatorStep, Find, Create, List, Approve, Attempt, Apply,
                Deny, Refuse, Expire, SaveAs, AskPassphrase
  <2> QED BY <2>1, <2>2
<1> QED BY <1>5, <1>6, <1>7, <1>8

LEMMA OutsideTells ==
    ASSUME TypeOK, UseInv, AuditInv, NEW p \in Procs,
           \/ \E r \in Requests : Evaluate(p, r)
           \/ Poll(p)
           \/ \E i \in Ids : Decide(p, i, "approve") \/ Decide(p, i, "deny")
           \/ Prompt(p) \/ Record(p)
    PROVE  AuditInv'
<1>1. Leaves(p) /\ UNCHANGED <<file, unlogged>>
  BY OutsideLeaves DEF Evaluate, Poll, Decide, Prompt, Record, history
<1>2. CASE ~Record(p)
  <2>1. UNCHANGED <<todo, recorded>> /\ pc[p] # "recording"
    BY <1>2 DEF Evaluate, Poll, Decide, Prompt
  <2>2. \A q \in Procs : Quiet(q)'
    BY <1>1, <2>1 DEF AuditInv, Quiet, Leaves
  <2> QED BY <1>1, <2>1, <2>2 DEF AuditInv, Accounted, Told, Reported, InSection, Leaves
<1>3. CASE Record(p)
  <2>1. PICK e \in todo[p] : /\ recorded' = recorded \cup {e}
                             /\ todo' = [todo EXCEPT ![p] = @ \ {e}]
    BY <1>3 DEF Record
  <2>2. /\ todo'[p] = todo[p] \ {e}
        /\ \A q \in Procs \ {p} : todo'[q] = todo[q]
    BY <2>1 DEF TypeOK, AuditOK
  <2>3. NothingForgotten
    BY <2>1, <2>2 DEF NothingForgotten
  <2>4. Quiet(p)'
    BY <1>3 DEF Record, Quiet
  <2>5. \A q \in Procs \ {p} : Quiet(q)' /\ (InSection(q)' /\ q \in Audited => Reported(q)')
    BY <1>1, <2>1, <2>2 DEF AuditInv, Quiet, Reported, InSection, Leaves
  <2>6. ~InSection(p)'
    BY <1>1 DEF InSection, Leaves
  <2>7. \A i \in Ids : file'[i] # "ABSENT" => Accounted(i)'
    BY <1>1, <2>3, ToldKept DEF Remembered
  <2> QED BY <2>4, <2>5, <2>6, <2>7 DEF AuditInv
<1> QED BY <1>2, <1>3

LEMMA ScanTells ==
    ASSUME TypeOK, UseInv, StoreInv, AuditInv, NEW p \in Procs,
           Acquire(p) \/ Scan(p) \/ EndScan(p)
    PROVE  AuditInv'
<1>1. /\ UNCHANGED todo /\ recorded \subseteq recorded'
      /\ \A q \in Procs \ {p} : pc'[q] = pc[q] /\ rows'[q] = rows[q]
      /\ pc'[p] # "recording" /\ pc[p] # "recording"
  BY DEF Acquire, Scan, EndScan, Goto, memory, TypeOK, ControlOK, MemoryOK
<1>2. NothingForgotten /\ \A q \in Procs : Quiet(q)'
  BY <1>1 DEF NothingForgotten, AuditInv, Quiet
<1>3. CASE Acquire(p)
  <2>1. rows'[p] = file /\ UNCHANGED <<file, unlogged>>
    BY <1>3 DEF Acquire, TypeOK, MemoryOK, store, history
  <2>2. \A q \in Procs : InSection(q)' /\ q \in Audited => Reported(q)'
    BY <1>1, <2>1 DEF AuditInv, Reported, InSection
  <2> QED BY <1>2, <2>1, <2>2, ToldKept DEF AuditInv, Remembered
<1>4. CASE Scan(p)
  <2>1. UNCHANGED <<file, unlogged, pc>> /\ pc[p] = "scanning"
    BY <1>4 DEF Scan, store, history
  <2>2. p \in Audited => Reported(p)
    BY <2>1 DEF AuditInv, InSection
  <2>3. p \in Audited => \A i \in Ids : rows'[p][i] # rows[p][i]
                                        => <<"approval_expired", i>> \in recorded'
    BY <1>4 DEF Scan, With, TypeOK, MemoryOK
  <2>4. \A q \in Procs : InSection(q)' /\ q \in Audited => Reported(q)'
    BY <1>1, <2>1, <2>2, <2>3 DEF AuditInv, Reported, InSection
  <2> QED BY <1>2, <2>1, <2>4, ToldKept DEF AuditInv, Remembered
<1>5. CASE EndScan(p)
  <2>1. /\ pc[p] = "scanning" /\ UNCHANGED <<rows, recorded>>
        /\ file' = IF dirty[p] THEN rows[p] ELSE file
    BY <1>5 DEF EndScan, memory
  <2>2. (p \in Audited => Reported(p)) /\ Fresh(p) /\ InSection(p)
    BY <2>1 DEF AuditInv, StoreInv, InSection
  <2>3. rows'[p] = file'
    BY <2>1, <2>2 DEF Fresh
  <2>4. \A q \in Procs : InSection(q)' => q = p
    BY <1>1, <2>2, Alone DEF UseInv, InSection
  <2>5. p \in Audited => \A i \in Ids : file'[i] # file[i]
                             => file'[i] = "EXPIRED" /\ <<"approval_expired", i>> \in recorded'
    BY <2>1, <2>2 DEF Fresh, Reported
  <2>6. ASSUME NEW i \in Ids, file'[i] # file[i] PROVE Accounted(i)'
    <3>1. CASE p \in Audited
      <4>1. file'[i] = "EXPIRED" /\ <<"approval_expired", i>> \in recorded'
        BY <2>5, <2>6, <3>1
      <4>2. <<EventFor[file'[i]], i>> \in recorded'
        BY <4>1 DEF EventFor
      <4> QED BY <4>2 DEF Accounted, Told
    <3>2. CASE p \notin Audited
      BY <1>5, <2>6, <3>2, SectionAccounts DEF Accounted
    <3> QED BY <3>1, <3>2
  <2>7. Remembered
    BY <1>5, SectionAccounts
  <2>8. \A i \in Ids : file'[i] # "ABSENT" => Accounted(i)'
    BY <1>2, <2>6, <2>7, ToldKept
  <2> QED BY <1>2, <2>3, <2>4, <2>8 DEF AuditInv, Reported
<1> QED BY <1>3, <1>4, <1>5

LEMMA GatewayTells ==
    ASSUME TypeOK, UseInv, StoreInv, AuditInv, NEW g \in Audited, GatewayStep(g)
    PROVE  \A i \in Ids : file'[i] # file[i] => <<EventFor[file[i]], i>>' \in todo'[g]
<1>0. g \in Procs
  BY FlagsAssumption
<1>1. rows[g] = file
  BY <1>0, SectionLeaves DEF StoreInv, InSection, Fresh
<1>2. CASE UNCHANGED file
  BY <1>2
<1>3. CASE Create(g)
  <2>1. \/ ThenRecord(g, {<<"approval_created", nextId>>}) /\ nextId \in Ids
        \/ UNCHANGED file
    BY <1>3 DEF Create, store
  <2>2. nextId \in Ids => file' = With(file, nextId, "PENDING")
    BY <1>1, <1>3 DEF Create
  <2>3. CASE todo'[g] = {<<"approval_created", nextId>>} /\ nextId \in Ids
    BY <2>2, <2>3 DEF With, EventFor, TypeOK, StoreOK
  <2> QED BY <1>0, <1>2, <2>1, <2>3, SectionOwes DEF AuditInv
<1>4. CASE Consume(g) /\ ~UNCHANGED file
  <2> DEFINE late == {i \in Matching(g) : rows[g][i] = "APPROVED" /\ Expired(i)}
             valid == {i \in Matching(g) : rows[g][i] = "APPROVED"} \ late
  <2>1. PICK used \in valid :
          LET passed == {i \in late : i < used}
          IN /\ file' = [i \in Ids |-> IF i = used THEN "USED"
                                       ELSE IF i \in passed THEN "EXPIRED"
                                       ELSE rows[g][i]]
             /\ ThenRecord(g, {<<"approval_expired", i>> : i \in passed}
                              \cup {<<"approval_used", used>>})
    BY <1>4 DEF Consume
  <2>2. todo'[g] = {<<"approval_expired", i>> : i \in {j \in late : j < used}}
                   \cup {<<"approval_used", used>>}
    BY <1>0, <2>1, SectionOwes DEF AuditInv
  <2>3. \A i \in Ids : file'[i] # file[i]
          => \/ i = used /\ file'[i] = "USED"
             \/ i \in {j \in late : j < used} /\ file'[i] = "EXPIRED"
    BY <1>1, <2>1
  <2> QED BY <2>2, <2>3 DEF EventFor
<1> QED BY <1>2, <1>3, <1>4 DEF GatewayStep, Find, store

LEMMA OperatorTells ==
    ASSUME TypeOK, UseInv, StoreInv, AuditInv, NEW o \in Audited, OperatorStep(o)
    PROVE  \A i \in Ids : file'[i] # file[i] => <<EventFor[file[i]], i>>' \in todo'[o]
<1>0. o \in Procs
  BY FlagsAssumption
<1>1. rows[o] = file /\ target[o] \in Ids
  BY <1>0, SectionLeaves DEF StoreInv, InSection, Fresh, TypeOK, ArgsOK
<1>2. CASE UNCHANGED file
  BY <1>2
<1>3. ASSUME NEW status, NEW event, SaveAs(o, status, event), EventFor[status] = event
      PROVE  \A i \in Ids : file'[i] # file[i] => <<EventFor[file[i]], i>>' \in todo'[o]
  <2>1. todo'[o] = {<<event, target[o]>>}
    BY <1>0, <1>3, SectionOwes DEF SaveAs, AuditInv
  <2>2. \A i \in Ids : file'[i] # file[i] => i = target[o] /\ file'[i] = status
    BY <1>1, <1>3 DEF SaveAs, With, TypeOK, StoreOK
  <2> QED BY <1>3, <2>1, <2>2 DEF EventFor
<1>4. CASE SaveAs(o, "EXPIRED", "approval_expired")
  BY <1>3, <1>4 DEF EventFor
<1>5. CASE SaveAs(o, "APPROVED", "approval_approved")
  BY <1>3, <1>5 DEF EventFor
<1>6. CASE SaveAs(o, "DENIED", "approval_denied")
  BY <1>3, <1>6 DEF EventFor
<1> QED BY <1>1, <1>2, <1>4, <1>5, <1>6
        DEF OperatorStep, List, Approve, Attempt, Apply, Deny, Refuse, Expire, AskPassphrase, store

\* A process that dies leaves what it owes to nobody.
LEMMA AbortTells == ASSUME TypeOK, UseInv, AuditInv, NEW p \in Procs, Abort(p)
                    PROVE  AuditInv'
<1>1. Leaves(p) /\ UNCHANGED <<file, recorded>> /\ pc'[p] = "idle"
  BY OutsideLeaves DEF Abort, Return, Goto, TypeOK, ControlOK
<1>2. /\ todo'[p] = {} /\ \A q \in Procs \ {p} : todo'[q] = todo[q]
      /\ unlogged' = unlogged \cup OwedBy(p)
  BY DEF Abort, TypeOK, AuditOK
<1>3. \A q \in Procs : Quiet(q)' /\ (InSection(q)' /\ q \in Audited => Reported(q)')
  BY <1>1, <1>2 DEF AuditInv, Quiet, Reported, InSection, Leaves
<1>4. ASSUME NEW i \in Ids, file[i] # "ABSENT" PROVE Accounted(i)'
  <2>1. CASE <<EventFor[file[i]], i>> \in todo[p]
    BY <1>2, <1>4, <2>1 DEF OwedBy, Accounted
  <2>2. CASE <<EventFor[file[i]], i>> \notin todo[p]
    <3>1. Told(EventFor[file[i]], i) \/ i \in unlogged
      BY <1>4 DEF AuditInv, Accounted
    <3> QED BY <1>1, <1>2, <2>2, <3>1 DEF Accounted, Told, EventFor
  <2> QED BY <2>1, <2>2
<1> QED BY <1>1, <1>3, <1>4 DEF AuditInv

LEMMA AuditInductive ==
    ASSUME Resetters = {}, TypeOK, UseInv, StoreInv, AuditInv, [Next]_vars
    PROVE  AuditInv'
<1>1. CASE Tick \/ UNCHANGED vars
  BY <1>1 DEF Tick, vars, store, memory, history, AuditInv, Quiet, Reported, InSection,
              Accounted, Told
<1>2. ASSUME NEW p \in Procs, GatewayStep(p) \/ OperatorStep(p)
      PROVE  AuditInv'
  <2>1. \A i \in Ids : file'[i] # file[i] => Accounted(i)'
    <3>1. CASE p \in Audited
      BY <1>2, <3>1, GatewayTells, OperatorTells DEF Accounted, Told
    <3>2. CASE p \notin Audited
      BY <1>2, <3>2, SectionAccounts DEF Accounted
    <3> QED BY <3>1, <3>2
  <2>2. NothingForgotten /\ \A q \in Procs : Quiet(q)'
    BY <1>2, SectionOwes DEF AuditInv
  <2>3. \A q \in Procs : ~InSection(q)'
    BY <1>2, SectionLeaves, Alone DEF UseInv, InSection, Leaves
  <2>4. Remembered
    BY <1>2, SectionAccounts
  <2>5. \A i \in Ids : file'[i] # "ABSENT" => Accounted(i)'
    BY <2>1, <2>2, <2>4, ToldKept
  <2> QED BY <2>2, <2>3, <2>5 DEF AuditInv
<1>3. CASE Next
  BY <1>1, <1>2, <1>3, ConstantFacts, OutsideTells, ScanTells, AbortTells
  DEF Next, SharedStep
<1> QED BY <1>1, <1>3

\* The last change of every row is in the audit log, or a running process still
\* owes it, or it was made by a process without a logger or one that died before
\* it wrote (docs/architecture/pending_approvals.md:145): no interleaving of
\* scans, decisions and uses, by processes with and without a logger, loses an
\* event in any other way.
THEOREM ChangesAreTold == Resetters = {} => (Spec => []AuditComplete)
<1> SUFFICES ASSUME Resetters = {} PROVE Spec => []AuditComplete
  OBVIOUS
<1>1. Init => AuditInv
  BY DEF Init, Blank, AuditInv, Quiet, InSection
<1>2. AuditInv => AuditComplete
  BY DEF AuditInv, AuditComplete, Accounted, Told
<1>3. TypeOK /\ UseInv /\ StoreInv /\ AuditInv /\ [Next]_vars => AuditInv'
  BY AuditInductive
<1> QED BY <1>1, <1>2, <1>3, StoreCorrect, PTL DEF Spec

-----------------------------------------------------------------------------
\* An approval that needed no passphrase is reported by whoever still has the
\* lock, and nothing has used it; a row that a passphrase approves is strong.
UseTold(i) == <<"approval_used", i>> \in recorded
              \/ \E p \in Procs : <<"approval_used", i>> \in todo[p]

Held(p) == \A i \in Ids : <<"approval_approved", i>> \in todo[p] /\ reqOf[i] \notin Strong
                          => lock = p /\ grants[i] = 0

Asked(p) == pc[p] = "prompting" \/ op[p] = "apply"
              => target[p] < nextId /\ reqOf[target[p]] \in Strong

OrderInv == /\ \A p \in Procs : Quiet(p) /\ Held(p) /\ Asked(p)
            /\ \A i \in Ids : /\ UseTold(i) => grants[i] > 0
                              /\ i >= nextId => reqOf[i] = None

\* A step that owes no new event, and frees no lock that it still needs.
LEMMA OrderSteady ==
    ASSUME TypeOK, OrderInv, UNCHANGED <<grants, reqOf, nextId>>,
           \A q \in Procs : /\ todo'[q] \subseteq todo[q]
                            /\ todo'[q] # {} /\ lock = q => lock' = q
                            /\ Quiet(q)' /\ Asked(q)',
           \A i \in Ids : <<"approval_used", i>> \in recorded' => UseTold(i)
    PROVE  OrderInv'
<1>1. \A p \in Procs : Held(p)'
  BY DEF OrderInv, Held
<1>2. ASSUME NEW i \in Ids, UseTold(i)' PROVE UseTold(i)
  <2>1. CASE <<"approval_used", i>> \in recorded'
    BY <2>1
  <2>2. CASE \E q \in Procs : <<"approval_used", i>> \in todo'[q]
    BY <2>2 DEF UseTold
  <2> QED BY <1>2, <2>1, <2>2 DEF UseTold
<1> QED BY <1>1, <1>2 DEF OrderInv

LEMMA OutsideOrder ==
    ASSUME TypeOK, OrderInv, NEW p \in Procs,
           \/ \E r \in Requests : Evaluate(p, r)
           \/ Poll(p)
           \/ \E i \in Ids : Decide(p, i, "approve") \/ Decide(p, i, "deny")
           \/ Prompt(p) \/ Acquire(p) \/ Scan(p) \/ EndScan(p)
           \/ ResetRead(p) \/ ResetSave(p)
    PROVE  OrderInv'
<1>1. UNCHANGED <<grants, reqOf, nextId, todo>>
  BY DEF Evaluate, Poll, Decide, Prompt, Acquire, Scan, EndScan, ResetRead, ResetSave,
         store, history
<1>2. \A q \in Procs : lock = q => lock' = q
  BY ProcsAssumption
  DEF Evaluate, Poll, Decide, Prompt, Acquire, MayEnter, Scan, EndScan, ResetRead, ResetSave
<1>3. \A i \in Ids : <<"approval_used", i>> \in recorded' => UseTold(i)
  BY DEF Evaluate, Poll, Decide, Prompt, Acquire, Scan, EndScan, ResetRead, ResetSave, UseTold
<1>4. /\ \A q \in Procs \ {p} : pc'[q] = pc[q] /\ op'[q] = op[q] /\ target'[q] = target[q]
      /\ pc[p] # "recording"
  BY DEF Evaluate, Poll, Decide, Prompt, ThenWait, Acquire, Scan, EndScan, ResetRead,
         ResetSave, Return, ForgetArgs, Goto, args, TypeOK, ControlOK, ArgsOK
<1>5. \A q \in Procs : Quiet(q)'
  BY <1>1, <1>4 DEF OrderInv, Quiet
<1>6. Asked(p)'
  <2>1. CASE Prompt(p)
    BY <1>1, <2>1 DEF Prompt, ThenWait, Goto, args, OrderInv, Asked, TypeOK, ControlOK, ArgsOK
  <2>2. CASE Acquire(p) \/ Scan(p) \/ EndScan(p)
    BY <1>1, <2>2 DEF Acquire, Scan, EndScan, Goto, args, OrderInv, Asked, TypeOK, ControlOK
  <2>3. \/ pc'[p] # "prompting" /\ op'[p] # "apply"
        \/ Prompt(p) \/ Acquire(p) \/ Scan(p) \/ EndScan(p)
    BY DEF Evaluate, Poll, Decide, ResetRead, ResetSave, Return, Goto, TypeOK, ControlOK
  <2> QED BY <2>1, <2>2, <2>3 DEF Asked
<1>7. \A q \in Procs : Asked(q)'
  BY <1>1, <1>4, <1>6 DEF OrderInv, Asked
<1> QED BY <1>1, <1>2, <1>3, <1>5, <1>7, OrderSteady

\* The end of a call, which may free the lock.
LEMMA EndOrder ==
    ASSUME TypeOK, OrderInv, NEW p \in Procs, Record(p) \/ Abort(p)
    PROVE  OrderInv'
<1>1. UNCHANGED <<grants, reqOf, nextId>>
  BY DEF Record, Abort, store, history
<1>2. /\ \A q \in Procs \ {p} : todo'[q] = todo[q]
      /\ todo'[p] \subseteq todo[p]
  BY DEF Record, Abort, TypeOK, AuditOK
<1>3. \A i \in Ids : <<"approval_used", i>> \in recorded' => UseTold(i)
  BY DEF Record, Abort, UseTold
<1>4. \/ UNCHANGED <<pc, op, target, lock>> /\ pc[p] = "recording"
      \/ todo'[p] = {} /\ Return(p) /\ Unlock(p)
  BY DEF Record, Abort, args, TypeOK, AuditOK
<1>5. /\ \A q \in Procs \ {p} : pc'[q] = pc[q] /\ op'[q] = op[q] /\ target'[q] = target[q]
      /\ UNCHANGED <<pc, op, target>> \/ (pc'[p] = "idle" /\ op'[p] = "none")
  BY <1>4 DEF Return, ForgetArgs, Goto, TypeOK, ControlOK, ArgsOK
<1>6. \A q \in Procs : Quiet(q)' /\ Asked(q)'
  BY <1>1, <1>2, <1>4, <1>5 DEF OrderInv, Quiet, Asked
<1>7. \A q \in Procs : todo'[q] # {} /\ lock = q => lock' = q
  BY <1>4 DEF Unlock
<1> QED BY <1>1, <1>2, <1>3, <1>6, <1>7, OrderSteady

\* The end of a section touches no other call, asks for a passphrase only in
\* approve(), and keeps what it owes for the recording.
LEMMA SectionCalls ==
    ASSUME TypeOK, NEW p \in Procs, GatewayStep(p) \/ OperatorStep(p)
    PROVE  /\ \A q \in Procs \ {p} : op'[q] = op[q] /\ target'[q] = target[q]
           /\ (pc'[p] = "prompting" \/ op'[p] = "apply")
              => /\ (Approve(p) /\ AskPassphrase(p)) \/ Apply(p)
                 /\ target'[p] = target[p]
<1>1. Acting(p, op[p])
  BY SectionLeaves DEF Acting
<1>2. ASSUME Return(p)
      PROVE  /\ \A q \in Procs \ {p} : op'[q] = op[q] /\ target'[q] = target[q]
             /\ pc'[p] # "prompting" /\ op'[p] # "apply"
  BY <1>2 DEF Return, Goto, ForgetArgs, TypeOK, ControlOK, ArgsOK
<1>3. ASSUME NEW events, ThenRecord(p, events)
      PROVE  /\ \A q \in Procs \ {p} : op'[q] = op[q] /\ target'[q] = target[q]
             /\ pc'[p] # "prompting" /\ op'[p] \in {op[p], "none"}
             /\ op'[p] = op[p] => target'[p] = target[p] \/ op[p] = "none"
  BY <1>2, <1>3 DEF ThenRecord, Goto, args, TypeOK, ControlOK, ArgsOK, Return, ForgetArgs
<1>4. CASE Find(p)
  BY <1>2, <1>4 DEF Find, ThenWait, Goto, args, TypeOK, ControlOK, ArgsOK
<1>5. CASE Consume(p)
  <2>1. op[p] = "consume" /\ \E events : ThenRecord(p, events)
    BY <1>5 DEF Consume, Acting
  <2> QED BY <1>3, <2>1
<1>6. CASE Create(p)
  BY <1>2, <1>3, <1>6 DEF Create, Acting
<1>7. CASE List(p) \/ Refuse(p)
  BY <1>2, <1>7 DEF List, Refuse
<1>8. CASE Attempt(p)
  <2>1. op[p] = "attempt" /\ \E events : ThenRecord(p, events)
    BY <1>8 DEF Attempt, Acting
  <2> QED BY <1>3, <2>1
<1>9. CASE Deny(p)
  BY <1>3, <1>9 DEF Deny, SaveAs, Acting
<1>10. ASSUME AskPassphrase(p)
       PROVE  target'[p] = target[p]
              /\ \A q \in Procs \ {p} : op'[q] = op[q] /\ target'[q] = target[q]
  BY <1>10 DEF AskPassphrase, Goto, args, TypeOK, ControlOK, ArgsOK
<1>11. CASE Approve(p)
  BY <1>3, <1>7, <1>10, <1>11 DEF Approve, Expire, SaveAs, Acting
<1>12. CASE Apply(p)
  BY <1>3, <1>7, <1>12 DEF Apply, Expire, SaveAs, Acting
<1> QED BY <1>4, <1>5, <1>6, <1>7, <1>8, <1>9, <1>11, <1>12 DEF GatewayStep, OperatorStep

\* A section starts with nothing held by anybody, so that only what its own end
\* owes matters.
LEMMA SectionOrder ==
    ASSUME TypeOK, UseInv, OrderInv, NEW p \in Procs, GatewayStep(p) \/ OperatorStep(p),
           \A i \in Ids : /\ grants[i] > 0 => grants'[i] > 0
                          /\ <<"approval_used", i>> \in todo'[p] => grants'[i] > 0
                          /\ reqOf[i] \in Strong => reqOf'[i] = reqOf[i]
                          /\ i >= nextId' => i >= nextId /\ reqOf'[i] = reqOf[i],
           \A q \in Procs : target[q] < nextId => target[q] < nextId',
           Held(p)', Asked(p)'
    PROVE  OrderInv'
<1>1. pc[p] = "acting" /\ Leaves(p) /\ lock = p /\ todo[p] = {}
  BY SectionLeaves DEF UseInv, LockInv, InSection, OrderInv, Quiet
<1>2. /\ UNCHANGED recorded
      /\ \A q \in Procs \ {p} : /\ todo'[q] = todo[q] /\ op'[q] = op[q]
                                /\ pc'[q] = pc[q] /\ target'[q] = target[q]
  <2>1. UNCHANGED recorded /\ \A q \in Procs \ {p} : todo'[q] = todo[q]
    BY SectionOwes DEF OrderInv
  <2>2. \A q \in Procs \ {p} : op'[q] = op[q] /\ target'[q] = target[q]
    BY SectionCalls
  <2> QED BY <1>1, <2>1, <2>2 DEF Leaves
<1>3. \A q \in Procs : Quiet(q)'
  BY SectionOwes DEF OrderInv
<1>4. ASSUME NEW q \in Procs \ {p} PROVE Held(q)' /\ Asked(q)'
  <2>1. \A i \in Ids : <<"approval_approved", i>> \in todo[q] => reqOf[i] \in Strong
    BY <1>1, RolesAssumption DEF OrderInv, Held
  <2>2. target[q] \in Ids
    BY DEF TypeOK, ArgsOK
  <2> QED BY <1>2, <2>1, <2>2 DEF OrderInv, Held, Asked
<1>5. ASSUME NEW i \in Ids
      PROVE  /\ UseTold(i)' => grants'[i] > 0
             /\ i >= nextId' => reqOf'[i] = None
  <2>1. ASSUME UseTold(i)' PROVE UseTold(i) \/ <<"approval_used", i>> \in todo'[p]
    BY <1>2, <2>1 DEF UseTold
  <2>2. UseTold(i)' => grants'[i] > 0
    BY <2>1 DEF OrderInv
  <2>3. i >= nextId' => reqOf'[i] = None
    BY DEF OrderInv
  <2> QED BY <2>2, <2>3
<1> QED BY <1>3, <1>4, <1>5 DEF OrderInv

LEMMA GatewayOrder ==
    ASSUME TypeOK, UseInv, OrderInv, NEW g \in Procs, GatewayStep(g)
    PROVE  OrderInv'
<1>1. todo[g] = {} /\ pc[g] = "acting"
  BY SectionLeaves DEF OrderInv, Quiet
<1>2. Asked(g)'
  <2>1. ~Approve(g) /\ ~Apply(g)
    BY DEF GatewayStep, Find, Consume, Create, Approve, Apply, Acting
  <2>2. pc'[g] # "prompting" /\ op'[g] # "apply"
    BY <2>1, SectionCalls
  <2> QED BY <2>2 DEF Asked
<1>3. CASE Find(g)
  <2>1. UNCHANGED <<grants, reqOf, nextId, todo>>
    BY <1>3 DEF Find, store, history
  <2> QED BY <1>1, <1>2, <2>1, SectionOrder DEF Held
<1>4. CASE Create(g)
  <2>1. /\ UNCHANGED grants /\ nextId' \in {nextId, nextId + 1}
        /\ \A i \in Ids : nextId' = nextId \/ i # nextId => reqOf'[i] = reqOf[i]
        /\ todo'[g] \in {{}, {<<"approval_created", nextId>>}}
    BY <1>1, <1>4 DEF Create, ThenRecord, store, history, TypeOK, StoreOK, AuditOK
  <2>2. nextId \in Ids => reqOf[nextId] \notin Strong
    BY StrongAssumption, ProcsAssumption, BoundsAssumption DEF OrderInv, Ids
  <2>3. nextId \in Int /\ Ids \subseteq Int /\ \A q \in Procs : target[q] \in Ids
    BY ConstantFacts, BoundsAssumption DEF TypeOK, StoreOK, ArgsOK
  <2>4. \A i \in Ids : reqOf[i] \in Strong => reqOf'[i] = reqOf[i]
    BY <2>1, <2>2
  <2>5. \A i \in Ids : i >= nextId' => i >= nextId /\ reqOf'[i] = reqOf[i]
    BY <2>1, <2>3
  <2>6. \A q \in Procs : target[q] < nextId => target[q] < nextId'
    <3>1. \A i \in Int : i < nextId => i < nextId'
      BY <2>1, <2>3
    <3> QED BY <2>3, <3>1
  <2>7. Held(g)'
    BY <2>1 DEF Held
  <2> QED BY <1>2, <2>1, <2>4, <2>5, <2>6, <2>7, SectionOrder
<1>5. CASE Consume(g)
  <2>1. UNCHANGED <<reqOf, nextId>>
    BY <1>5 DEF Consume
  <2>2. ASSUME NEW events, ThenRecord(g, events),
               \A i : <<"approval_approved", i>> \notin events,
               \A i \in Ids : /\ grants[i] > 0 => grants'[i] > 0
                              /\ <<"approval_used", i>> \in events => grants'[i] > 0
        PROVE  OrderInv'
    <3>1. todo'[g] \subseteq events
      BY <2>2 DEF ThenRecord, TypeOK, AuditOK
    <3> QED BY <1>2, <2>1, <2>2, <3>1, SectionOrder DEF Held
  <2> DEFINE late == {i \in Matching(g) : rows[g][i] = "APPROVED" /\ Expired(i)}
             valid == {i \in Matching(g) : rows[g][i] = "APPROVED"} \ late
  <2>3. CASE /\ ThenRecord(g, {<<"approval_expired", i>> : i \in late})
             /\ UNCHANGED grants
    BY <2>2, <2>3
  <2>4. ASSUME NEW used \in valid, grants' = [grants EXCEPT ![used] = @ + 1],
               NEW passed, ThenRecord(g, {<<"approval_expired", i>> : i \in passed}
                                         \cup {<<"approval_used", used>>})
        PROVE  OrderInv'
    <3>1. used \in Ids
      BY DEF Matching
    <3>2. \A i \in Ids : grants'[i] = IF i = used THEN grants[i] + 1 ELSE grants[i]
      BY <2>4, <3>1 DEF TypeOK, HistoryOK
    <3>3. \A i \in Ids : grants[i] \in Nat
      BY DEF TypeOK, HistoryOK
    <3> QED BY <2>2, <2>4, <3>1, <3>2, <3>3
  <2> QED BY <1>5, <2>3, <2>4 DEF Consume
<1> QED BY <1>3, <1>4, <1>5 DEF GatewayStep

LEMMA OperatorOrder ==
    ASSUME TypeOK, UseInv, OrderInv, NEW o \in Procs, OperatorStep(o)
    PROVE  OrderInv'
<1>1. /\ todo[o] = {} /\ pc[o] = "acting" /\ lock = o
      /\ UNCHANGED <<grants, reqOf, nextId>> /\ target[o] \in Ids
  <2>1. UNCHANGED <<grants, reqOf, nextId>>
    BY DEF OperatorStep, List, Approve, Attempt, Apply, Deny, store, history
  <2> QED BY <2>1, SectionLeaves
          DEF OrderInv, Quiet, UseInv, LockInv, InSection, TypeOK, ArgsOK
<1>2. Pending(o) => grants[target[o]] = 0 /\ target[o] < nextId
  BY <1>1 DEF UseInv, RowsInv, InSection, Unspent, Pending, Active
<1>3. Asked(o)'
  <2>1. CASE Approve(o) /\ AskPassphrase(o)
    <3>1. target[o] < nextId /\ reqOf[target[o]] \in Strong
      <4>1. op[o] # "apply" /\ pc'[o] = "prompting" /\ op'[o] = "approve"
        BY <2>1 DEF Approve, Acting, AskPassphrase, Goto, TypeOK, ControlOK
      <4>2. Pending(o) /\ reqOf[target[o]] \in Strong
        BY <2>1, <4>1 DEF Approve, Refuse, Expire, SaveAs, ThenRecord, Return, Goto, TypeOK, ControlOK
      <4> QED BY <1>2, <4>2
    <3> QED BY <1>1, <2>1, <3>1 DEF AskPassphrase, args, Asked
  <2>2. CASE Apply(o)
    <3>1. target[o] < nextId /\ reqOf[target[o]] \in Strong
      BY <2>2 DEF Apply, Acting, OrderInv, Asked
    <3> QED BY <1>1, <3>1, SectionCalls DEF Asked
  <2> QED BY <2>1, <2>2, SectionCalls DEF Asked
<1>4. ASSUME NEW events, ThenRecord(o, events),
             \A i : <<"approval_approved", i>> \in events
                    => i = target[o] /\ Pending(o)
                       /\ (reqOf[i] \in Strong \/ UnlockAfterEvent(o)),
             \A i : <<"approval_used", i>> \notin events
      PROVE  OrderInv'
  <2>1. todo'[o] = IF o \in Audited THEN events ELSE {}
    BY <1>4, SectionOwes DEF OrderInv
  <2>2. Held(o)'
    BY <1>1, <1>2, <1>4, <2>1 DEF Held, UnlockAfterEvent
  <2> QED BY <1>1, <1>3, <1>4, <2>1, <2>2, SectionOrder
<1>5. ASSUME UNCHANGED todo PROVE OrderInv'
  BY <1>1, <1>3, <1>5, SectionOrder DEF Held
<1>6. CASE Refuse(o) \/ List(o) \/ AskPassphrase(o)
  BY <1>5, <1>6 DEF Refuse, List, AskPassphrase
<1>7. CASE Expire(o)
  BY <1>4, <1>7 DEF Expire, SaveAs
<1>8. CASE Attempt(o)
  BY <1>4, <1>8 DEF Attempt
<1>9. CASE Deny(o)
  BY <1>4, <1>9 DEF Deny, SaveAs
<1>10. CASE Approve(o)
  BY <1>4, <1>6, <1>7, <1>10 DEF Approve, SaveAs
<1>11. CASE Apply(o)
  <2>1. reqOf[target[o]] \in Strong
    BY <1>11 DEF Apply, Acting, OrderInv, Asked
  <2> QED BY <1>4, <1>6, <1>7, <1>11, <2>1 DEF Apply, SaveAs
<1> QED BY <1>6, <1>8, <1>9, <1>10, <1>11 DEF OperatorStep

LEMMA OrderInductive == TypeOK /\ UseInv /\ OrderInv /\ [Next]_vars => OrderInv'
<1> SUFFICES ASSUME TypeOK, UseInv, OrderInv, [Next]_vars PROVE OrderInv'
  OBVIOUS
<1>1. CASE Tick \/ UNCHANGED vars
  <2>1. UNCHANGED <<grants, reqOf, nextId, todo, recorded, lock, pc, op, target>>
    BY <1>1 DEF Tick, vars, store, args, history
  <2> QED BY <2>1 DEF OrderInv, Quiet, Held, Asked, UseTold
<1>2. CASE Next
  BY <1>1, <1>2, ConstantFacts, OutsideOrder, EndOrder, GatewayOrder, OperatorOrder
  DEF Next, SharedStep
<1> QED BY <1>1, <1>2

\* The log never shows that an approval was used while its approver still owes
\* the report that it was approved, when the approval needed no passphrase
\* (approve() writes its event before it releases the lock,
\* pending_approvals.py:252-273): for any processes, deaths and resets.
THEOREM UseReportedLast == Spec => []ApprovedBeforeUsed
<1>1. Init => OrderInv
  BY DEF Init, OrderInv, Quiet, Held, Asked, UseTold
<1>2. TypeOK /\ OrderInv => ApprovedBeforeUsed
  BY DEF TypeOK, HistoryOK, OrderInv, Held, UseTold, ApprovedBeforeUsed
<1> QED BY <1>1, <1>2, TypeCorrect, UseCorrect, OrderInductive, PTL DEF Spec
-----------------------------------------------------------------------------
\* A gateway has at most one active row for a request: in the file, in the list
\* of a process in its section, which misses no active row but those it is about
\* to save as expired, and none once it goes on to create one.
Single(list) == \A i, j \in Ids : /\ list[i] \in Active /\ list[j] \in Active
                                  /\ reqOf[i] = reqOf[j] /\ maker[i] = maker[j]
                                  => i = j

Free(list, g) == \A i \in Ids : list[i] \in Active
                                => reqOf[i] # req[g] \/ maker[i] # g

Seen(p) == \A i \in Ids : file[i] \in Active
                          => rows[p][i] \in Active \/ (pc[p] = "scanning" /\ dirty[p])

Creating(g) == op[g] = "create" /\ pc[g] \in {"waiting", "scanning", "acting"}

RetryInv == /\ Single(file)
            /\ \A p \in Procs : InSection(p) => Single(rows[p]) /\ Seen(p)
            /\ \A g \in Gateways : Creating(g) =>
                  /\ Free(file, g)
                  /\ \A p \in Procs : InSection(p) => Free(rows[p], g)

\* A call of one process is no step of another's.
LEMMA OutsideCalls ==
    ASSUME TypeOK, NEW p \in Procs,
           \/ \E r \in Requests : Evaluate(p, r)
           \/ Poll(p)
           \/ \E i \in Ids : Decide(p, i, "approve") \/ Decide(p, i, "deny")
           \/ Prompt(p) \/ Record(p) \/ Abort(p) \/ ResetRead(p) \/ ResetSave(p)
    PROVE  /\ \A q \in Procs \ {p} : op'[q] = op[q] /\ req'[q] = req[q]
           /\ ~Creating(p)'
           /\ UNCHANGED <<reqOf, maker>>
<1> USE DEF TypeOK, ControlOK, ArgsOK, Goto, args, store, history, Creating
<1>1. ASSUME Return(p)
      PROVE  /\ \A q \in Procs \ {p} : op'[q] = op[q] /\ req'[q] = req[q]
             /\ ~Creating(p)'
  BY <1>1 DEF Return, ForgetArgs
<1>2. CASE Record(p)
  <2>1. CASE Return(p)
    BY <1>1, <1>2, <2>1 DEF Record
  <2>2. CASE UNCHANGED <<pc, op, args>>
    BY <1>2, <2>2 DEF Record
  <2> QED BY <1>2, <2>1, <2>2 DEF Record
<1>3. CASE Abort(p) \/ ResetSave(p)
  BY <1>1, <1>3 DEF Abort, ResetSave
<1>4. CASE \E r \in Requests : Evaluate(p, r)
  BY <1>4 DEF Evaluate
<1>5. CASE Poll(p) \/ ResetRead(p)
  BY <1>5 DEF Poll, ResetRead
<1>6. CASE \E i \in Ids : Decide(p, i, "approve") \/ Decide(p, i, "deny")
  BY <1>6 DEF Decide
<1>7. CASE Prompt(p)
  BY <1>7 DEF Prompt, ThenWait
<1> QED BY <1>2, <1>3, <1>4, <1>5, <1>6, <1>7

\* Only a gateway that found nothing goes on to create a row.
LEMMA SectionCreates ==
    ASSUME TypeOK, NEW p \in Procs, GatewayStep(p) \/ OperatorStep(p)
    PROVE  /\ \A q \in Procs \ {p} : op'[q] = op[q] /\ req'[q] = req[q]
           /\ Creating(p)' => Find(p) /\ Matching(p) = {} /\ req'[p] = req[p]
<1> USE DEF TypeOK, ControlOK, ArgsOK, Goto, args, Creating
<1>1. ASSUME Return(p)
      PROVE  /\ \A q \in Procs \ {p} : op'[q] = op[q] /\ req'[q] = req[q]
             /\ ~Creating(p)'
  BY <1>1 DEF Return, ForgetArgs
<1>2. ASSUME NEW events, ThenRecord(p, events)
      PROVE  /\ \A q \in Procs \ {p} : op'[q] = op[q] /\ req'[q] = req[q]
             /\ ~Creating(p)'
  BY <1>1, <1>2 DEF ThenRecord
<1>3. CASE Find(p)
  BY <1>1, <1>3 DEF Find, ThenWait
<1>4. CASE Consume(p) \/ Attempt(p)
  <2>1. \E events : ThenRecord(p, events)
    BY <1>4 DEF Consume, Attempt
  <2> QED BY <1>2, <2>1
<1>5. CASE Create(p) \/ List(p) \/ Deny(p)
  BY <1>1, <1>2, <1>5 DEF Create, List, Deny, SaveAs
<1>6. ASSUME AskPassphrase(p)
      PROVE  /\ \A q \in Procs \ {p} : op'[q] = op[q] /\ req'[q] = req[q]
             /\ ~Creating(p)'
  BY <1>6 DEF AskPassphrase
<1>7. CASE Approve(p) \/ Apply(p)
  BY <1>1, <1>2, <1>6, <1>7 DEF Approve, Apply, Refuse, Expire, SaveAs
<1> QED BY <1>3, <1>4, <1>5, <1>7 DEF GatewayStep, OperatorStep

\* Outside a section only an unlocked reset changes the file, and leaves nothing
\* active in it.
LEMMA OutsideRetry ==
    ASSUME TypeOK, UseInv, RetryInv, NEW p \in Procs,
           \/ \E r \in Requests : Evaluate(p, r)
           \/ Poll(p)
           \/ \E i \in Ids : Decide(p, i, "approve") \/ Decide(p, i, "deny")
           \/ Prompt(p) \/ Record(p) \/ Abort(p) \/ ResetRead(p) \/ ResetSave(p)
    PROVE  RetryInv'
<1>1. /\ Leaves(p)
      /\ \A q \in Procs \ {p} : dirty'[q] = dirty[q]
  BY OutsideLeaves, ReturnLeaves DEF ResetSave, Return, Forget, TypeOK, MemoryOK
<1>2. file' = file \/ \A i \in Ids : file'[i] \notin Active
  <2>1. CASE ResetSave(p)
    BY <2>1 DEF ResetSave, ToCancel, Active
  <2> QED BY <2>1, OutsideLeaves
<1>3. /\ \A q \in Procs \ {p} : op'[q] = op[q] /\ req'[q] = req[q]
      /\ ~Creating(p)' /\ UNCHANGED <<reqOf, maker>>
  BY OutsideCalls
<1>4. Single(file)'
  BY <1>2, <1>3 DEF RetryInv, Single
<1>5. ASSUME NEW q \in Procs, InSection(q)'
      PROVE  /\ q # p /\ InSection(q) /\ rows'[q] = rows[q]
             /\ Single(rows[q])' /\ Seen(q)'
  <2>1. q # p /\ pc'[q] = pc[q] /\ rows'[q] = rows[q] /\ dirty'[q] = dirty[q]
    BY <1>1, <1>5 DEF Leaves, InSection
  <2>2. InSection(q)
    BY <1>5, <2>1 DEF InSection
  <2>3. Single(rows[q])'
    BY <1>3, <2>1, <2>2 DEF RetryInv, Single
  <2>4. Seen(q)'
    BY <1>2, <2>1, <2>2 DEF RetryInv, Seen
  <2> QED BY <2>1, <2>2, <2>3, <2>4
<1>6. ASSUME NEW g \in Gateways, Creating(g)'
      PROVE  /\ Free(file, g)'
             /\ \A q \in Procs : InSection(q)' => Free(rows[q], g)'
  <2>1. g \in Procs /\ g # p
    BY <1>3, <1>6, ConstantFacts
  <2>2. Creating(g) /\ req'[g] = req[g]
    BY <1>1, <1>3, <1>6, <2>1 DEF Creating, Leaves
  <2> QED BY <1>2, <1>3, <1>5, <2>2 DEF RetryInv, Free
<1> QED BY <1>4, <1>5, <1>6 DEF RetryInv

\* Reading, marking and saving what is stale makes nothing active.
LEMMA SectionRetry ==
    ASSUME TypeOK, UseInv, RetryInv, NEW p \in Procs, Acquire(p) \/ Scan(p) \/ EndScan(p)
    PROVE  RetryInv'
<1>1. UNCHANGED <<op, req, reqOf, maker>>
  BY DEF Acquire, Scan, EndScan, Goto, args, store, history, TypeOK, ControlOK
<1>2. CASE Acquire(p)
  <2>1. \A q \in Procs : ~InSection(q)
    BY <1>2, ProcsAssumption DEF Acquire, MayEnter, UseInv, LockInv
  <2>2. /\ \A q \in Procs \ {p} : pc'[q] = pc[q]
        /\ pc[p] = "waiting" /\ rows'[p] = file /\ file' = file
    BY <1>2 DEF Acquire, Goto, store, TypeOK, ControlOK, MemoryOK
  <2>3. \A q \in Procs : InSection(q)' => q = p
    BY <2>1, <2>2 DEF InSection
  <2>4. \A g \in Gateways : Creating(g)' => Creating(g)
    BY <1>1, <2>2, ConstantFacts DEF Creating
  <2> QED BY <1>1, <2>2, <2>3, <2>4 DEF RetryInv, Single, Free, Seen
<1>3. CASE Scan(p)
  <2>1. /\ pc[p] = "scanning" /\ UNCHANGED <<pc, file>>
        /\ \A q \in Procs \ {p} : rows'[q] = rows[q] /\ dirty'[q] = dirty[q]
        /\ (rows'[p] = rows[p] /\ dirty'[p] = dirty[p]) \/ dirty'[p]
    BY <1>3 DEF Scan, store, TypeOK, MemoryOK
  <2>2. \A q \in Procs, i \in Ids : rows'[q][i] \in Active => rows[q][i] \in Active
    BY <1>3 DEF Scan, With, Active, TypeOK, MemoryOK
  <2>3. \A q \in Procs : InSection(q)' <=> InSection(q)
    BY <2>1 DEF InSection
  <2>4. ASSUME NEW q \in Procs, InSection(q) PROVE Single(rows[q])' /\ Seen(q)'
    BY <1>1, <2>1, <2>2, <2>4 DEF RetryInv, Single, Seen
  <2>5. ASSUME NEW g \in Gateways, Creating(g)'
        PROVE  /\ Free(file, g)'
               /\ \A q \in Procs : InSection(q) => Free(rows[q], g)'
    <3>1. Creating(g)
      BY <1>1, <2>1, <2>5 DEF Creating
    <3> QED BY <1>1, <2>1, <2>2, <3>1 DEF RetryInv, Free
  <2>6. Single(file)'
    BY <1>1, <2>1 DEF RetryInv, Single
  <2> QED BY <2>3, <2>4, <2>5, <2>6 DEF RetryInv
<1>4. CASE EndScan(p)
  <2>1. /\ pc[p] = "scanning" /\ pc'[p] = "acting" /\ \A q \in Procs \ {p} : pc'[q] = pc[q]
        /\ UNCHANGED <<rows, dirty>> /\ file' = IF dirty[p] THEN rows[p] ELSE file
    BY <1>4 DEF EndScan, Goto, TypeOK, ControlOK, memory
  <2>2. InSection(p) /\ Single(rows[p]) /\ Seen(p)
    BY <2>1 DEF RetryInv, InSection
  <2>3. \A q \in Procs : InSection(q)' => q = p
    BY <2>1, <2>2, Alone DEF UseInv, InSection
  <2>4. Single(file)' /\ Single(rows[p])' /\ Seen(p)'
    BY <1>1, <2>1, <2>2 DEF RetryInv, Single, Seen
  <2>5. ASSUME NEW g \in Gateways, Creating(g)'
        PROVE  Free(file, g)' /\ Free(rows[p], g)'
    <3>1. Creating(g)
      BY <1>1, <2>1, <2>5, ConstantFacts DEF Creating
    <3> QED BY <1>1, <2>1, <2>2, <3>1 DEF RetryInv, Free
  <2> QED BY <2>3, <2>4, <2>5 DEF RetryInv
<1> QED BY <1>2, <1>3, <1>4

\* A section that makes no row active ends with the gateways as they were, or
\* with one that found no row.
LEMMA SavedRetry ==
    ASSUME TypeOK, UseInv, RetryInv, NEW p \in Procs, GatewayStep(p) \/ OperatorStep(p),
           UNCHANGED <<reqOf, maker>>,
           \/ \A i \in Ids : file'[i] \in Active => rows[p][i] \in Active
           \/ UNCHANGED file
    PROVE  RetryInv'
<1>1. pc[p] = "acting" /\ Leaves(p) /\ InSection(p)
  BY SectionLeaves DEF InSection
<1>2. \A q \in Procs : ~InSection(q)'
  BY <1>1, Alone DEF UseInv, InSection, Leaves
<1>3. \A i \in Ids : file'[i] \in Active => rows[p][i] \in Active
  BY <1>1 DEF RetryInv, Seen
<1>4. Single(file)'
  BY <1>1, <1>3 DEF RetryInv, Single
<1>5. ASSUME NEW g \in Gateways, Creating(g)' PROVE Free(file, g)'
  <2>1. CASE g = p
    BY <1>3, <1>5, <2>1, SectionCreates DEF Free, Matching
  <2>2. CASE g # p
    <3>1. Creating(g) /\ req'[g] = req[g]
      BY <1>1, <1>5, <2>2, SectionCreates, ConstantFacts DEF Creating, Leaves
    <3> QED BY <1>1, <1>3, <3>1 DEF RetryInv, Free
  <2> QED BY <2>1, <2>2
<1> QED BY <1>2, <1>4, <1>5 DEF RetryInv

\* A gateway creates its row when it has no other active one for the request.
LEMMA CreateRetry ==
    ASSUME TypeOK, UseInv, RetryInv, NEW g \in Gateways, Create(g)
    PROVE  RetryInv'
<1>1. /\ g \in Procs /\ Creating(g) /\ InSection(g) /\ Leaves(g) /\ ~Creating(g)'
      /\ \A q \in Procs \ {g} : op'[q] = op[q] /\ req'[q] = req[q]
  BY SectionLeaves, SectionCreates, ConstantFacts
  DEF GatewayStep, Create, Find, Acting, Creating, InSection
<1>2. \A q \in Procs : ~InSection(q)'
  BY <1>1, Alone DEF UseInv, InSection, Leaves
<1>3. CASE nextId \in Ids
  <2>1. /\ \A i \in Ids : file'[i] \in Active => rows[g][i] \in Active \/ i = nextId
        /\ \A i \in Ids : reqOf'[i] = IF i = nextId THEN req[g] ELSE reqOf[i]
        /\ \A i \in Ids : maker'[i] = IF i = nextId THEN g ELSE maker[i]
    BY <1>1, <1>3 DEF Create, With, TypeOK, StoreOK, MemoryOK, HistoryOK
  <2>2. Single(rows[g]) /\ Free(rows[g], g)
    BY <1>1 DEF RetryInv
  <2>3. Single(file)'
    BY <2>1, <2>2 DEF Single, Free
  <2>4. ASSUME NEW h \in Gateways, Creating(h)' PROVE Free(file, h)'
    <3>1. h # g /\ h \in Procs
      BY <1>1, <2>4, ConstantFacts
    <3>2. Creating(h) /\ req'[h] = req[h]
      BY <1>1, <2>4, <3>1 DEF Creating, Leaves
    <3>3. Free(rows[g], h)
      BY <1>1, <3>2 DEF RetryInv
    <3> QED BY <2>1, <3>1, <3>2, <3>3 DEF Free
  <2> QED BY <1>2, <2>3, <2>4 DEF RetryInv
<1>4. CASE nextId \notin Ids
  BY <1>1, <1>4, SavedRetry DEF Create, store, GatewayStep
<1> QED BY <1>3, <1>4

LEMMA GatewayRetry ==
    ASSUME TypeOK, UseInv, RetryInv, NEW g \in Gateways, GatewayStep(g)
    PROVE  RetryInv'
<1>0. g \in Procs
  BY ConstantFacts
<1>1. CASE Find(g)
  BY <1>0, <1>1, SavedRetry DEF Find, store, history
<1>2. CASE Consume(g)
  <2>1. \/ UNCHANGED file
        \/ \A i \in Ids : file'[i] \in Active => rows[g][i] \in Active
    BY <1>2 DEF Consume, Active
  <2> QED BY <1>0, <1>2, <2>1, SavedRetry DEF Consume
<1> QED BY <1>1, <1>2, CreateRetry DEF GatewayStep

LEMMA OperatorRetry ==
    ASSUME TypeOK, UseInv, RetryInv, NEW o \in Procs, OperatorStep(o)
    PROVE  RetryInv'
<1>1. /\ target[o] \in Ids /\ rows[o] \in [Ids -> Status]
      /\ UNCHANGED <<reqOf, maker>>
  BY DEF TypeOK, ArgsOK, MemoryOK, OperatorStep, List, Approve, Attempt, Apply, Deny, store,
         history
<1>2. ASSUME NEW status, NEW event, SaveAs(o, status, event),
             status \in Active => Pending(o)
      PROVE  \A i \in Ids : file'[i] \in Active => rows[o][i] \in Active
  BY <1>1, <1>2 DEF SaveAs, With, Pending, Active
<1>3. ASSUME UNCHANGED file \/ file' = rows[o] PROVE RetryInv'
  BY <1>1, <1>3, SavedRetry
<1>4. CASE List(o) \/ Attempt(o)
  BY <1>3, <1>4 DEF List, Attempt, store
<1>5. CASE Refuse(o) \/ AskPassphrase(o)
  BY <1>3, <1>5 DEF Refuse, AskPassphrase
<1>6. CASE Expire(o)
  BY <1>1, <1>2, <1>6, SavedRetry DEF Expire, Active
<1>7. CASE SaveAs(o, "APPROVED", "approval_approved") /\ Pending(o)
  BY <1>1, <1>2, <1>7, SavedRetry
<1>8. CASE Deny(o)
  BY <1>1, <1>2, <1>3, <1>8, SavedRetry DEF Deny, Active
<1> QED BY <1>4, <1>5, <1>6, <1>7, <1>8 DEF OperatorStep, Approve, Apply

LEMMA RetryInductive ==
    ASSUME TypeOK, UseInv, RetryInv, [Next]_vars
    PROVE  RetryInv'
<1>1. CASE Tick \/ UNCHANGED vars
  BY <1>1 DEF Tick, vars, store, args, memory, history, RetryInv, InSection, Single, Free,
              Seen, Creating
<1>2. CASE Next
  BY <1>1, <1>2, ConstantFacts, OutsideRetry, SectionRetry, GatewayRetry, OperatorRetry
  DEF Next, SharedStep
<1> QED BY <1>1, <1>2

\* The retry of an approved call is let through, for any processes, requests and
\* deaths and whatever resets cancel: find_matching hides an approved row only
\* behind a newer PENDING one that another gateway created for the same request
\* (pending_approvals.py:212 returns the newest).
THEOREM RetriesAreServed == Spec => RetryIsServed
<1>1. Init => RetryInv
  BY ConstantFacts
  DEF Init, Blank, Active, RetryInv, InSection, Single, Free, Seen, Creating
<1>2. TypeOK /\ UseInv /\ RetryInv /\ [Next]_vars => RetryInv'
  BY RetryInductive
<1>3. TypeOK /\ UseInv /\ RetryInv /\ [Next]_vars
      => [\A g \in Gateways :
            Find(g) /\ op'[g] # "consume"
            => \A i \in Approved(g) : \E j \in Ids : Hides(g, j, i)]_vars
  <2> SUFFICES ASSUME TypeOK, RetryInv, NEW g \in Gateways,
                      Find(g), op'[g] # "consume", NEW i \in Approved(g)
               PROVE  \E j \in Ids : Hides(g, j, i)
    OBVIOUS
  <2>1. g \in Procs /\ i \in Ids /\ rows[g][i] = "APPROVED" /\ reqOf[i] = req[g]
    BY ConstantFacts DEF Approved
  <2>2. Single(rows[g]) /\ i \in Matching(g)
    BY <2>1 DEF RetryInv, InSection, Find, Acting, Matching, Active
  <2>3. ~ThenWait(g, "consume")
    BY <2>1 DEF ThenWait, Goto, TypeOK, ControlOK
  <2>4. NewestIs(g, "PENDING")
    BY <2>2, <2>3 DEF Find
  <2>5. PICK j \in Matching(g) : rows[g][j] = "PENDING" /\ i <= j
    BY <2>2, <2>4 DEF NewestIs
  <2>6. j \in Ids /\ reqOf[j] = req[g] /\ rows[g][j] \in Active
    BY DEF Matching
  <2>7. i < j
    BY <2>1, <2>5, <2>6, ConstantFacts DEF Ids
  <2>8. maker[j] # maker[i]
    BY <2>1, <2>2, <2>6, <2>7, ConstantFacts DEF Single, Matching, Ids
  <2> QED BY <2>5, <2>6, <2>7, <2>8 DEF Hides
<1> QED BY <1>1, <1>2, <1>3, TypeCorrect, UseCorrect, PTL DEF Spec, RetryIsServed
=============================================================================
