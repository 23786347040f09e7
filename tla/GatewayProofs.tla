--------------------------- MODULE GatewayProofs ----------------------------
(***************************************************************************)
(* Theorems about the gateway, for any callers, calls, setups, rows, policy *)
(* and token, with failures anywhere: a call from outside is gated; every  *)
(* execution and every recorded ALLOW rests on a use of its own; and the   *)
(* approvals are used only as their store promises.                        *)
(***************************************************************************)
EXTENDS Gateway, FiniteSetTheorems, TLAPS

(***************************************************************************)
(* What the trust reconciliation and the classification rules guarantee,   *)
(* for every request and every policy file.                                *)
(***************************************************************************)

LEMMA RankType ==
    /\ \A t \in TrustLevels : TrustRank[t] \in 0..3
    /\ \A k \in Classes : ClassRank[k] \in 0..3
BY DEF TrustRank, TrustLevels, ClassRank, Classes

\* What is evidence is a trust level.
LEMMA EvidenceType ==
    ASSUME NEW source \in Sources, NEW origin \in OriginTypes
    PROVE  Evidence(source, origin) \subseteq TrustLevels
BY DEF Evidence, TrustOf, TrustLevels, OriginTypes, ExternalOrigins

\* The least of some evidence is one of its levels, and below the others.
LEMMA LeastIsLeast ==
    ASSUME NEW evidence \in SUBSET TrustLevels, evidence # {}
    PROVE  /\ Least(evidence) \in evidence
           /\ \A level \in evidence : TrustRank[Least(evidence)] <= TrustRank[level]
<1>1. \E level \in evidence : \A other \in evidence : TrustRank[level] <= TrustRank[other]
  <2>1. CASE "UNKNOWN" \in evidence
    BY <2>1 DEF TrustRank, TrustLevels
  <2>2. CASE "UNKNOWN" \notin evidence /\ "EXTERNAL_CONTENT" \in evidence
    BY <2>2 DEF TrustRank, TrustLevels
  <2>3. CASE /\ "UNKNOWN" \notin evidence /\ "EXTERNAL_CONTENT" \notin evidence
             /\ "AGENT_INTERNAL" \in evidence
    BY <2>3 DEF TrustRank, TrustLevels
  <2>4. CASE /\ "UNKNOWN" \notin evidence /\ "EXTERNAL_CONTENT" \notin evidence
             /\ "AGENT_INTERNAL" \notin evidence
    <3>1. evidence = {"USER_DIRECT"}
      BY <2>4 DEF TrustLevels
    <3> QED BY <3>1 DEF TrustRank
  <2> QED BY <2>1, <2>2, <2>3, <2>4
<1> QED BY <1>1 DEF Least

LEMMA ReconcileType ==
    ASSUME NEW q \in Request
    PROVE  Reconcile(q) \in Request
<1> DEFINE evidence == Evidence(q.source, q.origin)
<1>1. q.source \in Sources /\ q.origin \in OriginTypes /\ q.trust \in TrustLevels
  BY DEF Request
<1>2. evidence \in SUBSET TrustLevels
  BY <1>1, EvidenceType
<1>3. CASE Excessive(q.trust, evidence)
  <2>1. evidence # {}
    BY <1>3 DEF Excessive
  <2>2. Least(evidence) \in TrustLevels
    BY <1>2, <2>1, LeastIsLeast
  <2>3. q.hints \cup {"inconsistent"} \in SUBSET Hints
    BY DEF Request, Hints
  <2> QED BY <1>3, <2>2, <2>3 DEF Reconcile, Request
<1>4. CASE ~Excessive(q.trust, evidence)
  BY <1>4 DEF Reconcile
<1> QED BY <1>3, <1>4

\* A reconciled request is trusted no more than any of its evidence allows,
\* whatever it claimed (models.py:227).
THEOREM TrustIsCapped ==
    ASSUME NEW q \in Request
    PROVE  \A level \in Evidence(q.source, q.origin) :
               TrustRank[Reconcile(q).trust] <= TrustRank[level]
<1> DEFINE evidence == Evidence(q.source, q.origin)
<1>1. q.source \in Sources /\ q.origin \in OriginTypes /\ q.trust \in TrustLevels
  BY DEF Request
<1>2. evidence \in SUBSET TrustLevels
  BY <1>1, EvidenceType
<1>3. CASE Excessive(q.trust, evidence)
  <2>1. evidence # {}
    BY <1>3 DEF Excessive
  <2>2. Reconcile(q).trust = Least(evidence)
    BY <1>3 DEF Reconcile, Request
  <2> QED BY <1>2, <2>1, <2>2, LeastIsLeast
<1>4. CASE ~Excessive(q.trust, evidence)
  <2>1. Reconcile(q) = q
    BY <1>4 DEF Reconcile
  <2> QED BY <1>1, <1>2, <1>4, <2>1, RankType DEF Excessive
<1> QED BY <1>3, <1>4

\* Reconciling again changes nothing: a request whose trust was reconciled
\* keeps its fingerprint when a saved approval is read back (models.py:144).
THEOREM ReconcileIsStable ==
    ASSUME NEW q \in Request
    PROVE  Reconcile(Reconcile(q)) = Reconcile(q)
<1> DEFINE r == Reconcile(q)
<1>1. r \in Request
  BY ReconcileType
<1>2. r.source = q.source /\ r.origin = q.origin
  BY DEF Reconcile, Request
<1>3. q.source \in Sources /\ q.origin \in OriginTypes /\ r.trust \in TrustLevels
  BY <1>1 DEF Request
<1>4. ~Excessive(r.trust, Evidence(r.source, r.origin))
  <2>1. \A level \in Evidence(q.source, q.origin) : TrustRank[r.trust] <= TrustRank[level]
    BY TrustIsCapped
  <2>2. Evidence(q.source, q.origin) \subseteq TrustLevels
    BY <1>3, EvidenceType
  <2> QED BY <1>2, <1>3, <2>1, <2>2, RankType DEF Excessive
<1> HIDE DEF r
<1>5. Reconcile(r) = r
  BY <1>4 DEF Reconcile
<1> QED BY <1>5 DEF r

LEMMA AtLeastIsAbove ==
    ASSUME NEW class \in Classes, NEW base \in Classes
    PROVE  /\ AtLeast(class, base) \in Classes
           /\ ClassRank[class] <= ClassRank[AtLeast(class, base)]
           /\ ClassRank[base] <= ClassRank[AtLeast(class, base)]
BY RankType DEF AtLeast

\* No rule lowers the class the policy file gives to an action; the runtime
\* context is the one exception (classifier.py:97, issue #103).
THEOREM PolicyIsAFloor ==
    ASSUME NEW q \in Request, q.action # "get_runtime_context"
    PROVE  /\ Classify(q) \in Classes
           /\ ClassRank[Policy[q.action]] <= ClassRank[Classify(q)]
<1>1. Policy[q.action] \in Classes
  BY PolicyAssumption DEF Request
<1>2. {"SAFE", "SENSITIVE", "CRITICAL", "BLOCKED"} = Classes
  BY DEF Classes
<1>3. \A k \in Classes : ClassRank[k] <= ClassRank["BLOCKED"]
  BY DEF Classes, ClassRank
<1>4. CASE Blocked(q) \/ ForbiddenWrite(q)
  BY <1>1, <1>2, <1>3, <1>4 DEF Classify
<1>5. CASE ~(Blocked(q) \/ ForbiddenWrite(q)) /\ (CriticalWrite(q) \/ ProtectedWrite(q))
  <2>1. Classify(q) = AtLeast("CRITICAL", Policy[q.action])
    BY <1>5 DEF Classify
  <2> QED BY <1>1, <1>2, <2>1, AtLeastIsAbove
<1>6. CASE ~(Blocked(q) \/ ForbiddenWrite(q)) /\ ~(CriticalWrite(q) \/ ProtectedWrite(q))
  <2>1. Classify(q) = Provenance(q, Policy[q.action])
    BY <1>6 DEF Classify
  <2>2. \/ Provenance(q, Policy[q.action]) = AtLeast("SENSITIVE", Policy[q.action])
        \/ Provenance(q, Policy[q.action]) = AtLeast("CRITICAL", Policy[q.action])
        \/ Provenance(q, Policy[q.action]) = Policy[q.action]
    BY DEF Provenance
  <2> QED BY <1>1, <1>2, <2>1, <2>2, AtLeastIsAbove, RankType
<1> QED BY <1>4, <1>5, <1>6

\* What is known, or cannot be known not, to come from outside is never SAFE.
THEOREM UntrustedIsNeverSafe ==
    ASSUME NEW q \in Request, q.action # "get_runtime_context",
           \/ q.origin = "EXTERNAL_CONTENT"
           \/ q.trust \in {"EXTERNAL_CONTENT", "UNKNOWN"}
    PROVE  Classify(q) # "SAFE"
<1>1. Policy[q.action] \in Classes
  BY PolicyAssumption DEF Request
<1>2. \A k \in Classes : AtLeast("SENSITIVE", k) # "SAFE" /\ AtLeast("CRITICAL", k) # "SAFE"
  BY DEF AtLeast, Classes, ClassRank
<1>3. Provenance(q, Policy[q.action]) = AtLeast("SENSITIVE", Policy[q.action])
  BY DEF Provenance
<1> QED BY <1>1, <1>2, <1>3 DEF Classify

-----------------------------------------------------------------------------
(***************************************************************************)
(* The gateway.                                                            *)
(***************************************************************************)

LEMMA CaseType == ACase \in Cases /\ Cases \subseteq [input : ToolCall, setup : SetupType]
BY CasesAssumption DEF ACase

LEMMA WithType ==
    ASSUME NEW call_ \in ToolCall, NEW origin \in OriginTypes,
           NEW trust \in TrustLevels, NEW hints \in SUBSET Hints
    PROVE  With(call_, origin, trust, hints) \in Request
BY DEF With, ToolCall, Request

LEMMA TrustOfType == \A origin : TrustOf(origin) \in TrustLevels
BY DEF TrustOf, TrustLevels, ExternalOrigins

LEMMA FromDictType ==
    ASSUME NEW k \in ToolCall
    PROVE  FromDict(k) \in Request
<1> DEFINE origin == IF k.origin = "absent" THEN "UNKNOWN" ELSE k.origin
<1>1. origin \in OriginTypes /\ k.hints \in SUBSET Hints
  BY DEF ToolCall, OriginTypes
<1>2. CASE k.trust = "absent"
  BY <1>1, <1>2, WithType, TrustOfType DEF FromDict
<1>3. CASE k.trust # "absent"
  <2>1. k.trust \in TrustLevels
    BY <1>3 DEF ToolCall
  <2>2. With(k, origin, k.trust, k.hints) \in Request
    BY <1>1, <2>1, WithType
  <2> QED BY <1>3, <2>2, ReconcileType DEF FromDict
<1> QED BY <1>2, <1>3

LEMMA RecognisedType ==
    ASSUME NEW k \in ToolCall
    PROVE  Recognised(k) \in ToolCall
BY PolicyAssumption DEF Recognised, ToolCall

LEMMA NormalizeType ==
    ASSUME NEW k \in ToolCall
    PROVE  Normalize(k) \in Request
<1> DEFINE origin == IF k.origin = "absent" THEN InferredOrigin(k.source) ELSE k.origin
           trust == IF k.trust = "absent" THEN InferredTrust(k.source, origin) ELSE k.trust
           hints == IF k.action \in DOMAIN BuilderHints THEN BuilderHints[k.action] ELSE k.hints
<1>1. origin \in OriginTypes
  BY DEF ToolCall, OriginTypes, InferredOrigin
<1>2. trust \in TrustLevels
  <2>1. InferredTrust(k.source, origin) \in TrustLevels
    BY TrustOfType DEF InferredTrust, TrustLevels
  <2> QED BY <2>1 DEF ToolCall
<1>3. hints \in SUBSET Hints
  <2>1. \A a \in DOMAIN BuilderHints : BuilderHints[a] \in SUBSET Hints
    BY DEF BuilderHints, Hints
  <2> QED BY <2>1 DEF ToolCall
<1> HIDE DEF origin, trust, hints
<1>4. With(Recognised(k), origin, trust, hints) \in Request
  BY <1>1, <1>2, <1>3, WithType, RecognisedType
<1>5. Normalize(k) = Reconcile(With(Recognised(k), origin, trust, hints))
  BY DEF Normalize, Builders, origin, trust, hints
<1> QED BY <1>4, <1>5, ReconcileType

LEMMA RequestType ==
    ASSUME CallOK, NEW c \in Calls
    PROVE  RequestOf(c) \in Request
<1>1. case[c].input \in ToolCall
  BY CaseType DEF CallOK
<1> QED BY <1>1, FromDictType, NormalizeType DEF RequestOf

LEMMA ClassifyType ==
    ASSUME NEW q \in Request
    PROVE  Classify(q) \in Classes
<1>1. CASE q.action = "get_runtime_context"
  BY <1>1 DEF Classify, Classes
<1> QED BY <1>1, PolicyIsAFloor

LEMMA RequiredType ==
    ASSUME CallOK, NEW c \in Calls
    PROVE  Required(c) \in Decisions
BY RequestType, ClassifyType DEF Required, DecisionFor, Classes, Decisions, Held

LEMMA ConstantFacts ==
    /\ <<"policy", 0>> \in Bases /\ <<"prompt", 0>> \in Bases
    /\ <<"token", 0>> \in Bases
    /\ \A i \in Rows : <<"row", i>> \in Bases
    /\ Spendable \subseteq Bases
    /\ {"idle", "evaluating", "authorizing", "matching", "consuming",
        "prompting", "recording", "running", "waiting"} = Phases
    /\ {"REQUIRE_APPROVAL", "REQUIRE_STRONG_APPROVAL", "ALLOW", "DENY"} = Decisions
    /\ {"ABSENT", "PENDING", "APPROVED", "DENIED", "USED", "EXPIRED"} = Status
    /\ MaxUses \in Nat /\ MaxRow \in Nat \ {0}
BY BoundAssumption, TokenAssumption
DEF Bases, Spendable, Phases, Decisions, Held, Status

LEMMA SettleType ==
    ASSUME CallOK, NEW c \in Calls, NEW result \in Decisions, NEW base \in Bases,
           NEW row \in Rows \cup {0}, Settle(c, result, base, row)
    PROVE  CallOK'
BY ConstantFacts DEF CallOK, Settle, Goto

LEMMA DenyType ==
    ASSUME CallOK, NEW c \in Calls, NEW row \in Rows \cup {0}, Deny(c, row)
    PROVE  CallOK'
BY ConstantFacts, SettleType DEF Deny

LEMMA MoveType ==
    ASSUME CallOK, NEW c \in Calls, NEW phase \in Phases, Goto(c, phase), Stay
    PROVE  CallOK'
BY DEF CallOK, Goto, Stay

LEMMA ReturnType ==
    ASSUME CallOK, NEW c \in Calls, Return(c)
    PROVE  CallOK'
BY ConstantFacts, CaseType DEF CallOK, Return, Goto

LEMMA Increment ==
    ASSUME NEW S, NEW f \in [S -> Nat], NEW x \in S
    PROVE  [f EXCEPT ![x] = @ + 1] \in [S -> Nat]
<1>1. f[x] + 1 \in Nat
  OBVIOUS
<1> QED BY <1>1

LEMMA TypeInductive == TypeOK /\ [Next]_vars => TypeOK'
<1> SUFFICES ASSUME TypeOK, [Next]_vars PROVE TypeOK'
  OBVIOUS
<1> USE ConstantFacts DEF TypeOK
<1>1. ASSUME NEW c \in Calls, NEW k \in Cases, Arrive(c, k)
      PROVE  TypeOK'
  BY <1>1 DEF Arrive, Goto, approvals, token, history, CallOK, RowsOK, TokenOK, HistoryOK
<1>2. ASSUME NEW c \in Calls, Evaluate(c)
      PROVE  TypeOK'
  <2>1. CallOK'
    BY <1>2, RequiredType, SettleType, DenyType, MoveType DEF Evaluate
  <2> QED BY <1>2, <2>1
      DEF Evaluate, approvals, token, history, RowsOK, TokenOK, HistoryOK
<1>3. ASSUME NEW c \in Calls, Authorize(c)
      PROVE  TypeOK'
  <2>1. CallOK'
    BY <1>3, SettleType, DenyType, MoveType DEF Authorize
  <2>2. TokenOK'
    BY <1>3 DEF Authorize, TokenOK, TokenUsable
  <2> QED BY <1>3, <2>1, <2>2 DEF Authorize, approvals, history, RowsOK, HistoryOK
<1>4. ASSUME NEW c \in Calls, Match(c)
      PROVE  TypeOK'
  <2>1. CallOK'
    <3>1. ASSUME NEW i \in Rows, Settle(c, needed[i], <<"policy", 0>>, i)
          PROVE  CallOK'
      BY <3>1, SettleType DEF RowsOK
    <3>2. ASSUME NEW i \in Rows, Goto(c, "consuming"),
                 ticket' = [ticket EXCEPT ![c] = i],
                 UNCHANGED <<case, decision, via, again, late>>
          PROVE  CallOK'
      BY <3>2 DEF CallOK, Goto
    <3>3. Deny(c, 0) \/ (Goto(c, "prompting") /\ Stay) => CallOK'
      BY DenyType, MoveType
    <3> QED BY <1>4, <3>1, <3>2, <3>3 DEF Match
  <2> QED BY <1>4, <2>1 DEF Match, approvals, token, history, RowsOK, TokenOK, HistoryOK
<1>5. ASSUME NEW c \in Calls, Consume(c)
      PROVE  TypeOK'
  <2>1. CallOK'
    <3>1. ticket[c] \in Rows \cup {0}
      BY DEF CallOK
    <3> QED BY <1>5, <3>1, SettleType, DenyType DEF Consume
  <2>2. RowsOK'
    BY <1>5 DEF Consume, RowsOK
  <2>3. HistoryOK'
    <3>1. granted' \in [Rows -> Nat]
      <4>1. granted \in [Rows -> Nat]
        BY DEF HistoryOK
      <4>2. \/ \E i \in Rows : granted' = [granted EXCEPT ![i] = @ + 1]
            \/ granted' = granted
        BY <1>5 DEF Consume
      <4>3. CASE granted' = granted
        BY <4>1, <4>3
      <4>4. ASSUME NEW i \in Rows, granted' = [granted EXCEPT ![i] = @ + 1]
            PROVE  granted' \in [Rows -> Nat]
        BY <4>1, <4>4, Increment
      <4> QED BY <4>2, <4>3, <4>4
    <3>2. allowed' = allowed /\ ran' = ran
      BY <1>5 DEF Consume, history
    <3> QED BY <3>1, <3>2 DEF HistoryOK
  <2> QED BY <1>5, <2>1, <2>2, <2>3 DEF Consume, token, TokenOK
<1>6. ASSUME NEW c \in Calls, HoldBack(c)
      PROVE  TypeOK'
  <2>1. Required(c) \in Decisions /\ RequestOf(c) \in Request
    BY RequiredType, RequestType
  <2>2. CallOK'
    BY <1>6, <2>1, SettleType, ReturnType DEF HoldBack
  <2>3. RowsOK'
    <3>1. CASE nextRow \in Rows
      <4>1. nextRow + 1 \in 1..(MaxRow + 1)
        BY <3>1 DEF Rows
      <4> QED BY <1>6, <2>1, <4>1 DEF HoldBack, RowsOK
    <3>2. CASE nextRow \notin Rows
      BY <1>6, <3>2 DEF HoldBack, RowsOK
    <3> QED BY <3>1, <3>2
  <2> QED BY <1>6, <2>2, <2>3 DEF HoldBack, token, history, TokenOK, HistoryOK
<1>7. ASSUME NEW c \in Calls, Answer(c)
      PROVE  TypeOK'
  <2>1. CallOK'
    BY <1>7, SettleType, DenyType DEF Answer
  <2> QED BY <1>7, <2>1 DEF Answer, approvals, token, history, RowsOK, TokenOK, HistoryOK
<1>8. ASSUME NEW c \in Calls, Record(c)
      PROVE  TypeOK'
  <2>1. CallOK'
    BY <1>8, MoveType, ReturnType DEF Record
  <2>2. HistoryOK'
    BY <1>8 DEF Record, HistoryOK, approvals
  <2> QED BY <1>8, <2>1, <2>2 DEF Record, approvals, token, RowsOK, TokenOK
<1>9. ASSUME NEW c \in Calls, Run(c)
      PROVE  TypeOK'
  <2>1. CallOK'
    BY <1>9, ReturnType DEF Run
  <2>2. HistoryOK'
    BY <1>9 DEF Run, HistoryOK, approvals
  <2> QED BY <1>9, <2>1, <2>2 DEF Run, approvals, token, RowsOK, TokenOK
<1>10. ASSUME NEW c \in Calls, Poll(c)
       PROVE  TypeOK'
  <2>1. CallOK'
    <3>1. CASE Return(c)
      BY <3>1, ReturnType
    <3>2. CASE ~Return(c)
      BY <1>10, <3>2 DEF Poll, CallOK, Goto
    <3> QED BY <3>1, <3>2
  <2> QED BY <1>10, <2>1 DEF Poll, approvals, token, history, RowsOK, TokenOK, HistoryOK
<1>11. ASSUME NEW c \in Calls, WindowEnds(c)
       PROVE  TypeOK'
  BY <1>11 DEF WindowEnds, approvals, token, history, CallOK, RowsOK, TokenOK, HistoryOK
<1>12. ASSUME NEW c \in Calls, Fail(c)
       PROVE  TypeOK'
  <2>1. CallOK'
    BY <1>12, ReturnType DEF Fail
  <2> QED BY <1>12, <2>1 DEF Fail, approvals, token, history, RowsOK, TokenOK, HistoryOK
<1>13. ASSUME NEW i \in Rows, Approve(i) \/ Refuse(i) \/ Expire(i)
       PROVE  TypeOK'
  BY <1>13 DEF Approve, Refuse, Expire, SetStatus, call, token, history,
               CallOK, RowsOK, TokenOK, HistoryOK
<1>14. ASSUME Revoke
       PROVE  TypeOK'
  BY <1>14 DEF Revoke, call, approvals, history, CallOK, RowsOK, TokenOK, HistoryOK
<1>15. CASE UNCHANGED vars
  BY <1>15 DEF vars, call, approvals, token, history, CallOK, RowsOK, TokenOK, HistoryOK
<1> QED BY <1>1, <1>2, <1>3, <1>4, <1>5, <1>6, <1>7, <1>8, <1>9, <1>10, <1>11,
           <1>12, <1>13, <1>14, <1>15 DEF Next, Step

LEMMA TypeInitially == Init => TypeOK
<1> SUFFICES ASSUME Init PROVE TypeOK
  OBVIOUS
<1>1. NoRequest \in Request
  BY CaseType, FromDictType DEF NoRequest
<1>2. CallOK
  BY ConstantFacts, CaseType DEF Init, CallOK
<1>3. RowsOK
  BY <1>1, ConstantFacts DEF Init, RowsOK
<1>4. TokenOK
  <2>1. uses \in 0..MaxUses
    BY ConstantFacts DEF Init
  <2>2. revoked \in BOOLEAN
    BY DEF Init
  <2> QED BY <2>1, <2>2 DEF TokenOK
<1>5. HistoryOK
  BY DEF Init, HistoryOK
<1> QED BY <1>2, <1>3, <1>4, <1>5 DEF TypeOK

\* Type correctness of the gateway, its callers and the stores behind it; in
\* particular no token is used beyond max_uses.
THEOREM TypeCorrect == Spec => []TypeOK
BY TypeInitially, TypeInductive, PTL DEF Spec

-----------------------------------------------------------------------------
\* OutsideIsGated says nothing of a call on its way to a decision.  GateInv
\* adds what the earlier steps have established: a call goes to the stores only
\* when an approval is required, and to the prompt, if it is external, only
\* past the delegations; a saved row was held.

Undecided(c) == pc[c] \in {"authorizing", "matching", "prompting"}

PathOf(c) ==
    /\ Undecided(c) => Required(c) \in Held
    /\ pc[c] = "authorizing" => case[c].setup.delegations
    /\ pc[c] = "prompting" /\ External(RequestOf(c)) => case[c].setup.delegations

AllowOf(c) ==
    Deciding(c) /\ decision[c] = "ALLOW"
    => /\ via[c] = <<"policy", 0>> => Required(c) = "ALLOW"
       /\ via[c] = <<"prompt", 0>> /\ External(RequestOf(c))
              => case[c].setup.delegations

PathInv == \A c \in Calls : PathOf(c)
AllowInv == \A c \in Calls : AllowOf(c)
RowInv == \A i \in Rows : status[i] # "ABSENT" => needed[i] \in Held

GateInv == PathInv /\ RowInv /\ AllowInv

\* A step of one call leaves the others as they are.
OnlyMoves(c) ==
    \A d \in Calls \ {c} : /\ pc'[d] = pc[d] /\ case'[d] = case[d]
                           /\ decision'[d] = decision[d] /\ via'[d] = via[d]

LEMMA OthersKeep ==
    ASSUME TypeOK, GateInv, NEW c \in Calls, OnlyMoves(c), PathOf(c)', AllowOf(c)'
    PROVE  PathInv' /\ AllowInv'
<1> SUFFICES ASSUME NEW d \in Calls PROVE PathOf(d)' /\ AllowOf(d)'
  BY DEF PathInv, AllowInv
<1>1. CASE d = c
  BY <1>1
<1>2. CASE d # c
  BY <1>2 DEF OnlyMoves, GateInv, PathInv, AllowInv, PathOf, AllowOf, Undecided,
              Deciding, Required, RequestOf
<1> QED BY <1>1, <1>2

LEMMA SettleMoves ==
    ASSUME TypeOK, NEW c \in Calls, NEW result, NEW base, NEW row,
           Settle(c, result, base, row)
    PROVE  /\ OnlyMoves(c)
           /\ pc'[c] = "recording" /\ case'[c] = case[c]
           /\ decision'[c] = result /\ via'[c] = base
BY DEF Settle, Goto, OnlyMoves, TypeOK, CallOK

LEMMA ReturnMoves ==
    ASSUME TypeOK, NEW c \in Calls, Return(c)
    PROVE  OnlyMoves(c) /\ pc'[c] = "idle"
BY DEF Return, Goto, OnlyMoves, TypeOK, CallOK

LEMMA StayMoves ==
    ASSUME TypeOK, NEW c \in Calls, NEW phase, Goto(c, phase), Stay
    PROVE  /\ OnlyMoves(c)
           /\ pc'[c] = phase /\ case'[c] = case[c]
           /\ decision'[c] = decision[c] /\ via'[c] = via[c]
BY DEF Stay, Goto, OnlyMoves, TypeOK, CallOK

\* A result that does not allow, or that rests on a store, needs nothing.
LEMMA HarmlessSettle ==
    ASSUME TypeOK, GateInv, NEW c \in Calls, NEW result, NEW base, NEW row,
           Settle(c, result, base, row),
           result # "ALLOW" \/ base[1] \notin {"policy", "prompt"}
    PROVE  PathInv' /\ AllowInv'
<1>1. PathOf(c)'
  BY SettleMoves DEF PathOf, Undecided
<1>2. AllowOf(c)'
  BY SettleMoves DEF AllowOf
<1> QED BY <1>1, <1>2, SettleMoves, OthersKeep

LEMMA HarmlessReturn ==
    ASSUME TypeOK, GateInv, NEW c \in Calls, Return(c)
    PROVE  PathInv' /\ AllowInv'
<1>1. PathOf(c)' /\ AllowOf(c)'
  BY ReturnMoves DEF PathOf, AllowOf, Undecided, Deciding
<1> QED BY <1>1, ReturnMoves, OthersKeep

LEMMA HarmlessDeny ==
    ASSUME TypeOK, GateInv, NEW c \in Calls, NEW row, Deny(c, row)
    PROVE  PathInv' /\ AllowInv'
BY HarmlessSettle DEF Deny

LEMMA GateInitially == Init => GateInv
BY DEF Init, GateInv, PathInv, RowInv, AllowInv, PathOf, AllowOf, Undecided, Deciding

LEMMA HeldIsNotAllow == "ALLOW" \notin Held
BY DEF Held

LEMMA GateInductive == TypeOK /\ GateInv /\ [Next]_vars => GateInv'
<1> SUFFICES ASSUME TypeOK, GateInv, [Next]_vars PROVE GateInv'
  OBVIOUS
<1>a. CallOK /\ PathInv /\ RowInv /\ AllowInv
  BY DEF TypeOK, GateInv
<1>b. ASSUME UNCHANGED <<status, needed>> PROVE RowInv'
  BY <1>a, <1>b DEF RowInv
<1>1. ASSUME NEW c \in Calls, NEW k \in Cases, Arrive(c, k)
      PROVE  GateInv'
  <2>1. OnlyMoves(c) /\ pc'[c] = "evaluating"
    BY <1>1 DEF Arrive, Goto, OnlyMoves, TypeOK, CallOK
  <2>2. PathOf(c)' /\ AllowOf(c)'
    BY <2>1 DEF PathOf, AllowOf, Undecided, Deciding
  <2>3. RowInv'
    BY <1>1, <1>b DEF Arrive, approvals
  <2> QED BY <2>1, <2>2, <2>3, OthersKeep DEF GateInv
<1>2. ASSUME NEW c \in Calls, Evaluate(c)
      PROVE  GateInv'
  <2>1. RowInv'
    BY <1>2, <1>b DEF Evaluate, approvals
  <2>2. CASE Settle(c, Required(c), <<"policy", 0>>, 0)
    <3>1. PathOf(c)'
      BY <2>2, SettleMoves DEF PathOf, Undecided
    <3>2. Required(c)' = Required(c)
      BY <2>2, SettleMoves DEF Required, RequestOf
    <3>3. AllowOf(c)'
      BY <2>2, <3>2, SettleMoves DEF AllowOf
    <3> QED BY <2>1, <2>2, <3>1, <3>3, SettleMoves, OthersKeep DEF GateInv
  <2>3. CASE Deny(c, 0)
    BY <2>1, <2>3, HarmlessDeny DEF GateInv
  <2>4. ASSUME NEW phase \in {"authorizing", "matching", "prompting"},
               Goto(c, phase), Stay, Required(c) \in Held,
               phase = "authorizing" => case[c].setup.delegations,
               phase = "prompting" => ~External(RequestOf(c))
        PROVE  GateInv'
    <3>1. Required(c)' = Required(c) /\ RequestOf(c)' = RequestOf(c)
      BY <2>4, StayMoves DEF Required, RequestOf
    <3>2. PathOf(c)'
      BY <2>4, <3>1, StayMoves DEF PathOf
    <3>3. AllowOf(c)'
      BY <2>4, StayMoves DEF AllowOf, Deciding
    <3> QED BY <2>1, <2>4, <3>2, <3>3, StayMoves, OthersKeep DEF GateInv
  <2> QED BY <1>2, <2>2, <2>3, <2>4 DEF Evaluate
<1>3. ASSUME NEW c \in Calls, Authorize(c)
      PROVE  GateInv'
  <2>1. RowInv'
    BY <1>3, <1>b DEF Authorize, approvals
  <2>2. CASE Settle(c, "ALLOW", <<"token", 0>>, 0)
    BY <2>1, <2>2, HarmlessSettle DEF GateInv
  <2>3. CASE Deny(c, 0)
    BY <2>1, <2>3, HarmlessDeny DEF GateInv
  <2>4. ASSUME NEW phase \in {"matching", "prompting"}, Goto(c, phase), Stay
        PROVE  GateInv'
    <3>1. Required(c) \in Held /\ case[c].setup.delegations
      BY <1>3, <1>a DEF Authorize, PathInv, PathOf, Undecided
    <3>2. Required(c)' = Required(c)
      BY <2>4, StayMoves DEF Required, RequestOf
    <3>3. PathOf(c)'
      BY <2>4, <3>1, <3>2, StayMoves DEF PathOf
    <3>4. AllowOf(c)'
      BY <2>4, StayMoves DEF AllowOf, Deciding
    <3> QED BY <2>1, <2>4, <3>3, <3>4, StayMoves, OthersKeep DEF GateInv
  <2> QED BY <1>3, <2>2, <2>3, <2>4 DEF Authorize
<1>4. ASSUME NEW c \in Calls, Match(c)
      PROVE  GateInv'
  <2>1. RowInv'
    BY <1>4, <1>b DEF Match, approvals
  <2>2. ASSUME NEW i \in Rows, status[i] = "PENDING",
               Settle(c, needed[i], <<"policy", 0>>, i)
        PROVE  GateInv'
    <3>1. needed[i] # "ALLOW"
      BY <1>a, <2>2, HeldIsNotAllow DEF RowInv
    <3> QED BY <2>1, <2>2, <3>1, HarmlessSettle DEF GateInv
  <2>3. ASSUME Goto(c, "consuming"), UNCHANGED <<case, decision, via>>
        PROVE  GateInv'
    <3>1. OnlyMoves(c) /\ pc'[c] = "consuming"
      BY <2>3 DEF Goto, OnlyMoves, TypeOK, CallOK
    <3>2. PathOf(c)' /\ AllowOf(c)'
      BY <3>1 DEF PathOf, AllowOf, Undecided, Deciding
    <3> QED BY <2>1, <3>1, <3>2, OthersKeep DEF GateInv
  <2>4. CASE Deny(c, 0)
    BY <2>1, <2>4, HarmlessDeny DEF GateInv
  <2>5. ASSUME Goto(c, "prompting"), Stay,
               External(RequestOf(c)) => case[c].setup.delegations
        PROVE  GateInv'
    <3>1. Required(c) \in Held
      BY <1>4, <1>a DEF Match, PathInv, PathOf, Undecided
    <3>2. Required(c)' = Required(c) /\ RequestOf(c)' = RequestOf(c)
      BY <2>5, StayMoves DEF Required, RequestOf
    <3>3. PathOf(c)'
      BY <2>5, <3>1, <3>2, StayMoves DEF PathOf
    <3>4. AllowOf(c)'
      BY <2>5, StayMoves DEF AllowOf, Deciding
    <3> QED BY <2>1, <2>5, <3>3, <3>4, StayMoves, OthersKeep DEF GateInv
  <2> QED BY <1>4, <2>2, <2>3, <2>4, <2>5 DEF Match
<1>5. ASSUME NEW c \in Calls, Consume(c)
      PROVE  GateInv'
  <2>1. ASSUME NEW i \in Rows, Oldest(i, Consumable(c)),
               status' = [status EXCEPT ![i] = "USED"], needed' = needed,
               Settle(c, "ALLOW", <<"row", i>>, i)
        PROVE  GateInv'
    <3>1. status[i] = "APPROVED"
      BY <2>1 DEF Oldest, Consumable
    <3>2. RowInv'
      BY <1>a, <2>1, <3>1 DEF RowInv, TypeOK, RowsOK
    <3> QED BY <2>1, <3>2, HarmlessSettle DEF GateInv
  <2>2. ASSUME Deny(c, ticket[c]), UNCHANGED <<status, needed>>
        PROVE  GateInv'
    BY <1>b, <2>2, HarmlessDeny DEF GateInv
  <2> QED BY <1>5, <2>1, <2>2 DEF Consume
<1>6. ASSUME NEW c \in Calls, HoldBack(c)
      PROVE  GateInv'
  <2>1. Required(c) \in Held
    BY <1>6, <1>a DEF HoldBack, PathInv, PathOf, Undecided
  <2>2. RowInv'
    BY <1>6, <1>a, <2>1 DEF HoldBack, RowInv, TypeOK, RowsOK
  <2>3. PathInv' /\ AllowInv'
    BY <1>6, <2>1, HeldIsNotAllow, HarmlessSettle, HarmlessReturn DEF HoldBack
  <2> QED BY <2>2, <2>3 DEF GateInv
<1>7. ASSUME NEW c \in Calls, Answer(c)
      PROVE  GateInv'
  <2>1. RowInv'
    BY <1>7, <1>b DEF Answer, approvals
  <2>2. CASE Settle(c, "ALLOW", <<"prompt", 0>>, 0)
    <3>1. External(RequestOf(c)) => case[c].setup.delegations
      BY <1>7, <1>a DEF Answer, PathInv, PathOf
    <3>2. RequestOf(c)' = RequestOf(c)
      BY <2>2, SettleMoves DEF RequestOf
    <3>3. PathOf(c)'
      BY <2>2, SettleMoves DEF PathOf, Undecided
    <3>4. AllowOf(c)'
      BY <2>2, <3>1, <3>2, SettleMoves DEF AllowOf
    <3> QED BY <2>1, <2>2, <3>3, <3>4, SettleMoves, OthersKeep DEF GateInv
  <2>3. CASE Deny(c, 0)
    BY <2>1, <2>3, HarmlessDeny DEF GateInv
  <2> QED BY <1>7, <2>2, <2>3 DEF Answer
<1>8. ASSUME NEW c \in Calls, Record(c)
      PROVE  GateInv'
  <2>1. RowInv'
    BY <1>8, <1>b DEF Record, approvals
  <2>2. ASSUME NEW phase \in {"running", "waiting"}, Goto(c, phase), Stay
        PROVE  GateInv'
    <3>1. Required(c)' = Required(c) /\ RequestOf(c)' = RequestOf(c)
      BY <2>2, StayMoves DEF Required, RequestOf
    <3>2. PathOf(c)'
      BY <2>2, StayMoves DEF PathOf, Undecided
    <3>3. AllowOf(c)
      BY <1>a DEF AllowInv
    <3>4. AllowOf(c)'
      BY <1>8, <2>2, <3>1, <3>3, StayMoves DEF AllowOf, Deciding, Record
    <3> QED BY <2>1, <2>2, <3>2, <3>4, StayMoves, OthersKeep DEF GateInv
  <2>3. CASE Return(c)
    BY <2>1, <2>3, HarmlessReturn DEF GateInv
  <2> QED BY <1>8, <2>2, <2>3 DEF Record
<1>9. ASSUME NEW c \in Calls, Run(c) \/ Fail(c)
      PROVE  GateInv'
  <2>1. RowInv'
    BY <1>9, <1>b DEF Run, Fail, approvals
  <2> QED BY <1>9, <2>1, HarmlessReturn DEF Run, Fail, GateInv
<1>10. ASSUME NEW c \in Calls, Poll(c)
       PROVE  GateInv'
  <2>1. RowInv'
    BY <1>10, <1>b DEF Poll, approvals
  <2>2. CASE Return(c)
    BY <2>1, <2>2, HarmlessReturn DEF GateInv
  <2>3. CASE ~Return(c)
    <3>1. OnlyMoves(c) /\ pc'[c] = "evaluating"
      BY <1>10, <2>3 DEF Poll, Goto, OnlyMoves, TypeOK, CallOK
    <3>2. PathOf(c)' /\ AllowOf(c)'
      BY <3>1 DEF PathOf, AllowOf, Undecided, Deciding
    <3> QED BY <2>1, <3>1, <3>2, OthersKeep DEF GateInv
  <2> QED BY <2>2, <2>3
<1>11. ASSUME UNCHANGED <<pc, case, decision, via>>
       PROVE  PathInv' /\ AllowInv'
  BY <1>a, <1>11 DEF PathInv, AllowInv, PathOf, AllowOf, Undecided, Deciding,
                     Required, RequestOf
<1>12. ASSUME NEW c \in Calls, WindowEnds(c)
       PROVE  GateInv'
  BY <1>12, <1>b, <1>11 DEF WindowEnds, approvals, GateInv
<1>13. ASSUME NEW i \in Rows, Approve(i) \/ Refuse(i) \/ Expire(i)
       PROVE  GateInv'
  <2>1. status[i] # "ABSENT" /\ needed' = needed
    BY <1>13 DEF Approve, Refuse, Expire, SetStatus
  <2>2. \A j \in Rows : status'[j] # "ABSENT" => status[j] # "ABSENT"
    BY <1>13, <2>1 DEF Approve, Refuse, Expire, SetStatus, TypeOK, RowsOK
  <2>3. RowInv'
    BY <1>a, <2>1, <2>2 DEF RowInv
  <2> QED BY <1>13, <1>11, <2>3 DEF Approve, Refuse, Expire, SetStatus, call, GateInv
<1>14. CASE Revoke \/ UNCHANGED vars
  BY <1>14, <1>b, <1>11 DEF Revoke, vars, call, approvals, GateInv
<1> QED BY <1>1, <1>2, <1>3, <1>4, <1>5, <1>6, <1>7, <1>8, <1>9, <1>10, <1>12,
           <1>13, <1>14 DEF Next, Step

\* Reconciled evidence of the outside leaves no trust.
LEMMA CappedOutside ==
    ASSUME NEW q \in Request, q.source \in ExternalSources \/ q.origin \in ExternalOrigins
    PROVE  Reconcile(q).trust \in {"EXTERNAL_CONTENT", "UNKNOWN"}
<1>1. "EXTERNAL_CONTENT" \in Evidence(q.source, q.origin)
  BY DEF Evidence, TrustOf, ExternalOrigins, ExternalSources
<1>2. TrustRank[Reconcile(q).trust] <= TrustRank["EXTERNAL_CONTENT"]
  BY <1>1, TrustIsCapped
<1>3. Reconcile(q).trust \in TrustLevels
  BY ReconcileType DEF Request
<1> QED BY <1>2, <1>3 DEF TrustRank, TrustLevels

LEMMA ReconcileKeeps ==
    ASSUME NEW q \in Request
    PROVE  Reconcile(q).action = q.action
BY DEF Reconcile, Request

LEMMA OutsideIsUntrusted ==
    ASSUME CallOK, NEW c \in Calls, FromOutside(c), Reconciled(c),
           case[c].input.action # "get_runtime_context"
    PROVE  /\ RequestOf(c).trust \in {"EXTERNAL_CONTENT", "UNKNOWN"}
           /\ RequestOf(c).action # "get_runtime_context"
<1> DEFINE k == case[c].input
<1>1. k \in ToolCall
  BY CaseType DEF CallOK
<1>2. ASSUME case[c].setup.adapter
      PROVE  /\ RequestOf(c).trust \in {"EXTERNAL_CONTENT", "UNKNOWN"}
             /\ RequestOf(c).action # "get_runtime_context"
  <2> DEFINE origin == IF k.origin = "absent" THEN InferredOrigin(k.source) ELSE k.origin
             trust == IF k.trust = "absent" THEN InferredTrust(k.source, origin) ELSE k.trust
             hints == IF k.action \in DOMAIN BuilderHints THEN BuilderHints[k.action]
                      ELSE k.hints
             q == With(Recognised(k), origin, trust, hints)
  <2>1. origin \in OriginTypes
    BY <1>1 DEF ToolCall, OriginTypes, InferredOrigin
  <2>2. trust \in TrustLevels
    <3>1. InferredTrust(k.source, origin) \in TrustLevels
      BY TrustOfType DEF InferredTrust, TrustLevels
    <3> QED BY <1>1, <3>1 DEF ToolCall
  <2>3. hints \in SUBSET Hints
    <3>1. \A a \in DOMAIN BuilderHints : BuilderHints[a] \in SUBSET Hints
      BY DEF BuilderHints, Hints
    <3> QED BY <1>1, <3>1 DEF ToolCall
  <2>4. origin \in ExternalOrigins \/ k.source \in ExternalSources
    BY DEF FromOutside, ExternalOrigins
  <2>5. RequestOf(c) = Reconcile(q)
    BY <1>2 DEF RequestOf, Normalize, Builders
  <2> HIDE DEF origin, trust, hints
  <2>6. q \in Request
    BY <1>1, <2>1, <2>2, <2>3, WithType, RecognisedType
  <2>7. /\ q.source = k.source /\ q.origin = origin
        /\ q.action # "get_runtime_context"
    BY <1>1 DEF With, Recognised, ToolCall
  <2> QED BY <2>4, <2>5, <2>6, <2>7, CappedOutside, ReconcileKeeps
<1>3. ASSUME ~case[c].setup.adapter
      PROVE  /\ RequestOf(c).trust \in {"EXTERNAL_CONTENT", "UNKNOWN"}
             /\ RequestOf(c).action # "get_runtime_context"
  <2> DEFINE origin == IF k.origin = "absent" THEN "UNKNOWN" ELSE k.origin
             q == With(k, origin, k.trust, k.hints)
  <2>1. k.trust # "absent"
    BY <1>3 DEF Reconciled
  <2>2. origin \in OriginTypes /\ k.trust \in TrustLevels /\ k.hints \in SUBSET Hints
    BY <1>1, <2>1 DEF ToolCall, OriginTypes
  <2>3. origin \in ExternalOrigins \/ k.source \in ExternalSources
    BY DEF FromOutside, ExternalOrigins
  <2>4. RequestOf(c) = Reconcile(q)
    BY <1>3, <2>1 DEF RequestOf, FromDict
  <2> HIDE DEF origin
  <2>5. q \in Request
    BY <1>1, <2>2, WithType
  <2>6. q.source = k.source /\ q.origin = origin /\ q.action = k.action
    BY DEF With
  <2> QED BY <2>3, <2>4, <2>5, <2>6, CappedOutside, ReconcileKeeps
<1> QED BY <1>2, <1>3

LEMMA GateImplies == TypeOK /\ GateInv => OutsideIsGated
<1> SUFFICES ASSUME TypeOK, GateInv, NEW c \in Calls,
                    Deciding(c), decision[c] = "ALLOW",
                    case[c].input.action # "get_runtime_context"
             PROVE  /\ FromOutside(c) /\ Reconciled(c) => via[c] # <<"policy", 0>>
                    /\ External(RequestOf(c)) /\ via[c] = <<"prompt", 0>>
                           => case[c].setup.delegations
  BY DEF OutsideIsGated
<1>1. AllowOf(c) /\ CallOK
  BY DEF GateInv, AllowInv, TypeOK
<1>2. ASSUME FromOutside(c), Reconciled(c) PROVE Required(c) # "ALLOW"
  <2>1. RequestOf(c) \in Request
    BY <1>1, RequestType
  <2>2. Classify(RequestOf(c)) \in Classes /\ Classify(RequestOf(c)) # "SAFE"
    BY <1>1, <1>2, <2>1, OutsideIsUntrusted, ClassifyType, UntrustedIsNeverSafe
  <2> QED BY <2>2 DEF Required, DecisionFor, Classes
<1> QED BY <1>1, <1>2 DEF AllowOf

\* Whatever trust a call from outside claims, and however it is normalized, it
\* never runs on the policy alone, and external content runs on a prompt only
\* past the delegations (gateway.py:68-250, models.py:227).
THEOREM OutsideAlwaysGated == Spec => []OutsideIsGated
<1>1. Init => TypeOK /\ GateInv
  BY TypeInitially, GateInitially
<1>2. TypeOK /\ GateInv /\ [Next]_vars => (TypeOK /\ GateInv)'
  BY TypeInductive, GateInductive
<1>3. TypeOK /\ GateInv => OutsideIsGated
  BY GateImplies
<1> QED BY <1>1, <1>2, <1>3, PTL DEF Spec

-----------------------------------------------------------------------------
\* Payment.
\* A use that was paid is on its way to the record in a call that recorded
\* nothing yet, and on its way to the execution in a call that runs.
Recording(b) == {c \in Calls : pc[c] = "recording" /\ decision[c] = "ALLOW" /\ via[c] = b}
Executing(b) == {c \in Calls : pc[c] = "running" /\ via[c] = b}

Covered(b) == /\ ran[b] + Cardinality(Executing(b)) <= allowed[b]
              /\ allowed[b] + Cardinality(Recording(b)) <= Paid(b)

PayInv == \A b \in Spendable : Covered(b)

\* A row that has been used is never active again, and rows come into being once.
OnceInv == \A i \in Rows :
    /\ granted[i] <= 1
    /\ status[i] \in {"ABSENT", "PENDING", "APPROVED"} => granted[i] = 0
    /\ nextRow <= i => status[i] = "ABSENT"

LEMMA SetsFinite ==
    ASSUME NEW b
    PROVE  /\ IsFiniteSet(Recording(b)) /\ Cardinality(Recording(b)) \in Nat
           /\ IsFiniteSet(Executing(b)) /\ Cardinality(Executing(b)) \in Nat
<1>1. Recording(b) \subseteq Calls /\ Executing(b) \subseteq Calls
  BY DEF Recording, Executing
<1> QED BY <1>1, CallsAssumption, FS_Subset, FS_CardinalityType

LEMMA SetsFinitePrimed ==
    ASSUME NEW b
    PROVE  /\ IsFiniteSet(Recording(b)') /\ Cardinality(Recording(b)') \in Nat
           /\ IsFiniteSet(Executing(b)') /\ Cardinality(Executing(b)') \in Nat
<1>1. Recording(b)' \subseteq Calls /\ Executing(b)' \subseteq Calls
  BY DEF Recording, Executing
<1> QED BY <1>1, CallsAssumption, FS_Subset, FS_CardinalityType

\* A step of one call adds it to the sets, or takes it from them.
LEMMA SetsMove ==
    ASSUME NEW c \in Calls, OnlyMoves(c), NEW b
    PROVE  /\ c \in Recording(b)' => Recording(b)' = Recording(b) \cup {c}
           /\ c \notin Recording(b)' => Recording(b)' = Recording(b) \ {c}
           /\ c \in Executing(b)' => Executing(b)' = Executing(b) \cup {c}
           /\ c \notin Executing(b)' => Executing(b)' = Executing(b) \ {c}
BY DEF OnlyMoves, Recording, Executing

LEMMA CardinalityAdds ==
    ASSUME NEW S, IsFiniteSet(S), NEW x
    PROVE  Cardinality(S \cup {x}) <= Cardinality(S) + 1
<1>1. Cardinality(S) \in Nat
  BY FS_CardinalityType
<1>2. Cardinality(S \cup {x}) = IF x \in S THEN Cardinality(S) ELSE Cardinality(S) + 1
  BY FS_AddElement
<1> QED BY <1>1, <1>2

LEMMA CardinalityDrops ==
    ASSUME NEW S, IsFiniteSet(S), NEW x
    PROVE  /\ Cardinality(S \ {x}) <= Cardinality(S)
           /\ x \in S => Cardinality(S \ {x}) = Cardinality(S) - 1
<1>1. Cardinality(S) \in Nat
  BY FS_CardinalityType
<1>2. Cardinality(S \ {x}) = IF x \in S THEN Cardinality(S) - 1 ELSE Cardinality(S)
  BY FS_RemoveElement
<1> QED BY <1>1, <1>2

CountsOK(b) == ran[b] \in Nat /\ allowed[b] \in Nat /\ Paid(b) \in Nat
Counts == \A b \in Spendable : CountsOK(b)

LEMMA CountsAreNumbers == TypeOK => Counts
<1> SUFFICES ASSUME TypeOK, NEW b \in Spendable PROVE CountsOK(b)
  BY DEF Counts
<1>1. ran[b] \in Nat /\ allowed[b] \in Nat
  BY DEF TypeOK, HistoryOK
<1>2. CASE b = <<"token", 0>>
  BY <1>1, <1>2, TokenAssumption DEF TypeOK, TokenOK, Paid, CountsOK
<1>3. ASSUME NEW i \in Rows, b = <<"row", i>> PROVE CountsOK(b)
  BY <1>1, <1>3 DEF TypeOK, HistoryOK, Paid, CountsOK
<1> QED BY <1>1, <1>2, <1>3 DEF Spendable

\* What a step must show of one base that it does not spend from.
LEMMA StaysCovered ==
    ASSUME TypeOK, TypeOK', NEW b \in Spendable, Covered(b),
           NEW c \in Calls, OnlyMoves(c), c \notin Recording(b)', c \notin Executing(b)',
           ran'[b] = ran[b], allowed'[b] = allowed[b], Paid(b)' >= Paid(b)
    PROVE  Covered(b)'
<1>1. /\ Cardinality(Recording(b)') <= Cardinality(Recording(b))
      /\ Cardinality(Executing(b)') <= Cardinality(Executing(b))
  BY SetsMove, SetsFinite, CardinalityDrops
<1>2. /\ ran[b] \in Nat /\ allowed[b] \in Nat /\ Paid(b) \in Nat
      /\ ran'[b] \in Nat /\ allowed'[b] \in Nat /\ Paid(b)' \in Nat
  <2>1. Counts
    BY CountsAreNumbers
  <2>2. Counts'
    BY CountsAreNumbers, PTL
  <2> QED BY <2>1, <2>2 DEF Counts, CountsOK
<1> QED BY <1>1, <1>2, SetsFinite, SetsFinitePrimed DEF Covered

LEMMA SpendableBases == \A b \in Spendable : b # <<"policy", 0>> /\ b # <<"prompt", 0>>
BY DEF Spendable

\* A step of one call that records, runs and pays nothing.
LEMMA QuietStep ==
    ASSUME TypeOK, TypeOK', PayInv, NEW c \in Calls, OnlyMoves(c),
           \A b \in Spendable : c \notin Recording(b)' /\ c \notin Executing(b)',
           UNCHANGED <<ran, allowed, uses, granted>>
    PROVE  PayInv'
<1> SUFFICES ASSUME NEW b \in Spendable PROVE Covered(b)'
  BY DEF PayInv
<1>1. Paid(b)' = Paid(b)
  BY DEF Paid
<1>2. Paid(b) \in Nat
  BY CountsAreNumbers DEF Counts, CountsOK
<1>3. Paid(b)' >= Paid(b)
  BY <1>1, <1>2
<1> QED BY <1>3, StaysCovered DEF PayInv

\* A result that allows nothing on the account of a store.
LEMMA QuietSettle ==
    ASSUME TypeOK, TypeOK', PayInv, NEW c \in Calls, NEW result, NEW base, NEW row,
           Settle(c, result, base, row), result # "ALLOW" \/ base \notin Spendable,
           UNCHANGED <<ran, allowed, uses, granted>>
    PROVE  PayInv'
<1>1. \A b \in Spendable : c \notin Recording(b)' /\ c \notin Executing(b)'
  BY SettleMoves DEF Recording, Executing
<1> QED BY <1>1, SettleMoves, QuietStep

LEMMA QuietMove ==
    ASSUME TypeOK, TypeOK', PayInv, NEW c \in Calls, OnlyMoves(c),
           pc'[c] \notin {"recording", "running"},
           UNCHANGED <<ran, allowed, uses, granted>>
    PROVE  PayInv'
<1>1. \A b \in Spendable : c \notin Recording(b)' /\ c \notin Executing(b)'
  BY DEF Recording, Executing
<1> QED BY <1>1, QuietStep

LEMMA QuietDeny ==
    ASSUME TypeOK, TypeOK', PayInv, NEW c \in Calls, NEW row, Deny(c, row),
           UNCHANGED <<ran, allowed, uses, granted>>
    PROVE  PayInv'
BY QuietSettle DEF Deny

\* A step that spends one use and goes on to record it.
LEMMA SpendingSettle ==
    ASSUME TypeOK, TypeOK', PayInv, NEW c \in Calls, NEW base \in Spendable, NEW row,
           Settle(c, "ALLOW", base, row), UNCHANGED <<ran, allowed>>,
           Paid(base)' = Paid(base) + 1,
           \A b \in Spendable \ {base} : Paid(b)' = Paid(b)
    PROVE  PayInv'
<1> SUFFICES ASSUME NEW b \in Spendable PROVE Covered(b)'
  BY DEF PayInv
<1>1. OnlyMoves(c) /\ pc'[c] = "recording" /\ decision'[c] = "ALLOW" /\ via'[c] = base
  BY SettleMoves
<1>2. CountsOK(b) /\ Covered(b)
  BY CountsAreNumbers DEF Counts, PayInv
<1>3. CASE b # base
  <2>1. c \notin Recording(b)' /\ c \notin Executing(b)'
    BY <1>1, <1>3 DEF Recording, Executing
  <2>2. Paid(b)' >= Paid(b)
    BY <1>2, <1>3 DEF CountsOK
  <2> QED BY <1>1, <1>2, <2>1, <2>2, StaysCovered
<1>4. CASE b = base
  <2>1. c \notin Executing(b)' /\ c \in Recording(b)'
    BY <1>1, <1>4 DEF Recording, Executing
  <2>2. /\ Cardinality(Executing(b)') <= Cardinality(Executing(b))
        /\ Cardinality(Recording(b)') <= Cardinality(Recording(b)) + 1
    BY <1>1, <2>1, SetsMove, SetsFinite, CardinalityDrops, CardinalityAdds
  <2> QED BY <1>2, <1>4, <2>2, SetsFinite, SetsFinitePrimed DEF Covered, CountsOK
<1> QED BY <1>3, <1>4

\* The record moves a use from the payment to the allowances.
LEMMA RecordCovers ==
    ASSUME TypeOK, TypeOK', PayInv, NEW c \in Calls, Record(c)
    PROVE  PayInv'
<1> SUFFICES ASSUME NEW b \in Spendable PROVE Covered(b)'
  BY DEF PayInv
<1>1. /\ OnlyMoves(c) /\ pc[c] = "recording" /\ pc'[c] # "recording"
      /\ pc'[c] = "running" => decision[c] = "ALLOW" /\ via'[c] = via[c]
  BY StayMoves, ReturnMoves DEF Record
<1>2. CountsOK(b) /\ Covered(b)
  BY CountsAreNumbers DEF Counts, PayInv
<1>3. /\ c \notin Recording(b)'
      /\ c \in Executing(b)' => c \in Recording(b)
  BY <1>1 DEF Recording, Executing
<1>4. /\ c \in Recording(b) => allowed'[b] = allowed[b] + 1
      /\ c \notin Recording(b) => allowed'[b] = allowed[b]
      /\ ran'[b] = ran[b] /\ Paid(b)' = Paid(b)
  BY <1>1 DEF Record, Recording, TypeOK, HistoryOK, approvals, token, Paid
<1>5. CASE c \notin Recording(b)
  <2>1. Paid(b)' >= Paid(b)
    BY <1>2, <1>4 DEF CountsOK
  <2> QED BY <1>1, <1>2, <1>3, <1>4, <1>5, <2>1, StaysCovered
<1>6. CASE c \in Recording(b)
  <2>1. Cardinality(Recording(b)') = Cardinality(Recording(b)) - 1
    BY <1>1, <1>3, <1>6, SetsMove, SetsFinite, CardinalityDrops
  <2>2. Cardinality(Executing(b)') <= Cardinality(Executing(b)) + 1
    <3>1. CASE c \in Executing(b)'
      BY <1>1, <3>1, SetsMove, SetsFinite, CardinalityAdds
    <3>2. CASE c \notin Executing(b)'
      <4>1. Cardinality(Executing(b)') <= Cardinality(Executing(b))
        BY <1>1, <3>2, SetsMove, SetsFinite, CardinalityDrops
      <4> QED BY <4>1, SetsFinite, SetsFinitePrimed
    <3> QED BY <3>1, <3>2
  <2> QED BY <1>2, <1>4, <1>6, <2>1, <2>2, SetsFinite, SetsFinitePrimed DEF Covered, CountsOK
<1> QED BY <1>5, <1>6

\* The execution moves it on.
LEMMA RunCovers ==
    ASSUME TypeOK, TypeOK', PayInv, NEW c \in Calls, Run(c)
    PROVE  PayInv'
<1> SUFFICES ASSUME NEW b \in Spendable PROVE Covered(b)'
  BY DEF PayInv
<1>1. OnlyMoves(c) /\ pc[c] = "running" /\ pc'[c] = "idle"
  BY ReturnMoves DEF Run
<1>2. CountsOK(b) /\ Covered(b)
  BY CountsAreNumbers DEF Counts, PayInv
<1>3. c \notin Recording(b)' /\ c \notin Executing(b)'
  BY <1>1 DEF Recording, Executing
<1>4. /\ c \in Executing(b) => ran'[b] = ran[b] + 1
      /\ c \notin Executing(b) => ran'[b] = ran[b]
      /\ allowed'[b] = allowed[b] /\ Paid(b)' = Paid(b)
  BY <1>1 DEF Run, Executing, TypeOK, HistoryOK, approvals, token, Paid
<1>5. CASE c \notin Executing(b)
  <2>1. Paid(b)' >= Paid(b)
    BY <1>2, <1>4 DEF CountsOK
  <2> QED BY <1>1, <1>2, <1>3, <1>4, <1>5, <2>1, StaysCovered
<1>6. CASE c \in Executing(b)
  <2>1. /\ Cardinality(Executing(b)') = Cardinality(Executing(b)) - 1
        /\ Cardinality(Recording(b)') <= Cardinality(Recording(b))
    BY <1>1, <1>3, <1>6, SetsMove, SetsFinite, CardinalityDrops
  <2> QED BY <1>2, <1>4, <1>6, <2>1, SetsFinite, SetsFinitePrimed DEF Covered, CountsOK
<1> QED BY <1>5, <1>6

LEMMA PayInductive == TypeOK /\ TypeOK' /\ PayInv /\ [Next]_vars => PayInv'
<1> SUFFICES ASSUME TypeOK, TypeOK', PayInv, [Next]_vars PROVE PayInv'
  OBVIOUS
<1>a. ASSUME UNCHANGED <<pc, decision, via, ran, allowed, uses, granted>>
      PROVE  PayInv'
  BY <1>a DEF PayInv, Covered, Recording, Executing, Paid
<1>1. ASSUME NEW c \in Calls, NEW k \in Cases, Arrive(c, k)
      PROVE  PayInv'
  <2>1. OnlyMoves(c) /\ pc'[c] = "evaluating"
    BY <1>1 DEF Arrive, Goto, OnlyMoves, TypeOK, CallOK
  <2> QED BY <1>1, <2>1, QuietMove DEF Arrive, approvals, token, history
<1>2. ASSUME NEW c \in Calls, Evaluate(c)
      PROVE  PayInv'
  <2>1. UNCHANGED <<ran, allowed, uses, granted>>
    BY <1>2 DEF Evaluate, approvals, token, history
  <2>2. CASE Settle(c, Required(c), <<"policy", 0>>, 0)
    BY <2>1, <2>2, SpendableBases, QuietSettle
  <2>3. CASE Deny(c, 0)
    BY <2>1, <2>3, QuietDeny
  <2>4. ASSUME NEW phase \in {"authorizing", "matching", "prompting"},
               Goto(c, phase), Stay
        PROVE  PayInv'
    BY <2>1, <2>4, StayMoves, QuietMove
  <2> QED BY <1>2, <2>2, <2>3, <2>4 DEF Evaluate
<1>3. ASSUME NEW c \in Calls, Authorize(c)
      PROVE  PayInv'
  <2>1. UNCHANGED <<ran, allowed, granted>>
    BY <1>3 DEF Authorize, approvals, history
  <2>2. ASSUME Settle(c, "ALLOW", <<"token", 0>>, 0), uses' = uses + 1
        PROVE  PayInv'
    <3>1. <<"token", 0>> \in Spendable
      BY DEF Spendable
    <3>2. Paid(<<"token", 0>>)' = Paid(<<"token", 0>>) + 1
      BY <2>2 DEF Paid
    <3>3. \A b \in Spendable \ {<<"token", 0>>} : Paid(b)' = Paid(b)
      BY <2>1 DEF Spendable, Paid
    <3> QED BY <2>1, <2>2, <3>1, <3>2, <3>3, SpendingSettle
  <2>3. ASSUME Deny(c, 0), uses' = uses
        PROVE  PayInv'
    BY <2>1, <2>3, QuietDeny
  <2>4. ASSUME NEW phase \in {"matching", "prompting"}, Goto(c, phase), Stay,
               uses' = uses
        PROVE  PayInv'
    BY <2>1, <2>4, StayMoves, QuietMove
  <2> QED BY <1>3, <2>2, <2>3, <2>4 DEF Authorize
<1>4. ASSUME NEW c \in Calls, Match(c)
      PROVE  PayInv'
  <2>1. UNCHANGED <<ran, allowed, uses, granted>>
    BY <1>4 DEF Match, approvals, token, history
  <2>2. ASSUME NEW i \in Rows, Settle(c, needed[i], <<"policy", 0>>, i)
        PROVE  PayInv'
    BY <2>1, <2>2, SpendableBases, QuietSettle
  <2>3. ASSUME Goto(c, "consuming"), UNCHANGED <<case, decision, via>>
        PROVE  PayInv'
    <3>1. OnlyMoves(c) /\ pc'[c] = "consuming"
      BY <2>3 DEF Goto, OnlyMoves, TypeOK, CallOK
    <3> QED BY <2>1, <3>1, QuietMove
  <2>4. CASE Deny(c, 0)
    BY <2>1, <2>4, QuietDeny
  <2>5. CASE Goto(c, "prompting") /\ Stay
    BY <2>1, <2>5, StayMoves, QuietMove
  <2> QED BY <1>4, <2>2, <2>3, <2>4, <2>5 DEF Match
<1>5. ASSUME NEW c \in Calls, Consume(c)
      PROVE  PayInv'
  <2>1. UNCHANGED <<ran, allowed, uses>>
    BY <1>5 DEF Consume, token, history
  <2>2. ASSUME NEW i \in Rows, granted' = [granted EXCEPT ![i] = @ + 1],
               Settle(c, "ALLOW", <<"row", i>>, i)
        PROVE  PayInv'
    <3>1. <<"row", i>> \in Spendable
      BY DEF Spendable
    <3>2. granted \in [Rows -> Nat]
      BY DEF TypeOK, HistoryOK
    <3>3. Paid(<<"row", i>>)' = Paid(<<"row", i>>) + 1
      BY <2>2, <3>2 DEF Paid
    <3>4. \A b \in Spendable \ {<<"row", i>>} : Paid(b)' = Paid(b)
      BY <2>1, <2>2, <3>2 DEF Spendable, Paid
    <3> QED BY <2>1, <2>2, <3>1, <3>3, <3>4, SpendingSettle
  <2>3. ASSUME Deny(c, ticket[c]), granted' = granted
        PROVE  PayInv'
    BY <2>1, <2>3, QuietDeny
  <2> QED BY <1>5, <2>2, <2>3 DEF Consume
<1>6. ASSUME NEW c \in Calls, HoldBack(c)
      PROVE  PayInv'
  <2>1. UNCHANGED <<ran, allowed, uses, granted>>
    BY <1>6 DEF HoldBack, token, history
  <2>2. ASSUME NEW row, Settle(c, Required(c), <<"policy", 0>>, row)
        PROVE  PayInv'
    BY <2>1, <2>2, SpendableBases, QuietSettle
  <2>3. CASE Return(c)
    BY <2>1, <2>3, ReturnMoves, QuietMove
  <2> QED BY <1>6, <2>2, <2>3 DEF HoldBack
<1>7. ASSUME NEW c \in Calls, Answer(c)
      PROVE  PayInv'
  <2>1. UNCHANGED <<ran, allowed, uses, granted>>
    BY <1>7 DEF Answer, approvals, token, history
  <2> QED BY <1>7, <2>1, SpendableBases, QuietSettle, QuietDeny DEF Answer
<1>8. ASSUME NEW c \in Calls, Fail(c)
      PROVE  PayInv'
  BY <1>8, ReturnMoves, QuietMove DEF Fail, approvals, token, history
<1>9. ASSUME NEW c \in Calls, Poll(c)
      PROVE  PayInv'
  <2>1. UNCHANGED <<ran, allowed, uses, granted>>
    BY <1>9 DEF Poll, approvals, token, history
  <2>2. CASE Return(c)
    BY <2>1, <2>2, ReturnMoves, QuietMove
  <2>3. CASE ~Return(c)
    <3>1. OnlyMoves(c) /\ pc'[c] = "evaluating"
      BY <1>9, <2>3 DEF Poll, Goto, OnlyMoves, TypeOK, CallOK
    <3> QED BY <2>1, <3>1, QuietMove
  <2> QED BY <2>2, <2>3
<1>10. ASSUME NEW c \in Calls, WindowEnds(c)
       PROVE  PayInv'
  BY <1>10, <1>a DEF WindowEnds, approvals, token, history
<1>11. ASSUME NEW i \in Rows, Approve(i) \/ Refuse(i) \/ Expire(i)
       PROVE  PayInv'
  BY <1>11, <1>a DEF Approve, Refuse, Expire, SetStatus, call, token, history
<1>12. CASE Revoke \/ UNCHANGED vars
  BY <1>12, <1>a DEF Revoke, vars, call, approvals, token, history
<1> QED BY <1>1, <1>2, <1>3, <1>4, <1>5, <1>6, <1>7, <1>8, <1>9, <1>10, <1>11,
           <1>12, RecordCovers, RunCovers DEF Next, Step

LEMMA OnceInductive == TypeOK /\ OnceInv /\ [Next]_vars => OnceInv'
<1> SUFFICES ASSUME TypeOK, OnceInv, [Next]_vars PROVE OnceInv'
  OBVIOUS
<1> DEFINE Same == UNCHANGED <<status, granted, nextRow>>
<1>1. CASE Same
  BY <1>1 DEF OnceInv
<1>2. ASSUME NEW c \in Calls, Consume(c)
      PROVE  OnceInv'
  <2>1. ASSUME NEW i \in Rows, Oldest(i, Consumable(c)),
               status' = [status EXCEPT ![i] = "USED"],
               granted' = [granted EXCEPT ![i] = @ + 1], nextRow' = nextRow
        PROVE  OnceInv'
    <3>1. status[i] = "APPROVED"
      BY <2>1 DEF Oldest, Consumable
    <3>2. status \in [Rows -> Status] /\ granted \in [Rows -> Nat]
      BY DEF TypeOK, RowsOK, HistoryOK
    <3> SUFFICES ASSUME NEW j \in Rows
                 PROVE  /\ granted'[j] <= 1
                        /\ status'[j] \in {"ABSENT", "PENDING", "APPROVED"} => granted'[j] = 0
                        /\ nextRow' <= j => status'[j] = "ABSENT"
      BY DEF OnceInv
    <3>3. CASE j = i
      BY <2>1, <3>1, <3>2, <3>3 DEF OnceInv
    <3>4. CASE j # i
      BY <2>1, <3>2, <3>4 DEF OnceInv
    <3> QED BY <3>3, <3>4
  <2>2. CASE Same
    BY <1>1, <2>2
  <2> QED BY <1>2, <2>1, <2>2 DEF Consume
<1>3. ASSUME NEW c \in Calls, HoldBack(c)
      PROVE  OnceInv'
  <2>1. ASSUME nextRow \in Rows, status' = [status EXCEPT ![nextRow] = "PENDING"],
               nextRow' = nextRow + 1, granted' = granted
        PROVE  OnceInv'
    <3>1. status \in [Rows -> Status] /\ granted \in [Rows -> Nat]
      BY DEF TypeOK, RowsOK, HistoryOK
    <3>2. status[nextRow] = "ABSENT"
      BY <2>1 DEF OnceInv, Rows
    <3> SUFFICES ASSUME NEW j \in Rows
                 PROVE  /\ granted'[j] <= 1
                        /\ status'[j] \in {"ABSENT", "PENDING", "APPROVED"} => granted'[j] = 0
                        /\ nextRow' <= j => status'[j] = "ABSENT"
      BY DEF OnceInv
    <3>3. CASE j = nextRow
      BY <2>1, <3>1, <3>2, <3>3 DEF OnceInv, Rows
    <3>4. CASE j # nextRow
      BY <2>1, <3>1, <3>4 DEF OnceInv, Rows
    <3> QED BY <3>3, <3>4
  <2>2. CASE Same
    BY <1>1, <2>2
  <2> QED BY <1>3, <2>1, <2>2 DEF HoldBack
<1>4. ASSUME NEW i \in Rows, Approve(i) \/ Refuse(i) \/ Expire(i)
      PROVE  OnceInv'
  <2>1. /\ status[i] # "ABSENT" /\ granted' = granted /\ nextRow' = nextRow
        /\ \E to \in {"APPROVED", "DENIED", "EXPIRED"} :
              /\ status' = [status EXCEPT ![i] = to]
              /\ to = "APPROVED" => status[i] = "PENDING"
    BY <1>4 DEF Approve, Refuse, Expire, SetStatus
  <2> QED BY <2>1 DEF OnceInv, TypeOK, RowsOK
<1>5. ASSUME NEW c \in Calls,
             \/ \E k \in Cases : Arrive(c, k)
             \/ Evaluate(c) \/ Authorize(c) \/ Match(c) \/ Answer(c) \/ Record(c)
             \/ Run(c) \/ Poll(c) \/ WindowEnds(c) \/ Fail(c)
      PROVE  Same
  BY <1>5 DEF Arrive, Evaluate, Authorize, Match, Answer, Record, Run, Poll,
              WindowEnds, Fail, approvals
<1>6. CASE Revoke \/ UNCHANGED vars
  BY <1>1, <1>6 DEF Revoke, vars, approvals
<1> QED BY <1>1, <1>2, <1>3, <1>4, <1>5, <1>6 DEF Next, Step

LEMMA PaidInitially == Init => PayInv /\ OnceInv
<1> SUFFICES ASSUME Init PROVE PayInv /\ OnceInv
  OBVIOUS
<1>1. OnceInv
  BY DEF Init, OnceInv
<1>2. ASSUME NEW b \in Spendable PROVE Covered(b)
  <2>1. Recording(b) = {} /\ Executing(b) = {}
    BY DEF Init, Recording, Executing
  <2>2. ran[b] = 0 /\ allowed[b] = 0 /\ Paid(b) = 0
    BY DEF Init, Spendable, Paid
  <2> QED BY <2>1, <2>2, FS_EmptySet DEF Covered
<1> QED BY <1>1, <1>2 DEF PayInv

\* Whatever the callers do, however their steps interleave and wherever they
\* fail, nothing runs that was not recorded as allowed, nothing is allowed that
\* was not paid for, and an approval pays once (gateway.py:68-250,
\* mcp_server.py:172-270).
THEOREM NeverUnpaid == Spec => []NothingRunsUnpaid
<1> DEFINE Inv == TypeOK /\ PayInv /\ OnceInv
<1>1. Init => Inv
  BY TypeInitially, PaidInitially
<1>2. Inv /\ [Next]_vars => Inv'
  BY TypeInductive, PayInductive, OnceInductive
<1>3. Inv => NothingRunsUnpaid
  <2> SUFFICES ASSUME Inv PROVE NothingRunsUnpaid
    OBVIOUS
  <2>1. \A b \in Spendable : ran[b] <= allowed[b] /\ allowed[b] <= Paid(b)
    BY SetsFinite, CountsAreNumbers DEF PayInv, Covered, Counts, CountsOK
  <2> QED BY <2>1 DEF NothingRunsUnpaid, OnceInv
<1> QED BY <1>1, <1>2, <1>3, PTL DEF Spec

-----------------------------------------------------------------------------
\* One row moves along the lifecycle, and is used when it becomes USED.
LEMMA RowMoves ==
    ASSUME TypeOK, NEW i \in Rows, NEW to, status' = [status EXCEPT ![i] = to],
           to = status[i] \/ <<status[i], to>> \in Lifecycle!Moves,
           granted' = IF status[i] = "APPROVED" /\ to = "USED"
                      THEN [granted EXCEPT ![i] = @ + 1] ELSE granted
    PROVE  Lifecycle!Save
<1>1. status \in [Rows -> Status] /\ granted \in [Rows -> Nat]
  BY DEF TypeOK, RowsOK, HistoryOK
<1>2. \A j \in Rows : \/ Lifecycle!Stays(j)
                     \/ <<status[j], status'[j]>> \in Lifecycle!Moves
  BY <1>1 DEF Lifecycle!Stays
<1>3. granted' = [j \in Rows |-> IF Lifecycle!Used(j) THEN granted[j] + 1 ELSE granted[j]]
  <2>1. CASE status[i] = "APPROVED" /\ to = "USED"
    <3>1. \A j \in Rows : Lifecycle!Used(j) <=> j = i
      BY <1>1, <2>1 DEF Lifecycle!Used
    <3> QED BY <1>1, <2>1, <3>1
  <2>2. CASE ~(status[i] = "APPROVED" /\ to = "USED")
    <3>1. \A j \in Rows : ~Lifecycle!Used(j)
      BY <1>1, <2>2 DEF Lifecycle!Used
    <3> QED BY <1>1, <2>2, <3>1
  <2> QED BY <2>1, <2>2
<1> QED BY <1>2, <1>3 DEF Lifecycle!Save

\* The gateway, its callers and the humans use the approval requests only as
\* ApprovalLifecycle allows (pending_approvals.py, gateway.py:346).
THEOREM Refinement == Spec => ImplementsLifecycle
<1> DEFINE Inv == TypeOK /\ OnceInv
           Unmoved == UNCHANGED <<status, granted>>
<1>1. Init => Inv /\ Lifecycle!Init
  BY TypeInitially, PaidInitially DEF Init, Lifecycle!Init
<1>2. Inv /\ [Next]_vars => Inv'
  BY TypeInductive, OnceInductive
<1>3. Inv /\ [Next]_vars => [Lifecycle!Save]_<<status, granted>>
  <2> SUFFICES ASSUME Inv, [Next]_vars PROVE Lifecycle!Save \/ Unmoved
    OBVIOUS
  <2>1. ASSUME NEW c \in Calls, Consume(c) PROVE Lifecycle!Save \/ Unmoved
    <3>1. ASSUME NEW i \in Rows, Oldest(i, Consumable(c)),
                 status' = [status EXCEPT ![i] = "USED"],
                 granted' = [granted EXCEPT ![i] = @ + 1]
          PROVE  Lifecycle!Save
      <4>1. status[i] = "APPROVED"
        BY <3>1 DEF Oldest, Consumable
      <4>2. <<status[i], "USED">> \in Lifecycle!Moves
        BY <4>1 DEF Lifecycle!Moves
      <4> QED BY <3>1, <4>1, <4>2, RowMoves
    <3> QED BY <2>1, <3>1 DEF Consume
  <2>2. ASSUME NEW c \in Calls, HoldBack(c) PROVE Lifecycle!Save \/ Unmoved
    <3>1. ASSUME nextRow \in Rows, status' = [status EXCEPT ![nextRow] = "PENDING"],
                 granted' = granted
          PROVE  Lifecycle!Save
      <4>1. status[nextRow] = "ABSENT"
        BY <3>1 DEF OnceInv, Rows
      <4>2. <<status[nextRow], "PENDING">> \in Lifecycle!Moves
        BY <4>1 DEF Lifecycle!Moves
      <4> QED BY <3>1, <4>1, <4>2, RowMoves
    <3> QED BY <2>2, <3>1 DEF HoldBack
  <2>3. ASSUME NEW i \in Rows, Approve(i) \/ Refuse(i) \/ Expire(i)
        PROVE  Lifecycle!Save
    <3>1. status[i] \in Status
      BY DEF TypeOK, RowsOK
    <3>2. PICK to \in {"APPROVED", "DENIED", "EXPIRED"} :
              /\ status' = [status EXCEPT ![i] = to] /\ granted' = granted
              /\ to = "APPROVED" => status[i] = "PENDING"
              /\ to = "DENIED" => status[i] # "ABSENT"
              /\ to = "EXPIRED" => status[i] \in {"PENDING", "APPROVED"}
      BY <2>3 DEF Approve, Refuse, Expire, SetStatus
    <3>3. to = status[i] \/ <<status[i], to>> \in Lifecycle!Moves
      BY <3>1, <3>2 DEF Lifecycle!Moves, Status
    <3> QED BY <3>2, <3>3, RowMoves
  <2>4. ASSUME NEW c \in Calls,
               \/ \E k \in Cases : Arrive(c, k)
               \/ Evaluate(c) \/ Authorize(c) \/ Match(c) \/ Answer(c) \/ Record(c)
               \/ Run(c) \/ Poll(c) \/ WindowEnds(c) \/ Fail(c)
        PROVE  Unmoved
    BY <2>4 DEF Arrive, Evaluate, Authorize, Match, Answer, Record, Run, Poll,
                WindowEnds, Fail, approvals
  <2>5. CASE Revoke \/ UNCHANGED vars
    BY <2>5 DEF Revoke, vars, approvals
  <2> QED BY <2>1, <2>2, <2>3, <2>4, <2>5 DEF Next, Step
<1> QED BY <1>1, <1>2, <1>3, PTL DEF Spec, ImplementsLifecycle, Lifecycle!Spec

-----------------------------------------------------------------------------
(***************************************************************************)
(* An approval fits.  Reconciliation only lowers trust, and a lower trust  *)
(* can only hide the hints of a request that was held.                     *)
(***************************************************************************)

\* The rules before the provenance do not see what reconciliation changes.
LEMMA ReconcileRules ==
    ASSUME NEW q \in Request
    PROVE  LET r == Reconcile(q)
           IN /\ r.action = q.action /\ r.origin = q.origin
              /\ Blocked(r) <=> Blocked(q)
              /\ ForbiddenWrite(r) <=> ForbiddenWrite(q)
              /\ CriticalWrite(r) <=> CriticalWrite(q)
              /\ ProtectedWrite(r) <=> ProtectedWrite(q)
              /\ "critical" \in r.hints <=> "critical" \in q.hints
              /\ "sensitive" \in r.hints <=> "sensitive" \in q.hints
<1> DEFINE r == Reconcile(q)
<1>1. /\ r.action = q.action /\ r.target = q.target /\ r.injected = q.injected
      /\ r.origin = q.origin
      /\ r.hints = q.hints \/ r.hints = q.hints \cup {"inconsistent"}
  BY DEF Reconcile, Request
<1> HIDE DEF r
<1>2. \A hint \in {"blocking", "critical", "sensitive"} : hint \in r.hints <=> hint \in q.hints
  BY <1>1
<1>3. /\ Blocked(r) <=> Blocked(q)
      /\ CriticalWrite(r) <=> CriticalWrite(q)
      /\ ProtectedWrite(r) <=> ProtectedWrite(q)
  BY <1>1, <1>2 DEF Blocked, Injected, CriticalWrite, ProtectedWrite
<1>4. ForbiddenWrite(r) <=> ForbiddenWrite(q)
  BY <1>1, <1>3 DEF ForbiddenWrite
<1> QED BY <1>1, <1>2, <1>3, <1>4 DEF r

\* A request that was held and saved as it is asked the human no less than it
\* would require once it is read back (models.py:144, classifier.py:143).
THEOREM ReadBackAsksNoMore ==
    ASSUME NEW q \in Request, DecisionFor[Classify(q)] \in Held
    PROVE  DecisionFor[Classify(q)] \in
               {DecisionFor[Classify(Reload(q))], "REQUIRE_STRONG_APPROVAL"}
<1> DEFINE r == Reconcile(q)
           base == Policy[q.action]
<1>1. base \in Classes /\ Classify(q) \in {"SENSITIVE", "CRITICAL"}
  BY PolicyAssumption, ClassifyType DEF Request, DecisionFor, Classes, Held
<1>2. CASE ~Excessive(q.trust, Evidence(q.source, q.origin))
  BY <1>2 DEF Reload, Reconcile
<1>3. CASE /\ Excessive(q.trust, Evidence(q.source, q.origin))
           /\ Classify(q) = "SENSITIVE"
  <2>1. q.trust \notin {"EXTERNAL_CONTENT", "UNKNOWN"}
    BY <1>3 DEF Excessive, Evidence, TrustOf, TrustRank, Request, OriginTypes, ExternalOrigins
  <2>2. Classify(q) = Provenance(q, base)
    BY <1>1, <1>3, RankType DEF Classify, AtLeast, ClassRank, Classes
  <2>3. Classify(r) = Provenance(r, base)
    <3>1. ~Blocked(q) /\ ~ForbiddenWrite(q) /\ q.action # "get_runtime_context"
      BY <1>3 DEF Classify
    <3>2. ~CriticalWrite(q) /\ ~ProtectedWrite(q)
      BY <1>1, <1>3, <3>1 DEF Classify, AtLeast, ClassRank, Classes
    <3> QED BY <3>1, <3>2, ReconcileRules DEF Classify
  <2>4. AtLeast("SENSITIVE", base) = "SENSITIVE" /\ Provenance(q, base) = "SENSITIVE"
    BY <1>1, <1>3, <2>2 DEF Provenance, AtLeast, ClassRank, Classes
  <2>5. r.origin = q.origin /\ ("critical" \in r.hints <=> "critical" \in q.hints)
        /\ ("sensitive" \in r.hints <=> "sensitive" \in q.hints)
    BY ReconcileRules
  <2>6. Provenance(r, base) = "SENSITIVE"
    BY <2>1, <2>4, <2>5 DEF Provenance
  <2> QED BY <1>3, <2>3, <2>6 DEF Reload
<1>4. CASE Classify(q) = "CRITICAL"
  BY <1>4 DEF DecisionFor
<1> QED BY <1>1, <1>2, <1>3, <1>4

\* What a saved row required, and what the call it lets through requires.
RowFits == \A i \in Rows : status[i] # "ABSENT" => needed[i] = DecisionFor[Classify(request[i])]

FitOf(c) == \A i \in Rows : Deciding(c) /\ via[c] = <<"row", i>>
                            => /\ status[i] # "ABSENT"
                               /\ needed[i] \in {Required(c), "REQUIRE_STRONG_APPROVAL"}

\* A dry run does not get as far as the stores.
DryOf(c) == case[c].setup.dry => pc[c] \in {"idle", "evaluating", "recording"}

FitInv == RowFits /\ \A c \in Calls : FitOf(c) /\ DryOf(c)

RowsKept == \A i \in Rows : status[i] # "ABSENT" => /\ status'[i] # "ABSENT"
                                                    /\ needed'[i] = needed[i]

LEMMA FitRows ==
    ASSUME TypeOK, GateInv, OnceInv, RowFits, [Next]_vars
    PROVE  RowFits' /\ RowsKept
<1>0. status \in [Rows -> Status] /\ request \in [Rows -> Request] /\ needed \in [Rows -> Decisions]
  BY DEF TypeOK, RowsOK
<1>1. ASSUME UNCHANGED <<status, request, needed>> PROVE RowFits' /\ RowsKept
  BY <1>1 DEF RowFits, RowsKept
<1>2. ASSUME NEW i \in Rows, status[i] # "ABSENT", NEW to, to # "ABSENT",
             status' = [status EXCEPT ![i] = to], UNCHANGED <<request, needed>>
      PROVE  RowFits' /\ RowsKept
  BY <1>0, <1>2 DEF RowFits, RowsKept
<1>3. ASSUME NEW c \in Calls, Consume(c) PROVE RowFits' /\ RowsKept
  <2>1. CASE UNCHANGED <<status, request, needed>>
    BY <1>1, <2>1
  <2>2. ASSUME NEW i \in Rows, Oldest(i, Consumable(c)), status' = [status EXCEPT ![i] = "USED"],
               UNCHANGED <<request, needed>>
        PROVE  RowFits' /\ RowsKept
    BY <1>2, <2>2 DEF Oldest, Consumable
  <2> QED BY <1>3, <2>1, <2>2 DEF Consume
<1>4. ASSUME NEW c \in Calls, HoldBack(c) PROVE RowFits' /\ RowsKept
  <2>1. CASE UNCHANGED <<status, request, needed>>
    BY <1>1, <2>1
  <2>2. CASE /\ nextRow \in Rows
             /\ status' = [status EXCEPT ![nextRow] = "PENDING"]
             /\ request' = [request EXCEPT ![nextRow] = RequestOf(c)]
             /\ needed' = [needed EXCEPT ![nextRow] = Required(c)]
    <3>1. PICK row \in Rows : row = nextRow
      BY <2>2
    <3>2. status[row] = "ABSENT"
      BY <3>1 DEF OnceInv, Rows
    <3>3. /\ request'[row] = RequestOf(c) /\ needed'[row] = Required(c)
          /\ \A i \in Rows \ {row} : /\ status'[i] = status[i] /\ request'[i] = request[i]
                                     /\ needed'[i] = needed[i]
      BY <1>0, <2>2, <3>1
    <3>4. needed'[row] = DecisionFor[Classify(request'[row])]
      BY <3>3 DEF Required
    <3>5. RowsKept
      BY <3>2, <3>3 DEF RowsKept
    <3> QED BY <3>3, <3>4, <3>5 DEF RowFits
  <2> QED BY <1>4, <2>1, <2>2 DEF HoldBack
<1>5. ASSUME NEW i \in Rows, Approve(i) \/ Refuse(i) \/ Expire(i) PROVE RowFits' /\ RowsKept
  BY <1>2, <1>5 DEF Approve, Refuse, Expire, SetStatus
<1>6. ASSUME NEW c \in Calls,
             \/ \E k \in Cases : Arrive(c, k)
             \/ Evaluate(c) \/ Authorize(c) \/ Match(c) \/ Answer(c) \/ Record(c)
             \/ Run(c) \/ Poll(c) \/ WindowEnds(c) \/ Fail(c)
      PROVE  UNCHANGED <<status, request, needed>>
  BY <1>6 DEF Arrive, Evaluate, Authorize, Match, Answer, Record, Run, Poll,
              WindowEnds, Fail, approvals
<1>7. CASE Revoke \/ UNCHANGED vars
  BY <1>1, <1>7 DEF Revoke, vars, approvals
<1> QED BY <1>1, <1>3, <1>4, <1>5, <1>6, <1>7 DEF Next, Step

\* The row that is taken.
LEMMA ConsumedFits ==
    ASSUME TypeOK, GateInv, RowFits, RowsKept, NEW c \in Calls, NEW i \in Rows,
           Oldest(i, Consumable(c)), Settle(c, "ALLOW", <<"row", i>>, i)
    PROVE  FitOf(c)'
<1>1. status[i] = "APPROVED" /\ Reload(request[i]) = RequestOf(c)
  BY DEF Oldest, Consumable, Matching
<1>2. needed[i] \in Held /\ needed[i] = DecisionFor[Classify(request[i])] /\ request[i] \in Request
  BY <1>1 DEF GateInv, RowInv, RowFits, TypeOK, RowsOK
<1>3. needed[i] \in {Required(c), "REQUIRE_STRONG_APPROVAL"}
  BY <1>1, <1>2, ReadBackAsksNoMore DEF Required
<1>4. Required(c)' = Required(c)
  BY SettleMoves DEF Required, RequestOf
<1>5. status'[i] # "ABSENT" /\ needed'[i] = needed[i]
  BY <1>1 DEF RowsKept
<1>6. via'[c] = <<"row", i>>
  BY SettleMoves
<1> QED BY <1>3, <1>4, <1>5, <1>6 DEF FitOf

\* A call that goes on as it was, or has no row.
LEMMA RowlessFits ==
    ASSUME NEW c \in Calls,
           \/ ~Deciding(c)'
           \/ via'[c] \in {<<"policy", 0>>, <<"prompt", 0>>, <<"token", 0>>}
    PROVE  FitOf(c)'
<1>1. \A i : via'[c] = <<"row", i>> => via'[c][1] = "row"
  OBVIOUS
<1> QED BY <1>1 DEF FitOf

LEMMA SameFits ==
    ASSUME NEW c \in Calls, FitOf(c), RowsKept, case'[c] = case[c], via'[c] = via[c],
           Deciding(c)' => Deciding(c)
    PROVE  FitOf(c)'
BY DEF FitOf, RowsKept, Required, RequestOf

\* A step of one call.
LEMMA FitMoves ==
    ASSUME TypeOK, GateInv, FitInv, RowsKept, NEW c \in Calls,
           \/ \E k \in Cases : Arrive(c, k)
           \/ Step(c) \/ Answer(c) \/ Fail(c)
    PROVE  OnlyMoves(c) /\ FitOf(c)' /\ DryOf(c)'
<1>0. FitOf(c) /\ DryOf(c) /\ RowFits
  BY DEF FitInv
<1>1. ASSUME NEW result, NEW base, NEW row, Settle(c, result, base, row),
             base \in {<<"policy", 0>>, <<"prompt", 0>>, <<"token", 0>>}
      PROVE  OnlyMoves(c) /\ FitOf(c)' /\ DryOf(c)'
  BY <1>1, SettleMoves, RowlessFits DEF DryOf
<1>2. ASSUME NEW row, Deny(c, row) PROVE OnlyMoves(c) /\ FitOf(c)' /\ DryOf(c)'
  BY <1>1, <1>2 DEF Deny
<1>3. ASSUME Return(c) PROVE OnlyMoves(c) /\ FitOf(c)' /\ DryOf(c)'
  BY <1>3, ReturnMoves, RowlessFits DEF DryOf, Deciding
<1>4. ASSUME OnlyMoves(c), case'[c] = case[c], ~case[c].setup.dry,
             pc'[c] \in {"evaluating", "authorizing", "matching", "consuming", "prompting", "waiting"}
      PROVE  OnlyMoves(c) /\ FitOf(c)' /\ DryOf(c)'
  BY <1>4, RowlessFits DEF DryOf, Deciding
<1>5. ASSUME NEW phase, phase \in {"authorizing", "matching", "prompting", "waiting"},
             Goto(c, phase), Stay, ~case[c].setup.dry
      PROVE  OnlyMoves(c) /\ FitOf(c)' /\ DryOf(c)'
  BY <1>4, <1>5, StayMoves
<1>6. ASSUME NEW k \in Cases, Arrive(c, k) PROVE OnlyMoves(c) /\ FitOf(c)' /\ DryOf(c)'
  <2>1. OnlyMoves(c) /\ pc'[c] = "evaluating"
    BY <1>6 DEF Arrive, Goto, OnlyMoves, TypeOK, CallOK
  <2> QED BY <2>1, RowlessFits DEF DryOf, Deciding
<1>7. CASE Evaluate(c)
  BY <1>1, <1>2, <1>5, <1>7 DEF Evaluate, SkipsApproval
<1>8. ASSUME pc[c] \in {"authorizing", "matching", "consuming", "prompting", "waiting"}
      PROVE  ~case[c].setup.dry
  BY <1>0, <1>8 DEF DryOf
<1>9. CASE Authorize(c)
  BY <1>1, <1>2, <1>5, <1>8, <1>9 DEF Authorize
<1>10. CASE Match(c)
  <2>1. ASSUME Goto(c, "consuming"), UNCHANGED <<case, decision, via>>
        PROVE  OnlyMoves(c) /\ case'[c] = case[c] /\ pc'[c] = "consuming"
    BY <2>1 DEF Goto, OnlyMoves, TypeOK, CallOK
  <2> QED BY <1>1, <1>2, <1>4, <1>5, <1>8, <1>10, <2>1 DEF Match
<1>11. CASE Consume(c)
  <2>1. ASSUME NEW i \in Rows, Oldest(i, Consumable(c)), Settle(c, "ALLOW", <<"row", i>>, i)
        PROVE  OnlyMoves(c) /\ FitOf(c)' /\ DryOf(c)'
    BY <1>0, <2>1, ConsumedFits, SettleMoves DEF DryOf
  <2> QED BY <1>2, <1>11, <2>1 DEF Consume
<1>12. CASE HoldBack(c)
  BY <1>1, <1>3, <1>12 DEF HoldBack
<1>13. CASE Answer(c)
  BY <1>1, <1>2, <1>13 DEF Answer
<1>14. CASE Record(c)
  <2>1. CASE decision[c] = "ALLOW" /\ ~case[c].setup.dry /\ Goto(c, "running") /\ Stay
    <3>1. OnlyMoves(c) /\ case'[c] = case[c] /\ via'[c] = via[c]
      BY <2>1, StayMoves
    <3>2. Deciding(c)
      BY <1>14 DEF Record, Deciding
    <3> QED BY <1>0, <2>1, <3>1, <3>2, SameFits DEF DryOf
  <2>2. CASE decision[c] \in Held /\ MayWait(c) /\ Goto(c, "waiting") /\ Stay
    <3>1. case[c].setup \in SetupType
      BY CaseType DEF TypeOK, CallOK
    <3>2. ~case[c].setup.dry
      BY <2>2, <3>1 DEF MayWait, SetupType, ServerSetups
    <3> QED BY <1>5, <2>2, <3>2
  <2> QED BY <1>3, <1>14, <2>1, <2>2 DEF Record
<1>15. CASE Run(c) \/ Fail(c)
  BY <1>3, <1>15 DEF Run, Fail
<1>16. CASE Poll(c)
  <2>1. CASE ~Return(c)
    <3>1. OnlyMoves(c) /\ pc'[c] = "evaluating" /\ case'[c] = case[c]
      BY <1>16, <2>1 DEF Poll, Goto, OnlyMoves, TypeOK, CallOK
    <3> QED BY <1>4, <1>8, <1>16, <3>1 DEF Poll
  <2> QED BY <1>3, <2>1
<1>17. CASE WindowEnds(c)
  <2>1. UNCHANGED <<pc, case, decision, via>>
    BY <1>17 DEF WindowEnds
  <2> QED BY <1>0, <2>1, SameFits DEF OnlyMoves, DryOf, Deciding
<1> QED BY <1>6, <1>7, <1>9, <1>10, <1>11, <1>12, <1>13, <1>14, <1>15, <1>16, <1>17 DEF Step

LEMMA FitStep ==
    ASSUME TypeOK, GateInv, OnceInv, FitInv, [Next]_vars
    PROVE  FitInv'
<1>0. RowFits' /\ RowsKept
  BY FitRows DEF FitInv
<1>1. ASSUME NEW c \in Calls, case'[c] = case[c], via'[c] = via[c], pc'[c] = pc[c]
      PROVE  FitOf(c)' /\ DryOf(c)'
  BY <1>0, <1>1, SameFits DEF FitInv, DryOf, Deciding
<1>2. ASSUME NEW c \in Calls,
             \/ \E k \in Cases : Arrive(c, k)
             \/ Step(c) \/ Answer(c) \/ Fail(c)
      PROVE  FitInv'
  BY <1>0, <1>1, <1>2, FitMoves DEF FitInv, OnlyMoves
<1>3. CASE UNCHANGED call
  BY <1>0, <1>1, <1>3 DEF call, FitInv
<1>4. \/ UNCHANGED call
      \/ \E c \in Calls : \/ \E k \in Cases : Arrive(c, k)
                          \/ Step(c) \/ Answer(c) \/ Fail(c)
  BY DEF Next, Approve, Refuse, Expire, SetStatus, Revoke, vars
<1> QED BY <1>2, <1>3, <1>4

LEMMA Fitting == Spec => [](TypeOK /\ FitInv)
<1> DEFINE Inv == TypeOK /\ GateInv /\ OnceInv /\ FitInv
<1>1. Init => FitInv
  BY DEF Init, FitInv, RowFits, FitOf, DryOf, Deciding
<1>2. Init => Inv
  BY <1>1, TypeInitially, GateInitially, PaidInitially
<1>3. Inv /\ [Next]_vars => Inv'
  BY TypeInductive, GateInductive, OnceInductive, FitStep
<1>4. Inv => TypeOK /\ FitInv
  OBVIOUS
<1> QED BY <1>2, <1>3, <1>4, PTL DEF Spec

\* An approval that lets a call through asked at least what the call requires,
\* whoever was asked, when, and about which call (pending_approvals.py:535).
THEOREM ApprovalsFit == Spec => []ApprovalFits
<1>1. FitInv => ApprovalFits
  BY DEF FitInv, FitOf, ApprovalFits
<1> QED BY <1>1, Fitting, PTL

\* A dry run changes no store and runs nothing (gateway.py:96, mcp_gateway.py:36).
THEOREM DryRunsSpendNothing == Spec => DryRunSpendsNothing
<1> DEFINE Dry == \A c \in Calls : case[c].setup.dry /\ pc'[c] # pc[c]
                                   => UNCHANGED <<status, granted, uses, ran>>
<1>1. TypeOK /\ FitInv /\ [Next]_vars => [Dry]_vars
  <2> SUFFICES ASSUME TypeOK, FitInv, [Next]_vars,
                      NEW c \in Calls, case[c].setup.dry, pc'[c] # pc[c]
               PROVE  UNCHANGED <<status, granted, uses, ran>>
    OBVIOUS
  <2>1. pc[c] \in {"idle", "evaluating", "recording"}
    BY DEF FitInv, DryOf
  <2>2. PICK d \in Calls : \/ \E k \in Cases : Arrive(d, k)
                           \/ Step(d) \/ Answer(d) \/ Fail(d)
    BY DEF Next, Approve, Refuse, Expire, SetStatus, Revoke, vars, call
  <2>3. \A e \in Calls \ {d} : pc'[e] = pc[e]
    BY <2>2 DEF Step, Arrive, Evaluate, Authorize, Match, Consume, HoldBack, Record, Run, Poll,
               WindowEnds, Answer, Fail, Settle, Deny, Return, Goto, TypeOK, CallOK
  <2>4. d = c
    BY <2>3
  <2>5. \/ \E k \in Cases : Arrive(c, k)
        \/ Evaluate(c) \/ Record(c) \/ Fail(c)
    BY <2>1, <2>2, <2>4 DEF Step, Authorize, Match, Consume, HoldBack, Run, Poll,
                            WindowEnds, Answer
  <2> QED BY <2>5 DEF Arrive, Evaluate, Record, Fail, approvals, token, history
<1> QED BY <1>1, Fitting, PTL DEF Spec, DryRunSpendsNothing
=============================================================================
