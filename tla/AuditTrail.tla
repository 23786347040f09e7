----------------------------- MODULE AuditTrail -----------------------------
(***************************************************************************)
(* What the audit log says about a delegation token: the decisions of the  *)
(* gateways that consult the store of module Delegations, and their        *)
(* reconstruction by `agent-sudo audit trace` (agent_sudo/audit_trace.py). *)
(*                                                                         *)
(* A gateway spends a use inside the store's section and records its       *)
(* decision after it, so a process that dies in between leaves a use that  *)
(* no entry shows.  The appends themselves are module AuditLog; here the   *)
(* log is the sequence of what the trace reads in the entries: the reason, *)
(* parsed into the token that allowed the request and the mismatches it    *)
(* lists for each token, the delegation chain that the caller claims in    *)
(* the request's provenance, and whether the decision is ALLOW.  No        *)
(* decision reads the chain.  An entry that names no token in any of these *)
(* ways is left out: the trace skips it.                                   *)
(***************************************************************************)
EXTENDS Delegations, FiniteSets, Sequences

CONSTANTS Chains,        \* the delegation chains that callers claim
          MaxEntries     \* bound on the decisions recorded

ASSUME ChainsAssumption == Chains \subseteq SUBSET Tokens
ASSUME EntriesAssumption == MaxEntries \in Nat
ASSUME GatewaysAssumption == IsFiniteSet(Gateways)

VARIABLES log,       \* the gateway_decision entries, oldest first
          owed,      \* the entry each gateway is about to record
          disturbed  \* history: an unlocked reset overlapped another update

trail == <<log, owed, disturbed>>
allVars == <<vars, trail>>

Causes == {"token revoked", "token expired", "token exhausted",
           "denied action", "critical flag missing"}

\* by: the token of a "delegated by" reason, 0 for none.  cites: the causes of
\* the "mismatched:" segment of each token, {} for a token without one.  chain:
\* the tokens of provenance.delegation_chain.
EntryType == [by : 0..MaxToken, allow : BOOLEAN,
              cites : [Tokens -> SUBSET Causes], chain : SUBSET Tokens]

NoCites == [t \in Tokens |-> {}]
Nothing == [by |-> 0, allow |-> FALSE, cites |-> NoCites, chain |-> {}]

\* What the trace sees of an entry: nothing, if it names no token.
Seen(e) == IF e.by = 0 /\ e.cites = NoCites /\ e.chain = {} THEN Nothing ELSE e

TrailInit == /\ Init
             /\ log = <<>>
             /\ owed = [g \in Gateways |-> Nothing]
             /\ disturbed = FALSE

-----------------------------------------------------------------------------
\* The reason that _evaluate gives.

Mismatches(list, t, q) ==
    {cause \in Causes :
        \/ cause = "token revoked" /\ list[t].revoked
        \/ cause = "token expired" /\ expiry[t] <= now
        \/ cause = "token exhausted" /\ list[t].uses >= grantOf[t].maxUses
        \/ cause = "denied action" /\ Denies(t, q)
        \/ cause = "critical flag missing" /\ LacksCritical(t, q)}

FirstOf(set) == {t \in set : \A other \in set : t <= other}

\* Blocked by nothing but the missing flag.
OnlyCritical(list, q) ==
    {t \in Applying(list, q) : Mismatches(list, t, q) = {"critical flag missing"}}

\* The tokens whose mismatches the reason lists: the first that lacks only the
\* flag, or else every relevant token.  An allowance and an explicit denial
\* list none.
Listed(list, q) ==
    IF \/ FullMatches(list, q) # {}
       \/ \E t \in Applying(list, q) : Denies(t, q)
    THEN {}
    ELSE IF OnlyCritical(list, q) # {} THEN FirstOf(OnlyCritical(list, q))
    ELSE Applying(list, q)

Cites(list, q) == [t \in Tokens |-> IF t \in Listed(list, q)
                                    THEN Mismatches(list, t, q) ELSE {}]

Payer(list, q) == IF FullMatches(list, q) = {} THEN 0
                  ELSE CHOOSE t \in FirstOf(FullMatches(list, q)) : TRUE

\* Whether the request is let through.  A question is settled by an approval,
\* and keeps the reason of the store in front of its own.
Answers(list, q) == IF Verdict(list, q) = "ask" THEN BOOLEAN
                    ELSE {Verdict(list, q) = "allow"}

EntryOf(list, q, allow, chain) ==
    [by |-> Payer(list, q), allow |-> allow, cites |-> Cites(list, q),
     chain |-> chain]

\* The entries evaluate() may come to.
Outcomes(list, q) == {Seen(EntryOf(list, q, allow, chain)) :
                        allow \in Answers(list, q), chain \in Chains}

-----------------------------------------------------------------------------
\* The steps of Delegations, with what they leave to be recorded.  A gateway
\* evaluates its next request when it has recorded the last.

CallFree(g, q) == /\ owed[g] = Nothing
                  /\ CallAuthorize(g, q)
                  /\ UNCHANGED trail

Evaluate(g) == /\ Authorize(g)
               /\ \E entry \in Outcomes(tokens[g], req[g]) :
                     owed' = [owed EXCEPT ![g] = entry]
               /\ UNCHANGED <<log, disturbed>>

\* A decision that names no token by its reason: the policy settles the request
\* without the store, or the store's lock is not had in time.
DecideAlone(g) ==
    /\ pc[g] = "idle" /\ owed[g] = Nothing
    /\ \E allow \in BOOLEAN, chain \in Chains \ {{}} :
          owed' = [owed EXCEPT ![g] = [Nothing EXCEPT !.allow = allow, !.chain = chain]]
    /\ UNCHANGED <<vars, log, disturbed>>

RecordDecision(g) == /\ owed[g] # Nothing
                     /\ Len(log) < MaxEntries
                     /\ log' = Append(log, owed[g])
                     /\ owed' = [owed EXCEPT ![g] = Nothing]
                     /\ UNCHANGED <<vars, disturbed>>

\* The process dies, or the append raises, before the entry is in the log.
Lose(g) == /\ owed[g] # Nothing
           /\ owed' = [owed EXCEPT ![g] = Nothing]
           /\ UNCHANGED <<vars, log, disturbed>>

\* A reset whose read and save are not one step: a writer is in its section, or
\* the file has changed since.
Overlaps(x) == /\ pc[x] = "resetting"
               /\ file' # file
               /\ lock # None \/ tokens[x] # file

Elsewhere == /\ Others
             /\ disturbed' = (disturbed \/ \E x \in Resetters : Overlaps(x))
             /\ UNCHANGED <<log, owed>>

TrailNext == \/ \E g \in Gateways : \/ \E q \in Requests : CallFree(g, q)
                                    \/ Evaluate(g)
                                    \/ DecideAlone(g)
                                    \/ RecordDecision(g)
                                    \/ Lose(g)
             \/ Elsewhere

TrailSpec == TrailInit /\ [][TrailNext]_allVars

-----------------------------------------------------------------------------
\* build_trace: the view of one token.

\* Mutant of IsConsume: every ALLOW that names the token counts.
AllowNaming(e, t) == e.allow

IsConsume(e, t) == e.by = t \/ (t \in e.chain /\ e.allow)

\* Mutant of Segment: the causes of all the tokens of the reason.
WholeReason(e, t) == UNION {e.cites[s] : s \in Tokens}

\* _token_segment
Segment(e, t) == e.cites[t]

References(t) == {n \in DOMAIN log : \/ log[n].by = t
                                      \/ log[n].cites[t] # {}
                                      \/ t \in log[n].chain}

ObservedConsumes(t) == Cardinality({n \in References(t) : IsConsume(log[n], t)})

InferredCauses(t) == UNION {Segment(log[n], t) :
                              n \in {r \in References(t) : ~IsConsume(log[r], t)}}

-----------------------------------------------------------------------------
TrailOK == /\ TypeOK
           /\ log \in Seq(EntryType) /\ Len(log) <= MaxEntries
           /\ owed \in [Gateways -> EntryType]
           /\ disturbed \in BOOLEAN

\* A token whose revocation has completed never allows again, unless an
\* unlocked reset overlapped another update of the file.
RevocationKept == ~disturbed => RevocationSticks

\* With the same exception, a request that was not allowed becomes allowed only
\* by the creation of a token: never by a use, a revocation, a reset, the clock
\* or a crash.
AuthorityKept ==
    [][~disturbed => \A q \in Requests : /\ Verdict(file, q) # "allow"
                                         /\ Verdict(file, q)' = "allow"
                                         => nextToken' # nextToken]_<<store, now>>

\* Every use of a token that the trace observes was counted by the store,
\* except those that an allowed call only claimed: its delegation chain names
\* the token, and its reason does not (audit_trace.py:171-177).
Owed(t) == Cardinality({g \in Gateways : owed[g].by = t})

OnlyClaims(e, t) == e.by # t /\ t \in e.chain /\ e.allow

ClaimedUses(t) == Cardinality({n \in DOMAIN log : OnlyClaims(log[n], t)})

UncountedAreClaimed ==
    ~disturbed => \A t \in Tokens :
        ObservedConsumes(t) + Owed(t) <= file[t].uses + ClaimedUses(t)

\* What the trace gives as the cause of a denial is so: it was true when the
\* request was denied, still is, and is about this token although a reason
\* names others too (audit_trace.py:94-106).
Holds(cause, t) ==
    \/ cause = "token revoked" /\ file[t].revoked
    \/ cause = "token expired" /\ expiry[t] <= now
    \/ cause = "token exhausted" /\ file[t].uses >= grantOf[t].maxUses
    \/ cause = "denied action" /\ grantOf[t].denied # {}
    \/ cause = "critical flag missing" /\ ~grantOf[t].critical

CausesHold ==
    ~disturbed => \A t \in Tokens : \A cause \in InferredCauses(t) : Holds(cause, t)
=============================================================================
