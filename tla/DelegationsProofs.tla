------------------------- MODULE DelegationsProofs --------------------------
(***************************************************************************)
(* The delegation store and what the audit log says about its tokens, for  *)
(* any number of processes, tokens, requests, grants and entries: no token *)
(* allows more requests than its max_uses.  Unless an unlocked reset       *)
(* overlaps another update of the store, a revocation is for good,         *)
(* authority is only created, and the trace tells neither a use that the   *)
(* store has not counted nor a cause that is not so.                       *)
(***************************************************************************)
EXTENDS AuditTrail, FiniteSetTheorems, TLAPS

LEMMA ConstantFacts ==
    /\ Gateways \subseteq Procs /\ Managers \subseteq Procs
    /\ Resetters \subseteq Procs
    /\ NoRow \in Row /\ NewRow \in Row /\ Blank \in [Tokens -> Row]
    /\ 1 \in Tokens /\ 1 \in 1..(MaxToken + 1) /\ Tokens \subseteq Int
    /\ \A t \in Tokens : t + 1 \in 1..(MaxToken + 1)
    /\ \A g \in Grants : g.ttl \in Nat /\ g.maxUses \in Int
    /\ {"idle", "authorize", "authorizing", "create", "creating", "revoke",
        "revoking", "resetting"} \subseteq Phases
  BY BoundsAssumption, DataAssumption
  DEF Procs, Tokens, NoRow, NewRow, Blank, Row, GrantType, Phases

LEMMA ReturnType == ASSUME TypeOK, NEW p \in Procs, Return(p)
                    PROVE  /\ pc' \in [Procs -> Phases] /\ ArgsOK'
                           /\ tokens' \in [Procs -> [Tokens -> Row]]
  BY ConstantFacts DEF TypeOK, ControlOK, ArgsOK, Return, Goto

LEMMA UnlockType == ASSUME TypeOK, NEW p \in Procs, Unlock(p)
                    PROVE  lock' \in Procs \cup {None}
  BY DEF TypeOK, ControlOK, Unlock

\* Nat-valued use counts survive one more use.
LEMMA RowUpdate ==
    ASSUME NEW list \in [Tokens -> Row], NEW t \in Tokens
    PROVE  /\ [list EXCEPT ![t].uses = @ + 1] \in [Tokens -> Row]
           /\ Recall(list, t) \in [Tokens -> Row]
           /\ [list EXCEPT ![t] = NewRow] \in [Tokens -> Row]
<1>1. list[t] \in Row
  OBVIOUS
<1>2. ASSUME NEW row \in Row
      PROVE  /\ [row EXCEPT !.uses = @ + 1] \in Row
             /\ [row EXCEPT !.revoked = TRUE] \in Row
  <2>1. row.uses + 1 \in Nat
    BY DEF Row
  <2> QED BY <2>1 DEF Row
<1>3. NewRow \in Row
  BY ConstantFacts
<1> QED BY <1>1, <1>2, <1>3 DEF Recall

LEMMA TypeInductive == TypeOK /\ [Next]_vars => TypeOK'
<1> SUFFICES ASSUME TypeOK, [Next]_vars PROVE TypeOK'
  OBVIOUS
<1> USE ConstantFacts DEF TypeOK
<1>1. ASSUME NEW g \in Procs, NEW q \in Requests, CallAuthorize(g, q)
      PROVE  TypeOK'
  BY <1>1 DEF CallAuthorize, Call, Goto, store, history, StoreOK, ControlOK,
              ArgsOK, HistoryOK
<1>2. ASSUME NEW m \in Procs, NEW new \in Grants, CallCreate(m, new)
      PROVE  TypeOK'
  <2>1. Due(new) \in Nat
    BY DEF Due
  <2>2. ArgsOK'
    BY <1>2, <2>1 DEF CallCreate, ArgsOK
  <2> QED BY <1>2, <2>2 DEF CallCreate, Call, Goto, store, history, StoreOK,
                            ControlOK, HistoryOK
<1>3. ASSUME NEW m \in Procs, NEW t \in Tokens, CallRevoke(m, t) PROVE TypeOK'
  BY <1>3 DEF CallRevoke, Call, Goto, store, history, StoreOK, ControlOK,
              ArgsOK, HistoryOK
<1>4. ASSUME NEW p \in Procs, Acquire(p) PROVE TypeOK'
  <2>1. tokens' \in [Procs -> [Tokens -> Row]]
    BY <1>4 DEF Acquire, StoreOK
  <2>2. Locked[pc[p]] \in Phases
    BY <1>4 DEF Acquire, Locked
  <2> QED BY <1>4, <2>1, <2>2 DEF Acquire, Goto, store, args, history, StoreOK,
                                  ControlOK, ArgsOK, HistoryOK
<1>5. ASSUME NEW g \in Procs, Authorize(g) PROVE TypeOK'
  <2>1. file' \in [Tokens -> Row] /\ uses' \in [Tokens -> Nat]
    <3>1. CASE UNCHANGED <<file, uses>>
      BY <3>1 DEF StoreOK, HistoryOK
    <3>2. ASSUME NEW t \in Tokens,
                 file' = [tokens[g] EXCEPT ![t].uses = @ + 1],
                 uses' = [uses EXCEPT ![t] = @ + 1]
          PROVE  file' \in [Tokens -> Row] /\ uses' \in [Tokens -> Nat]
      BY <3>2, RowUpdate DEF HistoryOK
    <3> QED BY <1>5, <3>1, <3>2 DEF Authorize, FullMatches, Applying
  <2> QED BY <1>5, <2>1, ReturnType, UnlockType
          DEF Authorize, StoreOK, ControlOK, HistoryOK
<1>6. ASSUME NEW m \in Procs, Create(m) PROVE TypeOK'
  <2>1. StoreOK'
    <3>1. CASE UNCHANGED store
      BY <3>1 DEF store, StoreOK
    <3>2. CASE nextToken \in Tokens
      <4>1. file' \in [Tokens -> Row]
        BY <1>6, <3>2, RowUpdate DEF Create
      <4>2. grantOf' \in [Tokens -> Grants \cup {None}]
        BY <1>6, <3>2 DEF Create, StoreOK, ArgsOK
      <4>3. expiry' \in [Tokens -> Nat]
        BY <1>6, <3>2 DEF Create, StoreOK, ArgsOK
      <4> QED BY <1>6, <3>2, <4>1, <4>2, <4>3 DEF Create, StoreOK
    <3> QED BY <1>6, <3>1, <3>2 DEF Create
  <2> QED BY <1>6, <2>1, ReturnType, UnlockType
          DEF Create, history, ControlOK, HistoryOK
<1>7. ASSUME NEW m \in Procs, Revoke(m) PROVE TypeOK'
  <2>1. file' \in [Tokens -> Row] /\ recalled' \in SUBSET Tokens
    <3>1. chosen[m] \in Tokens /\ tokens[m] \in [Tokens -> Row]
      BY DEF ArgsOK
    <3>2. Recall(tokens[m], chosen[m]) \in [Tokens -> Row]
      BY <3>1, RowUpdate
    <3> QED BY <1>7, <3>1, <3>2 DEF Revoke, HistoryOK
  <2> QED BY <1>7, <2>1, ReturnType, UnlockType
          DEF Revoke, StoreOK, ControlOK, HistoryOK
<1>8. ASSUME NEW x \in Procs, ResetRead(x) PROVE TypeOK'
  BY <1>8 DEF ResetRead, Goto, store, args, history, StoreOK, ControlOK,
              ArgsOK, HistoryOK
<1>9. ASSUME NEW x \in Procs, ResetSave(x) PROVE TypeOK'
  <2>1. file' \in [Tokens -> Row] /\ recalled' \in SUBSET Tokens
    <3>1. \A t \in Tokens :
             [tokens[x][t] EXCEPT !.revoked = tokens[x][t].there] \in Row
      <4>1. tokens[x] \in [Tokens -> Row]
        BY DEF ArgsOK
      <4>2. ASSUME NEW row \in Row
            PROVE  [row EXCEPT !.revoked = row.there] \in Row
        BY DEF Row
      <4> QED BY <4>1, <4>2
    <3> QED BY <1>9, <3>1 DEF ResetSave, StoreOK, HistoryOK
  <2> QED BY <1>9, <2>1, ReturnType DEF ResetSave, StoreOK, ControlOK, HistoryOK
<1>10. ASSUME NEW p \in Procs, Abort(p) PROVE TypeOK'
  BY <1>10, ReturnType, UnlockType
  DEF Abort, store, history, StoreOK, ControlOK, HistoryOK
<1>11. CASE Tick \/ UNCHANGED vars
  <2>1. now' \in Nat
    BY <1>11 DEF Tick, vars
  <2> QED BY <1>11, <2>1 DEF Tick, vars, store, args, control, history, StoreOK,
                             ControlOK, ArgsOK, HistoryOK
<1> QED BY <1>1, <1>2, <1>3, <1>4, <1>5, <1>6, <1>7, <1>8, <1>9, <1>10, <1>11
        DEF Next, Others

\* The delegation store, and what every process remembers of it, stays
\* well-formed: use counts never leave the naturals.
THEOREM TypeCorrect == Spec => []TypeOK
<1>1. Init => TypeOK
  BY ConstantFacts
  DEF Init, TypeOK, StoreOK, ControlOK, ArgsOK, HistoryOK
<1> QED BY <1>1, TypeInductive, PTL DEF Spec

-----------------------------------------------------------------------------
\* Whoever is between reading the file and saving it has the lock.
InSection(p) == pc[p] \in {"authorizing", "creating", "revoking"}

LockInv == \A p \in Procs : InSection(p) => lock = p

\* The use count of a token that may still allow is the true one.  A revoked
\* token's may be stale: an unlocked reset writes back what it read before.
Counts(list) == \A t \in Tokens : list[t].there /\ ~list[t].revoked
                                    => t < nextToken /\ list[t].uses = uses[t]

FileInv == Counts(file)

ListInv == \A p \in Procs : InSection(p) => Counts(tokens[p])

GrantInv == \A t \in Tokens :
               /\ t < nextToken => grantOf[t] \in Grants
               /\ t >= nextToken => uses[t] = 0
               /\ uses[t] > 0 => uses[t] <= grantOf[t].maxUses

\* A manager that creates a token has its grant.
OfferInv == \A m \in Procs : pc[m] \in {"create", "creating"} => offer[m] \in Grants

UseInv == LockInv /\ FileInv /\ ListInv /\ GrantInv /\ OfferInv

\* The step takes p out of its section, or leaves it outside, and touches no
\* other process; if it changes the lock, it releases the lock of p.
Leaves(p) == /\ \A q \in Procs \ {p} : /\ pc'[q] = pc[q] /\ tokens'[q] = tokens[q]
                                       /\ offer'[q] = offer[q]
             /\ pc'[p] \notin {"create", "creating", "authorizing", "revoking"}
             /\ UNCHANGED lock \/ Unlock(p)

LEMMA Alone == ASSUME LockInv, NEW p \in Procs, NEW q \in Procs,
                      InSection(p), InSection(q)
               PROVE  p = q
  BY DEF LockInv

LEMMA ReturnLeaves == ASSUME TypeOK, NEW p \in Procs, Return(p),
                             UNCHANGED lock \/ Unlock(p)
                      PROVE  Leaves(p)
  BY DEF TypeOK, ControlOK, ArgsOK, Return, Goto, Leaves

LEMMA LeavesKeeps ==
    ASSUME UseInv, NEW p \in Procs, Leaves(p)
    PROVE  /\ LockInv' /\ OfferInv'
           /\ UNCHANGED <<nextToken, uses>> => ListInv'
<1>1. LockInv' /\ OfferInv'
  BY DEF UseInv, LockInv, OfferInv, InSection, Leaves, Unlock
<1>2. ASSUME UNCHANGED <<nextToken, uses>> PROVE ListInv'
  <2>1. ASSUME NEW q \in Procs, InSection(q)' PROVE Counts(tokens[q])'
    <3>1. q # p /\ InSection(q) /\ tokens'[q] = tokens[q]
      BY <2>1 DEF Leaves, InSection
    <3> QED BY <1>2, <3>1 DEF UseInv, ListInv, Counts
  <2> QED BY <2>1 DEF ListInv
<1> QED BY <1>1, <1>2

LEMMA LeavesEmpty ==
    ASSUME UseInv, NEW p \in Procs, InSection(p), Leaves(p)
    PROVE  LockInv' /\ OfferInv' /\ ListInv'
<1>1. \A q \in Procs : ~InSection(q)'
  BY Alone DEF UseInv, InSection, Leaves
<1> QED BY <1>1, LeavesKeeps DEF ListInv, InSection

LEMMA Quiet == ASSUME UseInv, UNCHANGED <<store, uses>>
               PROVE  FileInv' /\ GrantInv'
  BY DEF UseInv, FileInv, GrantInv, Counts, store

-----------------------------------------------------------------------------
\* The use is paid for by a token that had one left: its count in the list is
\* the true one, because the list was read under the lock and the token is not
\* revoked in it.
LEMMA AuthorizeUse == ASSUME TypeOK, UseInv, NEW g \in Procs, Authorize(g)
                      PROVE  UseInv'
<1>1. InSection(g) /\ Leaves(g) /\ Counts(tokens[g])
  BY ReturnLeaves DEF Authorize, InSection, UseInv, ListInv
<1>2. CASE UNCHANGED <<file, uses>>
  BY <1>1, <1>2, Quiet, LeavesEmpty DEF Authorize, store, UseInv
<1>3. ASSUME NEW t \in FullMatches(tokens[g], req[g]),
             file' = [tokens[g] EXCEPT ![t].uses = @ + 1],
             uses' = [uses EXCEPT ![t] = @ + 1]
      PROVE  UseInv'
  <2>1. /\ t \in Tokens /\ tokens[g][t].there /\ ~tokens[g][t].revoked
        /\ ~(tokens[g][t].uses >= grantOf[t].maxUses)
    BY <1>3 DEF FullMatches, Applying, Unusable
  <2>2. t < nextToken /\ tokens[g][t].uses = uses[t]
    BY <1>1, <2>1 DEF Counts
  <2>3. grantOf[t].maxUses \in Int /\ uses[t] \in Nat
    BY <2>1, <2>2, ConstantFacts DEF UseInv, GrantInv, TypeOK, HistoryOK
  <2>4. uses[t] + 1 <= grantOf[t].maxUses
    BY <2>1, <2>2, <2>3
  <2>5. UNCHANGED <<nextToken, grantOf>>
    BY DEF Authorize
  <2>6. \A s \in Tokens : uses'[s] = IF s = t THEN uses[s] + 1 ELSE uses[s]
    BY <1>3, <2>1 DEF TypeOK, HistoryOK
  <2>7. nextToken \in Int /\ t \in Int
    BY <2>1, BoundsAssumption DEF TypeOK, StoreOK, Tokens
  <2>8. GrantInv'
    BY <2>2, <2>4, <2>5, <2>6, <2>7 DEF UseInv, GrantInv, Tokens
  <2>9. FileInv'
    <3>1. tokens[g] \in [Tokens -> Row]
      BY DEF TypeOK
    <3>2. \A s \in Tokens : /\ file'[s].there = tokens[g][s].there
                            /\ file'[s].revoked = tokens[g][s].revoked
                            /\ file'[s].uses = IF s = t THEN tokens[g][s].uses + 1
                                              ELSE tokens[g][s].uses
      BY <1>3, <2>1, <3>1 DEF Row
    <3> QED BY <1>1, <2>2, <2>5, <2>6, <3>2 DEF FileInv, Counts
  <2> QED BY <1>1, <2>8, <2>9, LeavesEmpty DEF UseInv
<1> QED BY <1>2, <1>3 DEF Authorize

LEMMA CreateUse == ASSUME TypeOK, UseInv, NEW m \in Procs, Create(m)
                   PROVE  UseInv'
<1>1. InSection(m) /\ Leaves(m) /\ Counts(tokens[m])
  BY ReturnLeaves DEF Create, InSection, UseInv, ListInv
<1>2. CASE UNCHANGED store
  BY <1>1, <1>2, Quiet, LeavesEmpty DEF Create, history, UseInv
<1>3. CASE nextToken \in Tokens
  <2>1. /\ nextToken' = nextToken + 1 /\ nextToken \in Int
        /\ UNCHANGED uses /\ uses[nextToken] = 0
    BY <1>3, ConstantFacts DEF Create, history, UseInv, GrantInv
  <2>2. /\ offer[m] \in Grants
        /\ \A t \in Tokens : grantOf'[t] = IF t = nextToken THEN offer[m]
                                           ELSE grantOf[t]
    BY <1>3 DEF Create, UseInv, OfferInv, TypeOK, StoreOK
  <2>3. GrantInv'
    BY <2>1, <2>2 DEF UseInv, GrantInv, Tokens
  <2>4. \A t \in Tokens : file'[t] = IF t = nextToken THEN NewRow ELSE tokens[m][t]
    BY <1>3 DEF Create, TypeOK
  <2>5. FileInv'
    BY <1>1, <2>1, <2>4 DEF FileInv, Counts, NewRow, Tokens
  <2> QED BY <1>1, <2>3, <2>5, LeavesEmpty DEF UseInv
<1> QED BY <1>2, <1>3 DEF Create

LEMMA RevokeUse == ASSUME TypeOK, UseInv, NEW m \in Procs, Revoke(m)
                   PROVE  UseInv'
<1>1. InSection(m) /\ Leaves(m) /\ Counts(tokens[m])
  BY ReturnLeaves DEF Revoke, InSection, UseInv, ListInv
<1>2. UNCHANGED <<grantOf, nextToken, uses>>
  BY DEF Revoke
<1>3. \A t \in Tokens : file'[t].there /\ ~file'[t].revoked
                          => file'[t] = tokens[m][t]
  <2>1. tokens[m] \in [Tokens -> Row]
    BY DEF TypeOK
  <2> QED BY <2>1 DEF Revoke, Recall, Row
<1>4. FileInv'
  BY <1>1, <1>2, <1>3 DEF FileInv, Counts
<1>5. GrantInv'
  BY <1>2 DEF UseInv, GrantInv
<1> QED BY <1>1, <1>4, <1>5, LeavesEmpty DEF UseInv

\* The unlocked reset may write back stale use counts, but only of tokens it
\* revokes in the same save.
LEMMA ResetUse == ASSUME TypeOK, UseInv, NEW x \in Procs, ResetSave(x)
                  PROVE  UseInv'
<1>1. Leaves(x) /\ UNCHANGED <<grantOf, nextToken, uses>>
  BY ReturnLeaves DEF ResetSave
<1>2. CASE UNCHANGED file
  BY <1>1, <1>2, LeavesKeeps DEF UseInv, FileInv, GrantInv, Counts
<1>3. CASE file' = [t \in Tokens |->
                      [tokens[x][t] EXCEPT !.revoked = tokens[x][t].there]]
  <2>1. \A t \in Tokens : tokens[x][t] \in Row
    BY DEF TypeOK
  <2>2. \A t \in Tokens : ~file'[t].there \/ file'[t].revoked
    BY <1>3, <2>1 DEF Row
  <2> QED BY <1>1, <2>2, LeavesKeeps DEF UseInv, FileInv, GrantInv, Counts
<1> QED BY <1>2, <1>3 DEF ResetSave

LEMMA OutsideUse ==
    ASSUME TypeOK, UseInv, NEW p \in Procs,
           \/ \E q \in Requests : CallAuthorize(p, q)
           \/ \E t \in Tokens : CallRevoke(p, t)
           \/ ResetRead(p) \/ Abort(p)
    PROVE  UseInv'
<1>1. UNCHANGED <<store, uses>>
  BY DEF CallAuthorize, CallRevoke, Call, ResetRead, Abort, history
<1>2. Leaves(p)
  <2>1. CASE Abort(p)
    BY <2>1, ReturnLeaves DEF Abort
  <2>2. CASE ResetRead(p)
    BY <2>2 DEF ResetRead, Goto, args, TypeOK, ControlOK, Leaves
  <2>3. ASSUME NEW method \in {"authorize", "revoke"}, Call(p, method),
               UNCHANGED offer
        PROVE  Leaves(p)
    BY <2>3 DEF Call, Goto, TypeOK, ControlOK, Leaves
  <2> QED BY <2>1, <2>2, <2>3 DEF CallAuthorize, CallRevoke
<1> QED BY <1>1, <1>2, Quiet, LeavesKeeps DEF UseInv, store

LEMMA EnterUse ==
    ASSUME TypeOK, UseInv, NEW p \in Procs,
           Acquire(p) \/ \E new \in Grants : CallCreate(p, new)
    PROVE  UseInv'
<1>1. UNCHANGED <<store, uses>>
  BY DEF Acquire, CallCreate, Call, history
<1>2. CASE Acquire(p)
  <2>1. \A q \in Procs : ~InSection(q)
    BY <1>2, NoneAssumption DEF Acquire, MayEnter, UseInv, LockInv
  <2>2. /\ \A q \in Procs \ {p} : pc'[q] = pc[q]
        /\ tokens'[p] = file /\ lock' = p /\ UNCHANGED offer
        /\ pc'[p] = "creating" => pc[p] = "create"
        /\ pc'[p] # "create"
    BY <1>2 DEF Acquire, Goto, Locked, args, TypeOK, ControlOK
  <2>3. LockInv' /\ OfferInv'
    BY <2>1, <2>2 DEF LockInv, UseInv, OfferInv, InSection
  <2>4. ListInv'
    <3>1. \A q \in Procs : InSection(q)' => q = p
      BY <2>1, <2>2 DEF InSection
    <3>2. Counts(file) /\ UNCHANGED <<nextToken, uses>>
      BY <1>1 DEF UseInv, FileInv, store
    <3> QED BY <2>2, <3>1, <3>2 DEF ListInv, Counts
  <2> QED BY <1>1, <2>3, <2>4, Quiet DEF UseInv
<1>3. ASSUME NEW new \in Grants, CallCreate(p, new) PROVE UseInv'
  <2>1. /\ \A q \in Procs \ {p} : pc'[q] = pc[q] /\ offer'[q] = offer[q]
        /\ pc'[p] = "create" /\ offer'[p] = new /\ UNCHANGED <<lock, tokens>>
    BY <1>3 DEF CallCreate, Call, Goto, TypeOK, ControlOK, ArgsOK
  <2>2. LockInv' /\ OfferInv'
    BY <2>1 DEF UseInv, LockInv, OfferInv, InSection
  <2>3. ListInv'
    BY <1>1, <2>1 DEF UseInv, ListInv, InSection, Counts, store
  <2> QED BY <1>1, <2>2, <2>3, Quiet DEF UseInv
<1> QED BY <1>2, <1>3

-----------------------------------------------------------------------------
LEMMA UseInductive == TypeOK /\ UseInv /\ [Next]_vars => UseInv'
<1> SUFFICES ASSUME TypeOK, UseInv, [Next]_vars PROVE UseInv'
  OBVIOUS
<1>1. CASE Tick \/ UNCHANGED vars
  <2>1. UNCHANGED <<store, lock, pc, offer, tokens, uses>>
    BY <1>1 DEF Tick, vars, args, control, history
  <2> QED BY <2>1, Quiet DEF UseInv, LockInv, ListInv, OfferInv, InSection,
                             Counts, store
<1>2. CASE Next
  BY <1>1, <1>2, ConstantFacts, AuthorizeUse, CreateUse, RevokeUse, ResetUse,
     OutsideUse, EnterUse
  DEF Next, Others
<1> QED BY <1>1, <1>2

LEMMA UseCorrect == Spec => []UseInv
<1>1. Init => UseInv
  BY ConstantFacts
  DEF Init, Blank, NoRow, UseInv, LockInv, FileInv, ListInv, GrantInv, OfferInv,
      InSection, Counts, Tokens
<1> QED BY <1>1, UseInductive, TypeCorrect, PTL DEF Spec

\* No token allows more requests than its max_uses, for any number of racing
\* gateways, with crashes at any point and with passphrase resets that write
\* stale use counts back without the lock (delegations.py:130-183).
THEOREM UsesBounded == Spec => []WithinMaxUses
<1>1. UseInv => WithinMaxUses
  BY DEF UseInv, GrantInv, WithinMaxUses
<1> QED BY <1>1, UseCorrect, PTL

-----------------------------------------------------------------------------
LEMMA SameRows ==
    ASSUME NEW q \in Requests, NEW list, NEW rest,
           Applying(rest, q) = Applying(list, q),
           \A t \in Applying(list, q) : rest[t] = list[t]
    PROVE  Verdict(rest, q) = Verdict(list, q)
<1>1. \A t \in Applying(list, q) : Unusable(rest, t, q) <=> Unusable(list, t, q)
  BY DEF Unusable
<1>2. FullMatches(rest, q) = FullMatches(list, q)
  BY <1>1 DEF FullMatches
<1> QED BY <1>1, <1>2 DEF Verdict

\* The verdict on a request depends on the tokens for its actor, action and
\* target alone, whatever else the store holds (issue #77).
THEOREM UnrelatedNeverMatter == UnrelatedIgnored
<1> SUFFICES ASSUME NEW q \in Requests, NEW unrelated,
                    unrelated = {t \in Tokens : file[t].there /\ ~Relevant(t, q)}
             PROVE  Verdict(file, q) = Verdict(Without(file, unrelated), q)
  BY DEF UnrelatedIgnored
<1>1. \A t \in Tokens : Without(file, unrelated)[t] = IF t \in unrelated
                                                     THEN NoRow ELSE file[t]
  BY DEF Without
<1>2. Applying(Without(file, unrelated), q) = Applying(file, q)
  BY <1>1 DEF Applying, NoRow
<1>3. \A t \in Applying(file, q) : Without(file, unrelated)[t] = file[t]
  BY <1>1 DEF Applying
<1> QED BY <1>2, <1>3, SameRows

-----------------------------------------------------------------------------
\* The store with its audit log.
\* Recording adds nothing to what the store does.
LEMMA StoreStep == [TrailNext]_allVars => [Next]_vars
  BY DEF TrailNext, CallFree, Evaluate, DecideAlone, RecordDecision, Lose, Elsewhere, Next, Others,
         allVars

\* The gateways that record what they decide use the store of Delegations.
THEOREM TrailUsesStore == TrailSpec => Spec
<1>1. TrailInit => Init
  BY DEF TrailInit
<1> QED BY <1>1, StoreStep, PTL DEF TrailSpec, Spec

\* No token allows more requests than its max_uses.
THEOREM TrailUsesBounded == TrailSpec => []WithinMaxUses
  BY TrailUsesStore, UsesBounded, PTL

-----------------------------------------------------------------------------
\* Type correctness of what is recorded.
EntriesOK == /\ log \in Seq(EntryType) /\ Len(log) <= MaxEntries
             /\ owed \in [Gateways -> EntryType]
             /\ disturbed \in BOOLEAN

LEMMA EntryFacts == /\ Nothing \in EntryType
                    /\ Tokens \subseteq 0..MaxToken
                    /\ \A list, q : Cites(list, q) \in [Tokens -> SUBSET Causes]
<1>1. \A list, t, q : Mismatches(list, t, q) \subseteq Causes
  BY DEF Mismatches
<1> QED BY <1>1, BoundsAssumption
        DEF Nothing, NoCites, EntryType, Tokens, Cites

LEMMA TheFirst == ASSUME NEW S \in SUBSET Int, NEW t \in S, \A other \in S : t <= other
                  PROVE  FirstOf(S) = {t}
<1>1. ASSUME NEW s \in S, \A other \in S : s <= other PROVE s = t
  BY <1>1
<1> QED BY <1>1 DEF FirstOf

LEMMA PayerIsFirst ==
    ASSUME NEW list, NEW q, NEW t \in FullMatches(list, q),
           \A other \in FullMatches(list, q) : t <= other
    PROVE  Payer(list, q) = t
<1>1. FullMatches(list, q) \subseteq Tokens /\ Tokens \subseteq Int
  BY ConstantFacts DEF FullMatches, Applying
<1>2. FirstOf(FullMatches(list, q)) = {t}
  BY <1>1, TheFirst
<1> QED BY <1>2 DEF Payer

\* Authorize pays for an entry that names a token, and for no other.
LEMMA AuthorizePays ==
    ASSUME NEW g \in Gateways, Authorize(g), TypeOK
    PROVE  /\ Payer(tokens[g], req[g]) \in 0..MaxToken
           /\ Payer(tokens[g], req[g]) = 0 => UNCHANGED file
           /\ \A t \in Tokens : t = Payer(tokens[g], req[g])
                 => file' = [tokens[g] EXCEPT ![t].uses = @ + 1]
<1>1. CASE FullMatches(tokens[g], req[g]) = {}
  <2>1. Payer(tokens[g], req[g]) = 0
    BY <1>1 DEF Payer
  <2> QED BY <1>1, <2>1, BoundsAssumption DEF Authorize, Tokens
<1>2. CASE FullMatches(tokens[g], req[g]) # {}
  <2>1. PICK t \in FullMatches(tokens[g], req[g]) :
              /\ \A other \in FullMatches(tokens[g], req[g]) : t <= other
              /\ file' = [tokens[g] EXCEPT ![t].uses = @ + 1]
    BY <1>2 DEF Authorize
  <2>2. Payer(tokens[g], req[g]) = t
    BY <2>1, PayerIsFirst
  <2>3. t \in Tokens /\ t # 0 /\ t \in 0..MaxToken
    BY <2>1, BoundsAssumption DEF FullMatches, Applying, Tokens
  <2> QED BY <2>1, <2>2, <2>3
<1> QED BY <1>1, <1>2

LEMMA OutcomeType == ASSUME NEW g \in Gateways, Authorize(g), TypeOK,
                            NEW entry \in Outcomes(tokens[g], req[g])
                     PROVE  entry \in EntryType
<1>1. PICK allow \in Answers(tokens[g], req[g]), chain \in Chains :
         entry = Seen(EntryOf(tokens[g], req[g], allow, chain))
  BY DEF Outcomes
<1>2. allow \in BOOLEAN
  BY Zenon DEF Answers
<1>3. EntryOf(tokens[g], req[g], allow, chain) \in EntryType
  BY <1>2, EntryFacts, AuthorizePays, ChainsAssumption DEF EntryOf, EntryType
<1> QED BY <1>1, <1>3, EntryFacts DEF Seen

\* A decision that consults no token cites and spends none.
LEMMA AloneType ==
    ASSUME NEW g \in Gateways, DecideAlone(g)
    PROVE  \E e \in EntryType : /\ owed' = [owed EXCEPT ![g] = e]
                                /\ e.by = 0 /\ e.cites = NoCites
<1>1. PICK allow \in BOOLEAN, chain \in Chains :
         owed' = [owed EXCEPT ![g] = [Nothing EXCEPT !.allow = allow, !.chain = chain]]
  BY DEF DecideAlone
<1> DEFINE e == [Nothing EXCEPT !.allow = allow, !.chain = chain]
<1>2. e \in EntryType /\ e.by = 0 /\ e.cites = NoCites
  BY EntryFacts, ChainsAssumption DEF Nothing, EntryType
<1> QED BY <1>1, <1>2

LEMMA EntriesInductive ==
    ASSUME TypeOK, EntriesOK, [TrailNext]_allVars
    PROVE  EntriesOK'
<1>1. ASSUME NEW g \in Gateways, Evaluate(g) PROVE EntriesOK'
  BY <1>1, OutcomeType DEF Evaluate, EntriesOK
<1>2. ASSUME NEW g \in Gateways, RecordDecision(g) PROVE EntriesOK'
  BY <1>2, EntryFacts, EntriesAssumption DEF RecordDecision, EntriesOK
<1>3. ASSUME NEW g \in Gateways, Lose(g) PROVE EntriesOK'
  BY <1>3, EntryFacts DEF Lose, EntriesOK
<1>4. CASE Elsewhere
  BY <1>4 DEF Elsewhere, EntriesOK
<1>5. CASE UNCHANGED trail
  BY <1>5 DEF trail, EntriesOK
<1>6. ASSUME NEW g \in Gateways, DecideAlone(g) PROVE EntriesOK'
  BY <1>6, AloneType DEF DecideAlone, EntriesOK
<1> QED BY <1>1, <1>2, <1>3, <1>4, <1>5, <1>6 DEF TrailNext, CallFree, allVars

\* The store, the processes and the log stay well-formed.
THEOREM TrailTypeCorrect == TrailSpec => []TrailOK
<1>1. TrailInit => EntriesOK
  <2>1. <<>> \in Seq(EntryType) /\ Len(<<>>) <= MaxEntries
    BY EntriesAssumption
  <2> QED BY <2>1, EntryFacts DEF TrailInit, EntriesOK
<1>2. TypeOK /\ EntriesOK /\ [TrailNext]_allVars => EntriesOK'
  BY EntriesInductive
<1>3. TrailSpec => []TypeOK
  BY TrailUsesStore, TypeCorrect, PTL
<1>4. TypeOK /\ EntriesOK => TrailOK
  BY DEF EntriesOK, TrailOK
<1> QED BY <1>1, <1>2, <1>3, <1>4, PTL DEF TrailSpec

-----------------------------------------------------------------------------
\* Until a reset overlaps another update, the list of a process in its section
\* is the file, and the file holds the tokens that have been created.
Fresh == \A p \in Procs : InSection(p) => tokens[p] = file

Present == \A t \in Tokens : IF t < nextToken THEN file[t].there
                             ELSE file[t] = NoRow /\ t \notin recalled

Settled == Fresh /\ Present /\ RevocationSticks

\* What a step may do to the tokens: time passes, uses are added, tokens are
\* revoked or created, and a grant never changes.
Progress == /\ now' >= now /\ nextToken' >= nextToken
            /\ \A t \in Tokens :
                  /\ file'[t].uses >= file[t].uses
                  /\ file[t].revoked => file'[t].revoked
                  /\ nextToken' = nextToken => (file'[t].there => file[t].there)
                  /\ t < nextToken => /\ grantOf'[t] = grantOf[t]
                                      /\ expiry'[t] = expiry[t]

LEMMA NumberFacts == ASSUME TypeOK
                     PROVE  /\ now \in Int /\ nextToken \in Int
                            /\ \A t \in Tokens : t \in Int /\ file[t] \in Row
                            /\ \A t \in Tokens : file[t].uses \in Int
                            /\ recalled \subseteq Tokens
  BY BoundsAssumption DEF TypeOK, StoreOK, HistoryOK, Tokens, Row

LEMMA Emptied == ASSUME LockInv, NEW p \in Procs, InSection(p), Leaves(p)
                 PROVE  Fresh'
  BY Alone DEF Fresh, InSection, Leaves

LEMMA LeavesFresh == ASSUME Fresh, NEW p \in Procs, Leaves(p), UNCHANGED file
                     PROVE  Fresh'
  BY DEF Fresh, InSection, Leaves

LEMMA QuietSettles ==
    ASSUME TypeOK, Settled, UNCHANGED <<store, recalled>>, Fresh', now' >= now
    PROVE  Settled' /\ Progress
  BY NumberFacts DEF Settled, Present, RevocationSticks, Progress, store

LEMMA AuthorizeSettles ==
    ASSUME TypeOK, UseInv, Settled, NEW g \in Procs, Authorize(g)
    PROVE  Settled' /\ Progress
<1>1. InSection(g) /\ Leaves(g) /\ tokens[g] = file
  BY ReturnLeaves DEF Authorize, InSection, Settled, Fresh
<1>2. Fresh'
  BY <1>1, Emptied DEF UseInv
<1>3. UNCHANGED <<grantOf, expiry, nextToken, now, recalled>>
  BY DEF Authorize
<1>4. \A t \in Tokens : \/ file'[t] = file[t]
                        \/ /\ file[t].there /\ file'[t].there
                           /\ file'[t].revoked = file[t].revoked
                           /\ file'[t].uses = file[t].uses + 1
  <2>1. CASE UNCHANGED file
    BY <2>1
  <2>2. ASSUME NEW s \in FullMatches(file, req[g]),
               file' = [file EXCEPT ![s].uses = @ + 1]
        PROVE  \A t \in Tokens : IF t = s
                  THEN /\ file[t].there /\ file'[t].there
                       /\ file'[t].revoked = file[t].revoked
                       /\ file'[t].uses = file[t].uses + 1
                  ELSE file'[t] = file[t]
    <3>1. s \in Tokens /\ file[s].there
      BY <2>2 DEF FullMatches, Applying
    <3> QED BY <2>2, <3>1, NumberFacts DEF Row, TypeOK, StoreOK
  <2>3. \/ UNCHANGED file
        \/ \E s \in FullMatches(file, req[g]) : file' = [file EXCEPT ![s].uses = @ + 1]
    BY <1>1 DEF Authorize
  <2>4. CASE \E s \in FullMatches(file, req[g]) : file' = [file EXCEPT ![s].uses = @ + 1]
    <3>1. PICK s \in FullMatches(file, req[g]) : file' = [file EXCEPT ![s].uses = @ + 1]
      BY <2>4
    <3> QED BY <2>2, <3>1
  <2> QED BY <2>1, <2>3, <2>4
<1> QED BY <1>2, <1>3, <1>4, NumberFacts
        DEF Settled, Present, RevocationSticks, Progress, NoRow

LEMMA CreateSettles ==
    ASSUME TypeOK, UseInv, Settled, NEW m \in Procs, Create(m)
    PROVE  Settled' /\ Progress
<1>1. InSection(m) /\ Leaves(m) /\ tokens[m] = file
  BY ReturnLeaves DEF Create, InSection, Settled, Fresh
<1>2. Fresh' /\ now' = now /\ recalled' = recalled
  BY <1>1, Emptied DEF UseInv, Create, history
<1>3. CASE UNCHANGED store
  BY <1>2, <1>3, QuietSettles, NumberFacts
<1>4. CASE nextToken \in Tokens
  <2>1. /\ nextToken' = nextToken + 1
        /\ \A t \in Tokens : /\ file'[t] = IF t = nextToken THEN NewRow ELSE file[t]
                             /\ t # nextToken => grantOf'[t] = grantOf[t]
                             /\ t # nextToken => expiry'[t] = expiry[t]
    BY <1>1, <1>4 DEF Create, TypeOK, StoreOK
  <2>2. file[nextToken] = NoRow
    BY <1>4, NumberFacts DEF Settled, Present
  <2>3. Progress
    BY <1>2, <2>1, <2>2, NumberFacts DEF Progress, NewRow, NoRow
  <2>4. Present' /\ RevocationSticks'
    BY <1>2, <2>1, NumberFacts DEF Settled, Present, RevocationSticks, NewRow
  <2> QED BY <1>2, <2>3, <2>4 DEF Settled
<1> QED BY <1>3, <1>4 DEF Create

LEMMA RevokeSettles ==
    ASSUME TypeOK, UseInv, Settled, NEW m \in Procs, Revoke(m)
    PROVE  Settled' /\ Progress
<1>1. InSection(m) /\ Leaves(m) /\ tokens[m] = file
  BY ReturnLeaves DEF Revoke, InSection, Settled, Fresh
<1>2. Fresh' /\ UNCHANGED <<now, grantOf, expiry, nextToken>>
  BY <1>1, Emptied DEF UseInv, Revoke
<1>3. CASE file' = file /\ UNCHANGED recalled
  BY <1>2, <1>3, QuietSettles, NumberFacts DEF store
<1>4. CASE /\ file[chosen[m]].there
           /\ file' = Recall(file, chosen[m])
           /\ recalled' = recalled \cup {chosen[m]}
  <2>1. chosen[m] \in Tokens /\ file[chosen[m]] # NoRow
    BY <1>4 DEF TypeOK, ArgsOK, NoRow
  <2>2. \A t \in Tokens : IF t = chosen[m]
                          THEN /\ file'[t].revoked /\ file'[t].there
                               /\ file'[t].uses = file[t].uses
                          ELSE file'[t] = file[t]
    BY <1>4, <2>1, NumberFacts DEF Recall, Row, TypeOK, StoreOK
  <2> QED BY <1>2, <1>4, <2>1, <2>2, NumberFacts
          DEF Settled, Present, RevocationSticks, Progress
<1> QED BY <1>1, <1>3, <1>4 DEF Revoke

\* A reset that overlaps nothing writes back the file it has read.
LEMMA ResetSettles ==
    ASSUME TypeOK, UseInv, Settled, NEW x \in Procs, ResetSave(x), ~Overlaps(x)
    PROVE  Settled' /\ Progress
<1>1. Leaves(x) /\ UNCHANGED <<now, grantOf, expiry, nextToken>>
  BY ReturnLeaves DEF ResetSave
<1> DEFINE live == {t \in Tokens : tokens[x][t].there /\ ~tokens[x][t].revoked}
<1>2. recalled' = recalled \cup live
  BY DEF ResetSave
<1>3. CASE live = {}
  <2>1. UNCHANGED <<store, recalled>>
    BY <1>1, <1>2, <1>3 DEF ResetSave, store
  <2> QED BY <1>1, <2>1, LeavesFresh, QuietSettles, NumberFacts DEF Settled, store
<1>4. CASE live # {}
  <2>1. \A t \in Tokens : /\ tokens[x][t] \in Row
                          /\ file'[t] = [tokens[x][t] EXCEPT !.revoked = tokens[x][t].there]
    BY <1>4 DEF ResetSave, TypeOK
  <2>2. \A t \in Tokens : /\ file'[t].there = tokens[x][t].there
                          /\ file'[t].revoked = tokens[x][t].there
                          /\ file'[t].uses = tokens[x][t].uses
    BY <2>1 DEF Row
  <2>3. CASE file' = file
    <3>1. Fresh'
      BY <1>1, <2>3, LeavesFresh DEF Settled
    <3>2. \A t \in live : file[t].there
      BY <2>2, <2>3
    <3>3. Present' /\ RevocationSticks'
      BY <1>1, <1>2, <2>2, <2>3, <3>2 DEF Settled, Present, RevocationSticks, NoRow
    <3>4. Progress
      BY <1>1, <2>3, NumberFacts DEF Progress
    <3> QED BY <3>1, <3>3, <3>4 DEF Settled
  <2>4. CASE lock = None /\ tokens[x] = file
    <3>1. Fresh'
      BY <1>1, <2>4, NoneAssumption DEF UseInv, LockInv, Leaves, InSection, Fresh
    <3>2. \A t \in Tokens : IF t < nextToken
                            THEN /\ file'[t].there /\ file'[t].revoked
                                 /\ file'[t].uses = file[t].uses
                            ELSE file'[t] = NoRow /\ t \notin live
      <4>1. ASSUME NEW t \in Tokens, ~file[t].there
            PROVE  file'[t] = NoRow /\ t \notin live /\ ~(t < nextToken)
        <5>1. file[t] = NoRow /\ ~(t < nextToken)
          BY <4>1 DEF Settled, Present
        <5>2. file'[t] = [NoRow EXCEPT !.revoked = NoRow.there]
          BY <2>1, <2>4, <5>1
        <5> QED BY <2>4, <4>1, <5>1, <5>2 DEF NoRow
      <4>2. ASSUME NEW t \in Tokens, file[t].there
            PROVE  t < nextToken
        BY <4>2 DEF Settled, Present, NoRow
      <4> QED BY <2>2, <2>4, <4>1, <4>2
    <3>3. Present' /\ RevocationSticks'
      BY <1>1, <1>2, <3>2, NumberFacts DEF Settled, Present, RevocationSticks, NoRow
    <3>4. Progress
      BY <1>1, <3>2, NumberFacts DEF Progress, Settled, Present, NoRow
    <3> QED BY <3>1, <3>3, <3>4 DEF Settled
  <2> QED BY <2>3, <2>4 DEF Overlaps, ResetSave
<1> QED BY <1>3, <1>4

LEMMA StoreSettles ==
    ASSUME TypeOK, UseInv, Settled, [Next]_vars,
           \A x \in Resetters : ResetSave(x) => ~Overlaps(x)
    PROVE  Settled' /\ Progress
<1> USE ConstantFacts
<1>1. ASSUME NEW p \in Procs, Abort(p) \/ ResetRead(p) PROVE Settled' /\ Progress
  <2>1. Leaves(p)
    <3>1. CASE Abort(p)
      BY <3>1, ReturnLeaves DEF Abort
    <3>2. CASE ResetRead(p)
      BY <3>2 DEF ResetRead, Goto, args, TypeOK, ControlOK, Leaves
    <3> QED BY <1>1, <3>1, <3>2
  <2>2. UNCHANGED <<store, recalled, now>>
    BY <1>1 DEF Abort, ResetRead, history
  <2> QED BY <2>1, <2>2, LeavesFresh, QuietSettles, NumberFacts DEF Settled, store
<1>2. ASSUME NEW p \in Procs, NEW method \in {"authorize", "create", "revoke"},
             Call(p, method)
      PROVE  Settled' /\ Progress
  <2>1. Fresh'
    BY <1>2 DEF Call, Goto, Settled, Fresh, InSection, TypeOK, ControlOK, store
  <2> QED BY <1>2, <2>1, QuietSettles, NumberFacts DEF Call, history
<1>3. ASSUME NEW p \in Procs, Acquire(p) PROVE Settled' /\ Progress
  <2>1. \A q \in Procs : ~InSection(q)
    BY <1>3, NoneAssumption DEF Acquire, MayEnter, UseInv, LockInv
  <2>2. Fresh'
    BY <1>3, <2>1 DEF Acquire, Goto, Fresh, InSection, TypeOK, ControlOK, store
  <2> QED BY <1>3, <2>2, QuietSettles, NumberFacts DEF Acquire, history
<1>4. CASE Tick \/ UNCHANGED vars
  <2>1. UNCHANGED <<store, recalled, pc, tokens>> /\ now' >= now
    BY <1>4, NumberFacts DEF Tick, vars, control, history
  <2> QED BY <2>1, QuietSettles DEF Settled, Fresh, InSection, store
<1>5. CASE Next
  BY <1>1, <1>2, <1>3, <1>4, <1>5, AuthorizeSettles, CreateSettles, RevokeSettles,
     ResetSettles
  DEF Next, Others, CallAuthorize, CallCreate, CallRevoke
<1> QED BY <1>4, <1>5

\* Only an unlocked reset can overlap another update, and it sets the mark.
LEMMA TrailSettles ==
    ASSUME TypeOK, UseInv, ~disturbed => Settled, [TrailNext]_allVars, ~disturbed'
    PROVE  ~disturbed /\ Settled /\ Settled' /\ Progress
<1>1. ~disturbed
  BY DEF TrailNext, CallFree, Evaluate, DecideAlone, RecordDecision, Lose, Elsewhere, allVars, trail
<1>2. ASSUME NEW x \in Resetters, ResetSave(x) PROVE ~Overlaps(x)
  <2>1. CASE Elsewhere
    BY <2>1 DEF Elsewhere
  <2>2. CASE UNCHANGED file
    BY <2>2 DEF Overlaps
  <2>3. ASSUME NEW g \in Gateways, Authorize(g) PROVE FALSE
    <3>1. g # x /\ x \in Procs
      BY RolesAssumption, ConstantFacts
    <3>2. pc'[x] = pc[x]
      BY <2>3, <3>1 DEF Authorize, Return, Goto, TypeOK, ControlOK
    <3>3. pc[x] = "resetting" /\ pc'[x] = "idle"
      BY <1>2, <3>1 DEF ResetSave, Return, Goto, TypeOK, ControlOK
    <3> QED BY <3>2, <3>3
  <2> QED BY <2>1, <2>2, <2>3
          DEF TrailNext, CallFree, CallAuthorize, Call, Evaluate, DecideAlone,
              RecordDecision, Lose, allVars, vars, store
<1> QED BY <1>1, <1>2, StoreStep, StoreSettles

Calm == ~disturbed => Settled

LEMMA InitSettled == Init => Settled
  BY ConstantFacts
  DEF Init, Settled, Fresh, Present, RevocationSticks, InSection, Blank, NoRow, Tokens

\* The facts about the store that every step of the trail can rely on.
LEMMA StoreFacts == TrailSpec => [](TypeOK /\ UseInv /\ EntriesOK /\ Calm)
<1>1. TrailInit => EntriesOK /\ Calm
  <2>1. <<>> \in Seq(EntryType) /\ Len(<<>>) <= MaxEntries
    BY EntriesAssumption
  <2> QED BY <2>1, EntryFacts, InitSettled DEF TrailInit, EntriesOK, Calm
<1>2. TypeOK /\ UseInv /\ EntriesOK /\ Calm /\ [TrailNext]_allVars => EntriesOK' /\ Calm'
  BY EntriesInductive, TrailSettles DEF Calm
<1> QED BY <1>1, <1>2, TrailUsesStore, TypeCorrect, UseCorrect, PTL DEF TrailSpec

\* A token whose revocation has completed never allows again, whatever races
\* with it, unless an unlocked reset overlapped another update
\* (approvals.py:186-202).
THEOREM RevocationIsForGood == TrailSpec => []RevocationKept
<1>1. Calm => RevocationKept
  BY DEF Calm, Settled, RevocationKept
<1> QED BY <1>1, StoreFacts, PTL

-----------------------------------------------------------------------------
LEMMA AllowIsFullMatch ==
    ASSUME NEW list, NEW q
    PROVE  Verdict(list, q) = "allow" <=> FullMatches(list, q) # {}
  BY DEF Verdict

\* A token that matches after a step which creates none matched before it.
LEMMA NothingRegained ==
    ASSUME TypeOK, TypeOK', UseInv, Settled, Settled', Progress,
           nextToken' = nextToken, NEW q \in Requests
    PROVE  FullMatches(file, q)' \subseteq FullMatches(file, q)
<1> SUFFICES ASSUME NEW t \in Tokens, t \in FullMatches(file, q)'
             PROVE  t \in FullMatches(file, q)
  BY DEF FullMatches, Applying
<1>1. /\ file'[t].there /\ ~file'[t].revoked /\ ~(expiry'[t] <= now')
      /\ ~(file'[t].uses >= grantOf'[t].maxUses)
      /\ q.action \notin grantOf'[t].denied
      /\ Relevant(t, q)' /\ ~LacksCritical(t, q)'
  BY DEF FullMatches, Applying, Unusable, Denies
<1>2. file[t].there /\ t < nextToken
  BY <1>1 DEF Progress, Settled, Present, NoRow
<1>3. grantOf'[t] = grantOf[t] /\ expiry'[t] = expiry[t]
  BY <1>2 DEF Progress
<1>4. Relevant(t, q) /\ ~LacksCritical(t, q)
  BY <1>1, <1>3 DEF Relevant, LacksCritical
<1>5. grantOf[t].maxUses \in Int
  BY <1>2, ConstantFacts DEF UseInv, GrantInv
<1>6. ~file[t].revoked /\ ~(file[t].uses >= grantOf[t].maxUses)
  <2>1. file'[t].uses \in Int /\ file[t].uses \in Int
    BY DEF TypeOK, StoreOK, Row
  <2> QED BY <1>1, <1>3, <1>5, <2>1 DEF Progress
<1>7. ~(expiry[t] <= now)
  <2>1. expiry[t] \in Int /\ now \in Int /\ now' \in Int
    BY DEF TypeOK, StoreOK
  <2> QED BY <1>1, <1>3, <2>1 DEF Progress
<1>8. q.action \notin grantOf[t].denied
  BY <1>1, <1>3
<1> QED BY <1>2, <1>4, <1>6, <1>7, <1>8 DEF FullMatches, Applying, Unusable, Denies

\* A reset that writes back a stale list revokes whatever the list holds.
LEMMA StaleResetAllowsNothing ==
    ASSUME TypeOK, NEW x \in Procs, ResetSave(x), file' # file
    PROVE  \A q \in Requests : FullMatches(file, q)' = {}
<1>1. \A t \in Tokens : /\ tokens[x][t] \in Row
                        /\ file'[t] = [tokens[x][t] EXCEPT !.revoked = tokens[x][t].there]
  BY DEF ResetSave, TypeOK
<1>2. \A t \in Tokens : ~file'[t].there \/ file'[t].revoked
  BY <1>1 DEF Row
<1> QED BY <1>2 DEF FullMatches, Applying, Unusable

\* Authority is created, never regained: unless an unlocked reset has overlapped
\* another update, no use, revocation, reset, crash or passing of time turns a
\* refusal into permission (delegations.py:259-311).
THEOREM AuthorityIsCreated == TrailSpec => AuthorityKept
<1>1. ASSUME TypeOK, TypeOK', UseInv, Calm, [TrailNext]_allVars,
             ~disturbed, NEW q \in Requests, Verdict(file, q) # "allow",
             Verdict(file, q)' = "allow"
      PROVE  nextToken' # nextToken
  <2>1. FullMatches(file, q) = {} /\ FullMatches(file, q)' # {}
    <3>1. Verdict(file, q)' = "allow" <=> FullMatches(file, q)' # {}
      BY DEF Verdict
    <3> QED BY <1>1, <3>1, AllowIsFullMatch
  <2>2. [Next]_vars
    BY <1>1, StoreStep
  <2>3. CASE \E x \in Resetters : ResetSave(x) /\ Overlaps(x)
    BY <1>1, <2>1, <2>3, ConstantFacts, StaleResetAllowsNothing DEF Overlaps
  <2>4. CASE \A x \in Resetters : ResetSave(x) => ~Overlaps(x)
    <3>1. Settled /\ Settled' /\ Progress
      BY <1>1, <2>2, <2>4, StoreSettles DEF Calm
    <3> QED BY <1>1, <2>1, <3>1, NothingRegained
  <2> QED BY <2>3, <2>4
<1>2. TypeOK /\ TypeOK' /\ UseInv /\ Calm /\ [TrailNext]_allVars
      => [~disturbed => \A q \in Requests : /\ Verdict(file, q) # "allow"
                                            /\ Verdict(file, q)' = "allow"
                                            => nextToken' # nextToken]_<<store, now>>
  BY <1>1 DEF allVars, vars
<1> QED BY <1>2, StoreFacts, PTL DEF TrailSpec, AuthorityKept

-----------------------------------------------------------------------------
\* A gateway that has called the store owes no entry yet.
Free == \A g \in Gateways : pc[g] # "idle" => owed[g] = Nothing

\* The entries of the log that are uses of a token, and the gateways that are
\* about to record one.
Told(t) == {n \in DOMAIN log : log[n].by = t}
Owing(t) == {g \in Gateways : owed[g].by = t}

LEMMA CountsAreFinite ==
    ASSUME EntriesOK, NEW t
    PROVE  /\ Told(t) = {n \in 1..Len(log) : log[n].by = t}
           /\ IsFiniteSet(Told(t)) /\ IsFiniteSet(Owing(t))
           /\ Owed(t) = Cardinality(Owing(t))
           /\ Cardinality(Told(t)) \in Nat /\ Owed(t) \in Nat
<1>1. Len(log) \in Nat /\ DOMAIN log = 1..Len(log)
  BY DEF EntriesOK
<1>2. Told(t) = {n \in 1..Len(log) : log[n].by = t}
  BY <1>1 DEF Told
<1>3. IsFiniteSet(Told(t))
  <2>1. IsFiniteSet(1..Len(log)) /\ Told(t) \in SUBSET (1..Len(log))
    BY <1>1, <1>2, FS_Interval
  <2> QED BY <2>1, FS_Subset
<1>4. IsFiniteSet(Owing(t))
  BY GatewaysAssumption, FS_Subset DEF Owing
<1> QED BY <1>2, <1>3, <1>4, FS_CardinalityType
        DEF Owing, Owed

LEMMA PrimedCounts ==
    ASSUME NEW t
    PROVE  /\ Cardinality(Told(t))' = Cardinality(Told(t)')
           /\ Owed(t)' = Cardinality(Owing(t)')
  BY DEF Owed, Owing

\* What the trace observes are the uses that a reason tells of and those that a
\* chain alone claims.
Claiming(t) == {n \in DOMAIN log : OnlyClaims(log[n], t)}

LEMMA ObservedIsToldOrClaimed ==
    ASSUME EntriesOK, NEW t
    PROVE  ObservedConsumes(t) = Cardinality(Told(t)) + ClaimedUses(t)
<1>1. DOMAIN log = 1..Len(log) /\ Len(log) \in Nat
  BY DEF EntriesOK
<1>2. {n \in References(t) : IsConsume(log[n], t)} = Told(t) \cup Claiming(t)
  BY DEF References, IsConsume, Told, Claiming, OnlyClaims
<1>3. Told(t) \cap Claiming(t) = {}
  BY DEF Told, Claiming, OnlyClaims
<1>4. IsFiniteSet(Told(t)) /\ IsFiniteSet(Claiming(t))
  <2>1. IsFiniteSet(1..Len(log)) /\ Claiming(t) \in SUBSET (1..Len(log))
    BY <1>1, FS_Interval DEF Claiming
  <2>2. IsFiniteSet(Claiming(t))
    BY <2>1, FS_Subset
  <2> QED BY <2>2, CountsAreFinite
<1>5. Cardinality(Told(t) \cup Claiming(t)) =
         Cardinality(Told(t)) + Cardinality(Claiming(t)) - Cardinality(Told(t) \cap Claiming(t))
  BY <1>4, FS_Union
<1>6. Cardinality(Told(t)) \in Nat /\ Cardinality(Claiming(t)) \in Nat
  BY <1>4, FS_CardinalityType
<1> QED BY <1>2, <1>3, <1>5, <1>6, FS_EmptySet DEF ObservedConsumes, ClaimedUses, Claiming

LEMMA FreeInductive == ASSUME TypeOK, EntriesOK, Free, [TrailNext]_allVars PROVE Free'
<1>1. ASSUME NEW g \in Gateways, NEW q \in Requests, CallFree(g, q) PROVE Free'
  BY <1>1, ConstantFacts
  DEF CallFree, CallAuthorize, Call, Goto, TypeOK, ControlOK, Free, trail
<1>2. ASSUME NEW g \in Gateways, Evaluate(g) PROVE Free'
  BY <1>2, ConstantFacts
  DEF Evaluate, Authorize, Return, Goto, TypeOK, ControlOK, EntriesOK, Free
<1>3. ASSUME NEW g \in Gateways, DecideAlone(g) \/ RecordDecision(g) \/ Lose(g)
      PROVE  Free'
  BY <1>3 DEF DecideAlone, RecordDecision, Lose, vars, control, EntriesOK, Free
<1>4. CASE Elsewhere
  <2>1. ASSUME NEW g \in Gateways, pc'[g] # "idle" PROVE pc[g] # "idle"
    <3>1. g \in Procs /\ g \notin Managers /\ g \notin Resetters
      BY RolesAssumption, ConstantFacts
    <3>2. ASSUME NEW p \in Procs \ {g}, NEW phase, Goto(p, phase) PROVE pc'[g] = pc[g]
      BY <3>2 DEF Goto, TypeOK, ControlOK
    <3>3. ASSUME NEW m \in Managers,
                 \/ \E new \in Grants : CallCreate(m, new)
                 \/ \E t \in Tokens : CallRevoke(m, t)
                 \/ Create(m) \/ Revoke(m)
          PROVE  pc'[g] = pc[g]
      BY <3>1, <3>2, <3>3, ConstantFacts
      DEF CallCreate, CallRevoke, Call, Create, Revoke, Return
    <3>4. ASSUME NEW x \in Resetters, ResetRead(x) \/ ResetSave(x) PROVE pc'[g] = pc[g]
      BY <3>1, <3>2, <3>4, ConstantFacts DEF ResetRead, ResetSave, Return
    <3>5. ASSUME NEW p \in Procs, Acquire(p) \/ Abort(p) PROVE pc[g] # "idle"
      <4>1. CASE p = g
        BY <3>5, <4>1 DEF Acquire, Abort, Locked
      <4>2. CASE p # g
        BY <2>1, <3>2, <3>5, <4>2 DEF Acquire, Abort, Return
      <4> QED BY <4>1, <4>2
    <3>6. CASE Tick
      BY <2>1, <3>6 DEF Tick, control
    <3> QED BY <1>4, <2>1, <3>3, <3>4, <3>5, <3>6, ConstantFacts DEF Elsewhere, Others
  <2> QED BY <1>4, <2>1 DEF Elsewhere, Free
<1>5. CASE UNCHANGED allVars
  BY <1>5 DEF allVars, vars, control, trail, Free
<1> QED BY <1>1, <1>2, <1>3, <1>4, <1>5 DEF TrailNext

-----------------------------------------------------------------------------
LEMMA EvaluateCounts ==
    ASSUME TypeOK, TypeOK', EntriesOK, Free, Settled, Progress,
           NEW g \in Gateways, Evaluate(g), NEW t \in Tokens,
           Cardinality(Told(t)) + Owed(t) <= file[t].uses
    PROVE  (Cardinality(Told(t)) + Owed(t) <= file[t].uses)'
<1>1. g \in Procs /\ t # 0 /\ owed[g] = Nothing /\ tokens[g] = file
  BY ConstantFacts, BoundsAssumption
  DEF Evaluate, Authorize, Free, Settled, Fresh, InSection, Tokens
<1>2. PICK entry \in Outcomes(tokens[g], req[g]) : owed' = [owed EXCEPT ![g] = entry]
  BY DEF Evaluate
<1>3. entry.by = 0 \/ entry.by = Payer(file, req[g])
  BY <1>1, <1>2 DEF Outcomes, EntryOf, Seen, Nothing
<1>4. Told(t)' = Told(t)
  BY DEF Evaluate, Told
<1>5. g \notin Owing(t)
  BY <1>1 DEF Owing, Nothing
<1>6. file[t].uses \in Nat /\ file'[t].uses \in Nat /\ file'[t].uses >= file[t].uses
  BY DEF TypeOK, StoreOK, Row, Progress
<1>7. CASE entry.by = t
  <2>1. file' = [file EXCEPT ![t].uses = @ + 1]
    BY <1>1, <1>3, <1>7, AuthorizePays DEF Evaluate
  <2>2. file'[t].uses = file[t].uses + 1
    BY <2>1 DEF TypeOK, StoreOK, Row
  <2>3. Owing(t)' = Owing(t) \cup {g}
    BY <1>2, <1>7 DEF Owing, EntriesOK
  <2>4. Cardinality(Owing(t)') = Cardinality(Owing(t)) + 1
    BY <1>5, <2>3, CountsAreFinite, FS_AddElement
  <2> QED BY <1>4, <1>6, <2>2, <2>4, CountsAreFinite, PrimedCounts
<1>8. CASE entry.by # t
  <2>1. Owing(t)' = Owing(t)
    BY <1>1, <1>2, <1>8, <1>5 DEF Owing, EntriesOK
  <2> QED BY <1>4, <1>6, <2>1, CountsAreFinite, PrimedCounts
<1> QED BY <1>7, <1>8

LEMMA RecordCounts ==
    ASSUME TypeOK, EntriesOK, NEW g \in Gateways, RecordDecision(g), NEW t \in Tokens,
           Cardinality(Told(t)) + Owed(t) <= file[t].uses
    PROVE  (Cardinality(Told(t)) + Owed(t) <= file[t].uses)'
<1>1. /\ t # 0 /\ file' = file /\ owed[g] \in EntryType
      /\ log' = Append(log, owed[g]) /\ owed' = [owed EXCEPT ![g] = Nothing]
  BY BoundsAssumption DEF RecordDecision, vars, store, Tokens, EntriesOK
<1> DEFINE n == Len(log) + 1
<1>2. /\ Len(log) \in Nat /\ DOMAIN log' = 1..n /\ log'[n] = owed[g]
      /\ \A k \in 1..Len(log) : log'[k] = log[k]
  BY <1>1 DEF EntriesOK
<1>3. Told(t)' = {k \in 1..n : log'[k].by = t}
  BY <1>2 DEF Told
<1>4. n \notin Told(t)
  BY <1>2, CountsAreFinite
<1>5. Owing(t)' = Owing(t) \ {g}
  BY <1>1 DEF Owing, Nothing, EntriesOK
<1>6. CASE owed[g].by = t
  <2>1. Told(t)' = Told(t) \cup {n}
    BY <1>2, <1>3, <1>6, CountsAreFinite
  <2>2. g \in Owing(t)
    BY <1>6 DEF Owing
  <2>3. Cardinality(Told(t)') = Cardinality(Told(t)) + 1
    <3>1. IsFiniteSet(Told(t))
      BY CountsAreFinite
    <3>2. Cardinality(Told(t) \cup {n}) = Cardinality(Told(t)) + 1
      BY <1>4, <3>1, FS_AddElement
    <3> QED BY <2>1, <3>2
  <2>4. Cardinality(Owing(t)') = Cardinality(Owing(t)) - 1
    BY <1>5, <2>2, CountsAreFinite, FS_RemoveElement
  <2> QED BY <1>1, <2>3, <2>4, CountsAreFinite, PrimedCounts
<1>7. CASE owed[g].by # t
  <2>1. Told(t)' = Told(t)
    BY <1>2, <1>3, <1>7, CountsAreFinite
  <2>2. Owing(t)' = Owing(t)
    BY <1>5, <1>7 DEF Owing
  <2> QED BY <1>1, <2>1, <2>2, CountsAreFinite, PrimedCounts
<1> QED BY <1>6, <1>7

LEMMA OtherCounts ==
    ASSUME TypeOK, TypeOK', EntriesOK, Progress, UNCHANGED log,
           UNCHANGED owed \/ \E g \in Gateways : DecideAlone(g) \/ Lose(g), NEW t \in Tokens,
           Cardinality(Told(t)) + Owed(t) <= file[t].uses
    PROVE  (Cardinality(Told(t)) + Owed(t) <= file[t].uses)'
<1>1. Told(t)' = Told(t)
  BY DEF Told
<1>2. t # 0
  BY BoundsAssumption DEF Tokens
<1>3. Owing(t)' \in SUBSET Owing(t)
  <2>1. ASSUME NEW g \in Gateways, DecideAlone(g) PROVE Owing(t)' \in SUBSET Owing(t)
    BY <1>2, <2>1, AloneType DEF Owing, EntriesOK
  <2> QED BY <1>2, <2>1 DEF Lose, Owing, Nothing, EntriesOK
<1>4. /\ Cardinality(Owing(t)') \in Nat
      /\ Cardinality(Owing(t)') <= Cardinality(Owing(t))
  BY <1>3, CountsAreFinite, FS_Subset, FS_CardinalityType
<1>5. file[t].uses \in Nat /\ file'[t].uses \in Nat /\ file'[t].uses >= file[t].uses
  BY DEF TypeOK, StoreOK, Row, Progress
<1> QED BY <1>1, <1>4, <1>5, CountsAreFinite, PrimedCounts

\* Every use that the trace observes was counted by the store, except those that
\* an allowed call only claimed in its delegation chain (audit_trace.py:171-177).
THEOREM ObservedUsesAreCounted == TrailSpec => []UncountedAreClaimed
<1> DEFINE Counted == ~disturbed => \A t \in Tokens :
                         Cardinality(Told(t)) + Owed(t) <= file[t].uses
<1>1. TrailInit => Free /\ Counted
  <2>1. ASSUME TrailInit, NEW t \in Tokens
        PROVE  Cardinality(Told(t)) + Owed(t) <= file[t].uses
    <3>1. Told(t) = {} /\ Owing(t) = {} /\ file[t].uses = 0
      BY <2>1, BoundsAssumption
      DEF TrailInit, Init, Told, Owing, Nothing, Blank, NoRow, Tokens
    <3> QED BY <3>1, FS_EmptySet DEF Owed, Owing
  <2> QED BY <2>1 DEF TrailInit, Free
<1>2. ASSUME TypeOK, TypeOK', UseInv, EntriesOK, Calm, Free, Counted,
             [TrailNext]_allVars
      PROVE  Free' /\ Counted'
  <2>1. ASSUME ~disturbed', NEW t \in Tokens
        PROVE  (Cardinality(Told(t)) + Owed(t) <= file[t].uses)'
    <3>1. /\ Settled /\ Progress
          /\ Cardinality(Told(t)) + Owed(t) <= file[t].uses
      BY <1>2, <2>1, TrailSettles DEF Calm
    <3>2. CASE \E g \in Gateways : Evaluate(g)
      BY <1>2, <3>1, <3>2, EvaluateCounts
    <3>3. CASE \E g \in Gateways : RecordDecision(g)
      BY <1>2, <3>1, <3>3, RecordCounts
    <3>4. CASE \/ \E g \in Gateways : \/ DecideAlone(g) \/ Lose(g)
                                     \/ \E q \in Requests : CallFree(g, q)
               \/ Elsewhere \/ UNCHANGED allVars
      BY <1>2, <3>1, <3>4, OtherCounts
      DEF DecideAlone, Lose, CallFree, Elsewhere, allVars, trail
    <3> QED BY <1>2, <3>2, <3>3, <3>4 DEF TrailNext
  <2> QED BY <1>2, <2>1, FreeInductive
<1>3. ASSUME TypeOK, EntriesOK, Counted PROVE UncountedAreClaimed
  <2>1. ASSUME ~disturbed, NEW t \in Tokens
        PROVE  ObservedConsumes(t) + Owed(t) <= file[t].uses + ClaimedUses(t)
    <3>1. Cardinality(Told(t)) + Owed(t) <= file[t].uses
      BY <1>3, <2>1
    <3>2. Cardinality(Told(t)) \in Nat /\ Owed(t) \in Nat /\ file[t].uses \in Nat
      BY <1>3, CountsAreFinite DEF TypeOK, StoreOK, Row
    <3>3. ClaimedUses(t) \in Nat
      <4>1. Len(log) \in Nat /\ Claiming(t) \in SUBSET (1..Len(log))
        BY <1>3 DEF Claiming, EntriesOK
      <4>2. IsFiniteSet(1..Len(log))
        BY <4>1, FS_Interval
      <4>3. IsFiniteSet(Claiming(t))
        BY <4>1, <4>2, FS_Subset
      <4> QED BY <4>3, FS_CardinalityType DEF ClaimedUses, Claiming
    <3> QED BY <1>3, <3>1, <3>2, <3>3, ObservedIsToldOrClaimed
  <2> QED BY <2>1 DEF UncountedAreClaimed
<1> QED BY <1>1, <1>2, <1>3, StoreFacts, PTL DEF TrailSpec

-----------------------------------------------------------------------------
\* Whatever an entry cites holds of a token that has been created.
Faithful(e) == \A t \in Tokens : \A cause \in e.cites[t] : t < nextToken /\ Holds(cause, t)

Truth == /\ \A n \in 1..Len(log) : Faithful(log[n])
         /\ \A g \in Gateways : Faithful(owed[g])

LEMMA NothingIsFaithful == Faithful(Nothing)
  BY DEF Faithful, Nothing, NoCites

\* No mismatch of a token ever goes away.
LEMMA FaithfulPersists ==
    ASSUME TypeOK, TypeOK', UseInv, Progress, NEW e \in EntryType, Faithful(e)
    PROVE  Faithful(e)'
<1> SUFFICES ASSUME NEW t \in Tokens, NEW cause \in e.cites[t]
             PROVE  t < nextToken' /\ Holds(cause, t)'
  BY DEF Faithful
<1>1. t < nextToken /\ Holds(cause, t) /\ cause \in Causes
  BY DEF Faithful, EntryType
<1>2. t < nextToken'
  BY <1>1, NumberFacts DEF Progress, TypeOK, StoreOK
<1>3. grantOf'[t] = grantOf[t] /\ expiry'[t] = expiry[t] /\ grantOf[t].maxUses \in Int
  BY <1>1, ConstantFacts DEF Progress, UseInv, GrantInv
<1>4. file[t].revoked => file'[t].revoked
  BY DEF Progress
<1>5. expiry[t] <= now => expiry'[t] <= now'
  <2>1. expiry[t] \in Int /\ now \in Int /\ now' \in Int
    BY DEF TypeOK, StoreOK
  <2> QED BY <1>3, <2>1 DEF Progress
<1>6. file[t].uses >= grantOf[t].maxUses => file'[t].uses >= grantOf'[t].maxUses
  <2>1. file'[t].uses \in Int /\ file[t].uses \in Int
    BY DEF TypeOK, StoreOK, Row
  <2> QED BY <1>3, <2>1 DEF Progress
<1> QED BY <1>1, <1>2, <1>3, <1>4, <1>5, <1>6 DEF Holds

\* A decision cites the mismatches of the file, which its list is a copy of.
LEMMA OutcomeIsFaithful ==
    ASSUME TypeOK, Settled, NEW q, NEW entry \in Outcomes(file, q)
    PROVE  Faithful(entry)
<1>1. entry = Nothing \/ entry.cites = Cites(file, q)
  BY DEF Outcomes, EntryOf, Seen
<1>2. ASSUME NEW t \in Tokens, NEW cause \in Cites(file, q)[t]
      PROVE  t < nextToken /\ Holds(cause, t)
  <2>1. t \in Applying(file, q) /\ cause \in Mismatches(file, t, q)
    BY <1>2 DEF Cites, Listed, OnlyCritical, FirstOf
  <2>2. t < nextToken
    BY <2>1 DEF Applying, Settled, Present, NoRow
  <2>3. Holds(cause, t)
    BY <2>1 DEF Mismatches, Holds, Denies, LacksCritical, Causes
  <2> QED BY <2>2, <2>3
<1> QED BY <1>1, <1>2, NothingIsFaithful DEF Faithful

\* The causes that the trace gives for the denials of a token are so, and are
\* about this token: unless an unlocked reset has overlapped another update
\* (audit_trace.py:94-106).
THEOREM InferredCausesHold == TrailSpec => []CausesHold
<1>1. TrailInit => Truth
  BY NothingIsFaithful DEF TrailInit, Truth
<1>2. ASSUME TypeOK, TypeOK', UseInv, EntriesOK, Calm, ~disturbed => Truth,
             [TrailNext]_allVars, ~disturbed'
      PROVE  Truth'
  <2>1. Settled /\ Progress /\ Truth
    BY <1>2, TrailSettles DEF Calm
  <2>2. ASSUME NEW e \in EntryType, Faithful(e) PROVE Faithful(e)'
    BY <1>2, <2>1, <2>2, FaithfulPersists
  <2>3. /\ \A n \in 1..Len(log) : log[n] \in EntryType /\ Faithful(log[n])
        /\ \A g \in Gateways : owed[g] \in EntryType /\ Faithful(owed[g])
    BY <1>2, <2>1 DEF EntriesOK, Truth
  <2>4. Nothing \in EntryType /\ Faithful(Nothing)
    BY EntryFacts, NothingIsFaithful
  <2>5. ASSUME NEW g \in Gateways, Evaluate(g) PROVE Truth'
    <3>1. PICK entry \in Outcomes(file, req[g]) : owed' = [owed EXCEPT ![g] = entry]
      BY <2>1, <2>5, ConstantFacts DEF Evaluate, Authorize, Settled, Fresh, InSection
    <3>2. entry \in EntryType /\ Faithful(entry)
      <4>1. tokens[g] = file /\ Authorize(g)
        BY <2>1, <2>5, ConstantFacts DEF Evaluate, Authorize, Settled, Fresh, InSection
      <4> QED BY <1>2, <2>1, <3>1, <4>1, OutcomeType, OutcomeIsFaithful
    <3> QED BY <1>2, <2>2, <2>3, <2>5, <3>1, <3>2 DEF Evaluate, EntriesOK, Truth
  <2>6. ASSUME NEW g \in Gateways, RecordDecision(g) PROVE Truth'
    BY <1>2, <2>2, <2>3, <2>4, <2>6 DEF RecordDecision, EntriesOK, Truth
  <2>7. ASSUME NEW g \in Gateways, Lose(g) PROVE Truth'
    BY <1>2, <2>2, <2>3, <2>4, <2>7 DEF Lose, EntriesOK, Truth
  <2>8. CASE UNCHANGED <<log, owed>>
    BY <2>2, <2>3, <2>8 DEF Truth
  <2>9. ASSUME NEW g \in Gateways, DecideAlone(g) PROVE Truth'
    <3>1. PICK e \in EntryType : owed' = [owed EXCEPT ![g] = e] /\ e.cites = NoCites
      BY <2>9, AloneType
    <3>2. Faithful(e)
      BY <3>1 DEF Faithful, NoCites
    <3> QED BY <1>2, <2>2, <2>3, <2>9, <3>1, <3>2 DEF DecideAlone, EntriesOK, Truth
  <2> QED BY <1>2, <2>5, <2>6, <2>7, <2>8, <2>9
          DEF TrailNext, CallFree, Elsewhere, allVars, trail
<1>3. EntriesOK /\ (~disturbed => Truth) => CausesHold
  BY DEF EntriesOK, Truth, Faithful, CausesHold, InferredCauses, References, Segment
<1> QED BY <1>1, <1>2, <1>3, StoreFacts, PTL DEF TrailSpec
=============================================================================
