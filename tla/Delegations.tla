---------------------------- MODULE Delegations ----------------------------
(***************************************************************************)
(* The delegation store of agent_sudo/delegations.py: scoped tokens that   *)
(* let an agent act without asking, up to max_uses times, until they       *)
(* expire or are revoked.  Gateways authorize requests and consume uses,   *)
(* managers (the CLI) create and revoke tokens, and `init-approval`        *)
(* revokes every token when the passphrase is reset.                       *)
(*                                                                         *)
(* create, revoke and authorize read the file and save it under the file   *)
(* lock (module FileLock); the reset does so without it.  A token's number *)
(* is its position in the file.  What never changes after creation (its    *)
(* grant and its expiry) is kept beside the file.                          *)
(***************************************************************************)
EXTENDS Integers

CONSTANTS Gateways,    \* processes that authorize requests
          Managers,    \* CLI processes that create and revoke tokens
          Resetters,   \* init-approval processes
          None,        \* no process, no grant, no request
          Requests,    \* the requests that are made, see RequestType
          Grants,      \* the grants that are given, see GrantType
          Covers,      \* the targets each path pattern matches
          MaxToken,    \* bound on the tokens ever created
          MaxTime      \* bound on the clock

Procs == Gateways \cup Managers \cup Resetters
Tokens == 1..MaxToken

\* `critical` of a request says that it was classified CRITICAL, `critical` of
\* a grant that it was created with --critical.
RequestType(q) == /\ DOMAIN q = {"actor", "action", "target", "critical"}
                  /\ q.critical \in BOOLEAN
GrantType(g) == /\ DOMAIN g = {"actor", "allowed", "denied", "paths",
                               "maxUses", "ttl", "critical"}
                /\ g.paths \subseteq DOMAIN Covers
                /\ g.maxUses \in Int /\ g.ttl \in Nat /\ g.critical \in BOOLEAN

ASSUME NoneAssumption == None \notin Procs \cup Requests \cup Grants
ASSUME RolesAssumption == /\ Gateways \cap (Managers \cup Resetters) = {}
                          /\ Managers \cap Resetters = {}
ASSUME BoundsAssumption == MaxToken \in Nat \ {0} /\ MaxTime \in Nat
ASSUME DataAssumption == /\ \A q \in Requests : RequestType(q)
                         /\ \A g \in Grants : GrantType(g)

VARIABLES file,      \* delegations.json: what can change of each token
          grantOf,   \* the grant each token was created with
          expiry,    \* expires_at of each token
          nextToken, \* the next token to be appended
          now,       \* the wall clock
          lock,      \* the holder of delegations.json.lock
          pc,        \* where each process is
          req,       \* the request a gateway authorizes
          offer,     \* the grant of the token a manager creates,
          due,       \* and its expires_at
          chosen,    \* the token a manager revokes
          tokens,    \* the list a process has read
          uses,      \* history: how often each token has allowed a request
          recalled   \* history: tokens a completed revoke or reset revoked

store == <<file, grantOf, expiry, nextToken>>
args == <<req, offer, due, chosen>>
control == <<pc, args, tokens>>
history == <<uses, recalled>>
vars == <<store, now, lock, control, history>>

Row == [there : BOOLEAN, uses : Nat, revoked : BOOLEAN]
Phases == {"idle", "authorize", "authorizing", "create", "creating",
           "revoke", "revoking", "resetting"}

NoRow == [there |-> FALSE, uses |-> 0, revoked |-> FALSE]
NewRow == [there |-> TRUE, uses |-> 0, revoked |-> FALSE]
Blank == [t \in Tokens |-> NoRow]

Init == /\ file = Blank
        /\ grantOf = [t \in Tokens |-> None]
        /\ expiry = [t \in Tokens |-> 0]
        /\ nextToken = 1
        /\ now = 0
        /\ lock = None
        /\ pc = [p \in Procs |-> "idle"]
        /\ req = [p \in Procs |-> None]
        /\ offer = [p \in Procs |-> None]
        /\ due = [p \in Procs |-> 0]
        /\ chosen = [p \in Procs |-> 1]
        /\ tokens = [p \in Procs |-> Blank]
        /\ uses = [t \in Tokens |-> 0]
        /\ recalled = {}

-----------------------------------------------------------------------------
\* _evaluate: a pure decision over one list of tokens.

\* _path_matches: wildcard, fnmatch, equality and directory prefix, abstracted
\* to the targets a pattern covers.
PathMatches(target, paths) == \E path \in paths : target \in Covers[path]

Relevant(t, q) == /\ grantOf[t].actor = q.actor
                  /\ PathMatches(q.target, grantOf[t].paths)
                  /\ q.action \in grantOf[t].allowed \cup grantOf[t].denied

Denies(t, q) == q.action \in grantOf[t].denied

\* Mutant of Unusable: one use too many.
UnusableLate(list, t, q) == \/ list[t].revoked
                            \/ expiry[t] <= now
                            \/ list[t].uses > grantOf[t].maxUses
                            \/ Denies(t, q)

\* Why a relevant token does not fully match, the critical flag apart.
Unusable(list, t, q) == \/ list[t].revoked
                        \/ expiry[t] <= now
                        \/ list[t].uses >= grantOf[t].maxUses
                        \/ Denies(t, q)

LacksCritical(t, q) == q.critical /\ ~grantOf[t].critical

\* Mutant of Applying: every token of the store is considered (issue #77).
AllTokens(list, q) == {t \in Tokens : list[t].there}

Applying(list, q) == {t \in Tokens : list[t].there /\ Relevant(t, q)}

\* The tokens without any mismatch; only a relevant token has none.
FullMatches(list, q) == {t \in Applying(list, q) :
                            ~Unusable(list, t, q) /\ ~LacksCritical(t, q)}

\* "allow" is True, "deny" is False and "ask" is None in the code.
Verdict(list, q) ==
    IF FullMatches(list, q) # {} THEN "allow"
    ELSE IF \E t \in Applying(list, q) : Denies(t, q) THEN "deny"
    ELSE IF \E t \in Applying(list, q) : ~Unusable(list, t, q) THEN "ask"
    ELSE IF Applying(list, q) # {} THEN "deny"
    ELSE "ask"

-----------------------------------------------------------------------------
Goto(p, phase) == pc' = [pc EXCEPT ![p] = phase]

Unlock(p) == lock' = IF lock = p THEN None ELSE lock

Return(p) == /\ Goto(p, "idle")
             /\ req' = [req EXCEPT ![p] = None]
             /\ offer' = [offer EXCEPT ![p] = None]
             /\ due' = [due EXCEPT ![p] = 0]
             /\ chosen' = [chosen EXCEPT ![p] = 1]
             /\ tokens' = [tokens EXCEPT ![p] = Blank]

Call(p, method) == /\ pc[p] = "idle"
                   /\ Goto(p, method)
                   /\ UNCHANGED <<store, now, lock, tokens, history>>

CallAuthorize(g, q) == /\ Call(g, "authorize")
                       /\ req' = [req EXCEPT ![g] = q]
                       /\ UNCHANGED <<offer, due, chosen>>

\* Mutant of Due: the sign is wrong.
DueBefore(new) == now - new.ttl

Due(new) == now + new.ttl

\* The token's times are taken before the lock.
CallCreate(m, new) == /\ nextToken \in Tokens
                      /\ Call(m, "create")
                      /\ offer' = [offer EXCEPT ![m] = new]
                      /\ due' = [due EXCEPT ![m] = Due(new)]
                      /\ UNCHANGED <<req, chosen>>

CallRevoke(m, t) == /\ t < nextToken
                    /\ Call(m, "revoke")
                    /\ chosen' = [chosen EXCEPT ![m] = t]
                    /\ UNCHANGED <<req, offer, due>>

\* Mutant of MayEnter: the section is not serialized.
BargesIn(p) == TRUE

MayEnter(p) == lock = None

Locked == [authorize |-> "authorizing", create |-> "creating",
           revoke |-> "revoking"]

\* Enter the critical section and read the file.
Acquire(p) == /\ pc[p] \in DOMAIN Locked
              /\ MayEnter(p)
              /\ lock' = p
              /\ Goto(p, Locked[pc[p]])
              /\ tokens' = [tokens EXCEPT ![p] = file]
              /\ UNCHANGED <<store, now, args, history>>

\* authorize(consume=True): the first full match pays with one use.
Authorize(g) ==
    LET matches == FullMatches(tokens[g], req[g])
    IN /\ pc[g] = "authorizing"
       /\ \/ \E t \in matches :
                /\ \A other \in matches : t <= other
                /\ file' = [tokens[g] EXCEPT ![t].uses = @ + 1]
                /\ uses' = [uses EXCEPT ![t] = @ + 1]
          \/ matches = {} /\ UNCHANGED <<file, uses>>
       /\ Unlock(g)
       /\ Return(g)
       /\ UNCHANGED <<grantOf, expiry, nextToken, now, recalled>>

\* create() appends a token; past the bound on tokens the call is abandoned.
Create(m) ==
    /\ pc[m] = "creating"
    /\ \/ /\ nextToken \in Tokens
          /\ file' = [tokens[m] EXCEPT ![nextToken] = NewRow]
          /\ grantOf' = [grantOf EXCEPT ![nextToken] = offer[m]]
          /\ expiry' = [expiry EXCEPT ![nextToken] = due[m]]
          /\ nextToken' = nextToken + 1
       \/ nextToken \notin Tokens /\ UNCHANGED store
    /\ Unlock(m)
    /\ Return(m)
    /\ UNCHANGED <<now, history>>

\* Mutant of Recall: a second revocation gives the token back.
Toggle(list, t) == [list EXCEPT ![t].revoked = ~@]

Recall(list, t) == [list EXCEPT ![t].revoked = TRUE]

\* revoke() saves the list even when it does not contain the token.
Revoke(m) ==
    LET t == chosen[m]
    IN /\ pc[m] = "revoking"
       /\ \/ /\ tokens[m][t].there
             /\ file' = Recall(tokens[m], t)
             /\ recalled' = recalled \cup {t}
          \/ /\ ~tokens[m][t].there
             /\ file' = tokens[m]
             /\ UNCHANGED recalled
       /\ Unlock(m)
       /\ Return(m)
       /\ UNCHANGED <<grantOf, expiry, nextToken, now, uses>>

\* init_approval_config on an existing configuration revokes every token, in a
\* read and a save without the lock.
ResetRead(x) == /\ pc[x] = "idle"
                /\ Goto(x, "resetting")
                /\ tokens' = [tokens EXCEPT ![x] = file]
                /\ UNCHANGED <<store, now, lock, args, history>>

ResetSave(x) ==
    /\ pc[x] = "resetting"
    /\ LET live == {t \in Tokens : tokens[x][t].there /\ ~tokens[x][t].revoked}
       IN /\ file' = IF live = {} THEN file
                     ELSE [t \in Tokens |->
                             [tokens[x][t] EXCEPT !.revoked = tokens[x][t].there]]
          /\ recalled' = recalled \cup live
    /\ Return(x)
    /\ UNCHANGED <<grantOf, expiry, nextToken, now, lock, uses>>

-----------------------------------------------------------------------------
\* The process dies or the call raises, LockTimeout included.  authorize turns
\* LockTimeout into a denial, which changes nothing either.
Abort(p) == /\ pc[p] # "idle"
            /\ Unlock(p)
            /\ Return(p)
            /\ UNCHANGED <<store, now, history>>

Tick == /\ now < MaxTime
        /\ now' = now + 1
        /\ UNCHANGED <<store, lock, control, history>>

\* Everything but the gateways' calls.
Others == \/ \E m \in Managers : \/ \E new \in Grants : CallCreate(m, new)
                                 \/ \E t \in Tokens : CallRevoke(m, t)
                                 \/ Create(m)
                                 \/ Revoke(m)
          \/ \E p \in Gateways \cup Managers : Acquire(p)
          \/ \E x \in Resetters : ResetRead(x) \/ ResetSave(x)
          \/ \E p \in Procs : Abort(p)
          \/ Tick

Next == \/ \E g \in Gateways : \/ \E q \in Requests : CallAuthorize(g, q)
                               \/ Authorize(g)
        \/ Others

Spec == Init /\ [][Next]_vars

-----------------------------------------------------------------------------
StoreOK == /\ file \in [Tokens -> Row]
           /\ grantOf \in [Tokens -> Grants \cup {None}]
           /\ expiry \in [Tokens -> Nat]
           /\ nextToken \in 1..(MaxToken + 1)

ControlOK == /\ lock \in Procs \cup {None}
             /\ pc \in [Procs -> Phases]

ArgsOK == /\ req \in [Procs -> Requests \cup {None}]
          /\ offer \in [Procs -> Grants \cup {None}]
          /\ due \in [Procs -> Nat]
          /\ chosen \in [Procs -> Tokens]

HistoryOK == uses \in [Tokens -> Nat] /\ recalled \in SUBSET Tokens

TypeOK == /\ now \in Nat
          /\ StoreOK /\ ControlOK /\ ArgsOK /\ HistoryOK
          /\ tokens \in [Procs -> [Tokens -> Row]]

\* A token allows at most max_uses requests, whatever gateways race for it and
\* even when an unlocked reset writes back a stale use count.
WithinMaxUses == \A t \in Tokens : uses[t] > 0 => uses[t] <= grantOf[t].maxUses

\* Authority is created, never regained: a request that was not allowed becomes
\* allowed only by the creation of a token, never by a use, a revocation, the
\* clock or a crash.
AuthorityOnlyCreated ==
    [][\A q \in Requests :
          /\ Verdict(file, q) # "allow"
          /\ Verdict(file, q)' = "allow"
          => nextToken' # nextToken]_vars

\* A token whose revocation has completed never allows again.
RevocationSticks == \A t \in recalled : ~file[t].there \/ file[t].revoked

\* Tokens for another actor, action or path never change a verdict
\* (issue #77, delegations.py:193-201).
Without(list, dropped) == [t \in Tokens |-> IF t \in dropped THEN NoRow
                                            ELSE list[t]]

UnrelatedIgnored ==
    \A q \in Requests :
        LET unrelated == {t \in Tokens : file[t].there /\ ~Relevant(t, q)}
        IN unrelated # {} => Verdict(file, q) = Verdict(Without(file, unrelated), q)
=============================================================================
