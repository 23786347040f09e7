--------------------------- MODULE Classification ---------------------------
(***************************************************************************)
(* How a tool call becomes a request and a decision: the inference and     *)
(* reconciliation of trust (agent_sudo/models.py, adapters/common.py), the *)
(* rules of agent_sudo/classifier.py in their order, and the policy's      *)
(* decision (agent_sudo/policy.py).  Everything here is a function.        *)
(*                                                                         *)
(* A target is one of a few kinds of target, told apart by the predicates  *)
(* the classifier has on it.  A hint stands for the set of hints it is     *)
(* in.  Whether the texts of a request match an injection pattern is a     *)
(* fact of the request.                                                    *)
(***************************************************************************)
EXTENDS Naturals, FiniteSets

CONSTANT Policy   \* the class the policy file gives to each action

Classes == {"SAFE", "SENSITIVE", "CRITICAL", "BLOCKED"}
ClassRank == [SAFE |-> 0, SENSITIVE |-> 1, CRITICAL |-> 2, BLOCKED |-> 3]

TrustLevels == {"UNKNOWN", "EXTERNAL_CONTENT", "AGENT_INTERNAL", "USER_DIRECT"}
TrustRank == [UNKNOWN |-> 0, EXTERNAL_CONTENT |-> 1, AGENT_INTERNAL |-> 2,
              USER_DIRECT |-> 3]

OriginTypes == {"USER_DIRECT", "LOCAL_UI", "AGENT_INTERNAL",
                "EXTERNAL_CONTENT", "EXTERNAL_API", "UNKNOWN"}

Actions == DOMAIN Policy

ASSUME PolicyAssumption == /\ Policy \in [Actions -> Classes]
                           /\ "unknown_tool_call" \in Actions

\* Kinds of `source`: the user, tokens that name external content ("web" and
\* "slack", of which only the first also gives an origin), an API, an agent.
Sources == {"user", "web", "slack", "api", "agent", "other"}
ExternalSources == {"web", "slack"}

\* Kinds of target, with a member of each:
\*   plain notes.txt        outside /opt/notes.txt   script run.py
\*   settings deploy.yaml   config ~/.config/app/a   hook ~/.config/start.sh
\*   secret ~/.ssh/id_rsa   private ~/Library/Mail/a   worded token.txt
\*   profile ~/Library/Application Support/Firefox/a
\*   danger rm -rf build, mutation git push (commands)
Targets == {"plain", "outside", "script", "settings", "config", "hook",
            "secret", "private", "worded", "profile", "danger", "mutation"}

\* "inconsistent" is the hint that reconcile_trust adds; no rule reads it.
Hints == {"blocking", "critical", "sensitive", "inconsistent"}

Request == [action : Actions, target : Targets, hints : SUBSET Hints,
            injected : BOOLEAN, source : Sources, origin : OriginTypes,
            trust : TrustLevels]

\* A call as it arrives: origin and trust may be left out.
ToolCall == [action : Actions, target : Targets, hints : SUBSET Hints,
             injected : BOOLEAN, source : Sources,
             origin : OriginTypes \cup {"absent"},
             trust : TrustLevels \cup {"absent"}]

-----------------------------------------------------------------------------
\* Trust.

ExternalOrigins == {"EXTERNAL_CONTENT", "EXTERNAL_API"}

\* _trust_from_provenance.
TrustOf(origin) == CASE origin \in ExternalOrigins -> "EXTERNAL_CONTENT"
                     [] origin \in {"USER_DIRECT", "AGENT_INTERNAL"} -> origin
                     [] OTHER -> "UNKNOWN"

\* What origin and source give evidence for; no opinion is no evidence.
Evidence(source, origin) ==
    (IF origin \in {"LOCAL_UI", "UNKNOWN"} THEN {} ELSE {TrustOf(origin)})
    \cup (IF source = "user" THEN {"USER_DIRECT"} ELSE {})
    \cup (IF source \in ExternalSources THEN {"EXTERNAL_CONTENT"} ELSE {})

\* Mutant of Excessive: a claim is compared with the best evidence.
ExcessiveForAll(trust, evidence) ==
    /\ evidence # {}
    /\ \A level \in evidence : TrustRank[trust] > TrustRank[level]

\* The claim is above the least of the evidence.
Excessive(trust, evidence) ==
    \E level \in evidence : TrustRank[trust] > TrustRank[level]

Least(evidence) == CHOOSE level \in evidence :
                       \A other \in evidence :
                           TrustRank[level] <= TrustRank[other]

\* reconcile_trust and its callers: the trust is capped, the hint appended.
Reconcile(q) ==
    LET evidence == Evidence(q.source, q.origin)
    IN IF Excessive(q.trust, evidence)
       THEN [q EXCEPT !.trust = Least(evidence),
                      !.hints = @ \cup {"inconsistent"}]
       ELSE q

With(call, origin, trust, hints) ==
    [action |-> call.action, target |-> call.target, hints |-> hints,
     injected |-> call.injected, source |-> call.source,
     origin |-> origin, trust |-> trust]

\* ActionRequest.from_dict: an explicit claim is reconciled, and without one
\* the origin alone decides.
FromDict(call) ==
    LET origin == IF call.origin = "absent" THEN "UNKNOWN" ELSE call.origin
    IN IF call.trust = "absent"
       THEN With(call, origin, TrustOf(origin), call.hints)
       ELSE Reconcile(With(call, origin, call.trust, call.hints))

\* The adapters infer a missing origin from the source.
InferredOrigin(source) == CASE source = "user" -> "USER_DIRECT"
                            [] source = "api" -> "EXTERNAL_API"
                            [] source = "web" -> "EXTERNAL_CONTENT"
                            [] source = "agent" -> "AGENT_INTERNAL"
                            [] OTHER -> "UNKNOWN"

InferredTrust(source, origin) ==
    IF TrustOf(origin) # "UNKNOWN" THEN TrustOf(origin)
    ELSE CASE source = "user" -> "USER_DIRECT"
           [] source \in ExternalSources -> "EXTERNAL_CONTENT"
           [] OTHER -> "UNKNOWN"

\* Calls the adapters recognise get the hints of their builder; two kinds keep
\* their own; every other call becomes an unknown one.
BuilderHints == [read_file |-> {}, write_file |-> {"sensitive"},
                 edit_file |-> {"sensitive"}, delete_file |-> {"critical"},
                 browser_click |-> {"sensitive"}, send_message |-> {"sensitive"},
                 send_email |-> {"critical"}, modify_auth |-> {"critical"},
                 create_cron |-> {"sensitive"},
                 run_shell_command |-> {"sensitive"}]

PassedThrough == {"get_runtime_context", "exfiltrate_secrets", "disable_audit",
                  "bypass_policy", "send_tokens", "destructive_recursive_delete"}

\* The kinds of call that the recognisers find, by words in their names.
Builders == DOMAIN BuilderHints

Recognised(call) ==
    IF call.action \in Builders \cup PassedThrough THEN call
    ELSE [call EXCEPT !.action = "unknown_tool_call"]

\* normalize_tool_call.
Normalize(call) ==
    LET origin == IF call.origin = "absent" THEN InferredOrigin(call.source)
                  ELSE call.origin
        trust == IF call.trust = "absent" THEN InferredTrust(call.source, origin)
                 ELSE call.trust
        hints == IF call.action \in Builders
                 THEN BuilderHints[call.action] ELSE call.hints
    IN Reconcile(With(Recognised(call), origin, trust, hints))

-----------------------------------------------------------------------------
\* The predicates on targets.  Those on paths overlap.

Credentials == {"secret"}
UserConfig == {"config", "hook"}       \* below ~/.config
Startup == {"script", "hook"}          \* what something else will run or load
Private == {"private"}                 \* mail, messages and keychains on macOS
Browsers == {"profile"}                \* a browser's files, but for its cookies
Mutations == {"mutation"}              \* of a git or GitHub remote
ProtectedTargets == {"settings"}

BlockedCommands == Credentials \cup UserConfig \cup Mutations \cup Private \cup {"danger"}
BlockedReads == Credentials \cup UserConfig \cup Browsers \cup Private \cup {"worded"}
BlockedWrites == Credentials
CriticalWrites == Startup \cup ProtectedTargets
ForbiddenPaths == BlockedWrites \cup UserConfig
OutsideWrites == Credentials \cup UserConfig \cup Browsers \cup Private \cup {"outside"}

FileWriteActions == {"write_file", "edit_file"}
PathWriteActions == FileWriteActions \cup {"delete_file"}
ProtectedWriteActions == PathWriteActions \cup
                         {"run_shell_command", "modify_auth", "create_cron"}

\* A text of the request matches an injection pattern.
Injected(q) == q.injected

\* The rules before the policy is asked.
Blocked(q) ==
    \/ q.action = "prompt_injection_attempt"
    \/ Injected(q)
    \/ "blocking" \in q.hints
    \/ q.action = "run_shell_command" /\ q.target \in BlockedCommands
    \/ q.action \in {"read_file", "search_files"} /\ q.target \in BlockedReads

CriticalWrite(q) == q.action \in FileWriteActions /\ q.target \in CriticalWrites

ProtectedWrite(q) == /\ q.action \in ProtectedWriteActions
                     /\ q.target \in ProtectedTargets

\* A path nobody may write, unless the critical-write rule comes first.
ForbiddenWrite(q) ==
    \/ q.action \in PathWriteActions /\ q.target \in BlockedWrites
    \/ /\ ~CriticalWrite(q)
       /\ \/ q.action \in PathWriteActions /\ q.target \in ForbiddenPaths
          \/ q.action \in FileWriteActions /\ q.target \in OutsideWrites

AtLeast(class, base) == IF ClassRank[base] < ClassRank[class] THEN class ELSE base

\* The last rules, where the first that applies wins: untrusted provenance,
\* then the hints.
Provenance(q, base) ==
    IF q.origin = "EXTERNAL_CONTENT" \/ q.trust \in {"EXTERNAL_CONTENT", "UNKNOWN"}
    THEN AtLeast("SENSITIVE", base)
    ELSE IF "critical" \in q.hints THEN AtLeast("CRITICAL", base)
    ELSE IF "sensitive" \in q.hints THEN AtLeast("SENSITIVE", base)
    ELSE base

\* ActionClassifier.classify.
Classify(q) ==
    IF Blocked(q) THEN "BLOCKED"
    ELSE IF q.action = "get_runtime_context" THEN "SAFE"
    ELSE IF ForbiddenWrite(q) THEN "BLOCKED"
    ELSE IF CriticalWrite(q) \/ ProtectedWrite(q)
    THEN AtLeast("CRITICAL", Policy[q.action])
    ELSE Provenance(q, Policy[q.action])

\* Policy.decision_for.
DecisionFor == [SAFE |-> "ALLOW", SENSITIVE |-> "REQUIRE_APPROVAL",
                CRITICAL |-> "REQUIRE_STRONG_APPROVAL", BLOCKED |-> "DENY"]

\* _external_content_requires_delegation, its test of the decision apart.
External(q) == "EXTERNAL_CONTENT" \in {q.origin, q.trust}
=============================================================================
