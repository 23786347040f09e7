------------------------------- MODULE Tools -------------------------------
(***************************************************************************)
(* What the tools of agent_sudo/mcp_gateway.py do with a call that the     *)
(* gateway has allowed.  They check the target once more on their own.     *)
(*                                                                         *)
(* A target is known by its kind: where a path lies once it is resolved,   *)
(* what a command line is.                                                 *)
(***************************************************************************)
EXTENDS FiniteSets

ToolNames == {"read_file", "write_file", "run_shell_command",
              "get_runtime_context", "unimplemented"}

\* Regions a write can resolve to: the .git and .agent-sudo directories of the
\* write root and ~/.agent-sudo, the files of the gateway's stores wherever
\* they are, the rest of the root, and everything else.
Regions == {"git", "workspace_state", "home_state", "store_file", "root", "outside"}

\* Commands: unparsable or empty, in the demo allowlist, dangerous (a recursive
\* delete, a mutation of git or GitHub, a network client, credentials), other.
Commands == {"invalid", "demo", "dangerous", "plain"}

\* How a tool ends: it did its work; it refused before any of it; it failed
\* with an OSError, which is answered; or it raised something else.
Ends == {"done", "refused", "failed", "raised"}

\* _write_file: everything but the rest of the root is refused.
MayWrite(region) == region = "root"

\* _demo_shell_allowed; python3 -m unittest counts as a demo command.
MayRun(command) == command = "demo"

Attempt == {"done", "failed", "raised"}

\* _execute_demo_tool.  A path that cannot be resolved is refused, or raises.
Execute(tool, target) ==
    CASE tool = "read_file" -> Attempt
      [] tool = "write_file" -> IF MayWrite(target) THEN Attempt ELSE {"refused", "raised"}
      [] tool = "run_shell_command" -> IF MayRun(target) THEN Attempt ELSE {"refused"}
      [] tool = "get_runtime_context" -> {"done", "failed"}
      [] OTHER -> {"refused"}

\* What the call has done to the world by then.  A write truncates the file
\* before it can fail; a command whose output is not UTF-8 raises after it ran.
Effects(tool, end) ==
    CASE end = "done" -> {"full"}
      [] end = "failed" /\ tool = "write_file" -> {"none", "partial"}
      [] end = "raised" /\ tool = "write_file" -> {"none", "partial"}
      [] end = "raised" /\ tool = "run_shell_command" -> {"none", "full"}
      [] OTHER -> {"none"}
=============================================================================
