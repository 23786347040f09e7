----------------------------- MODULE MCSession -----------------------------
EXTENDS Session

Of(tool, target, needs) == [tool |-> tool, target |-> target, needs |-> needs]
Note(method) == [method |-> method, call |-> NoCall]
Calling(c) == [method |-> "tools/call", call |-> c]

FreeWrite == Calling(Of("write_file", "root", "ALLOW"))
BlockedCall == Calling(Of("run_shell_command", "dangerous", "DENY"))
HeldCommand == Calling(Of("run_shell_command", "demo", "REQUIRE_APPROVAL"))

\* One message at least for every way through the server.
AllMessages == {Note("initialized"), Note("initialize"), Note("unknown"), Note("garbage"),
                FreeWrite, BlockedCall, HeldCommand}
=============================================================================
