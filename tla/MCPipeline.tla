----------------------------- MODULE MCPipeline -----------------------------
(* Lines and records for small sessions. *)
EXTENDS Pipeline

Call(use) == [kind |-> "tool_use", use |-> use, argv |-> <<"rm", "x">>, cwd |-> <<"w">>]
Answer(use) == [kind |-> "tool_result", use |-> use]
Block(kind) == [kind |-> kind]

Real(role, at, blocks) ==
    [form |-> "real", at |-> at, session |-> "s", role |-> role, blocks |-> blocks]
Flat(type, at, session) ==
    [form |-> "flat", at |-> at, session |-> session, type |-> type,
     calls |-> <<Call("")>>, argv |-> <<"rm", "x">>]

ClaudeLines ==
    {Real("assistant", 1, <<Block("text"), Block("thinking"), Call("u"), Call("v")>>),
     Real("user", 1, <<Answer("u"), Answer("v"), Block("text")>>),
     Real("user", 1, <<Block("blank")>>),
     Flat("assistant", 0, ""), Flat("tool", 1, ""), Flat("command", 1, ""),
     [form |-> "torn", at |-> 0], [form |-> "odd", at |-> 1, session |-> "s"]}

ItemOf(type, role, use, command) ==
    [type |-> type, role |-> role, use |-> use, command |-> command, argv |-> <<"rm", "x">>]
Enveloped(type, at, session, item) ==
    [form |-> "object", enveloped |-> TRUE, type |-> type, at |-> at, session |-> session,
     item |-> item]
Bare(type, at, session, item) ==
    [form |-> "object", enveloped |-> FALSE, type |-> type, at |-> at, session |-> session,
     item |-> item]

CodexLines ==
    LET call == ItemOf("function_call", "", "u", "array")
        ran == ItemOf("local_shell_call", "", "u", "string")
        said == ItemOf("message", "assistant", "", "none")
    IN  {Enveloped("session_meta", 1, "s", call), Enveloped("response_item", 1, "", call),
         Enveloped("response_item", 0, "", ItemOf("function_call_output", "", "u", "none")),
         Bare("", 1, "s", call), Bare("message", 1, "", said), Bare("local_shell_call", 1, "", ran),
         [form |-> "torn", at |-> 0]}

SomeLogLines == [claude |-> ClaudeLines, codex |-> CodexLines]

SomeHistoryLines ==
    {[form |-> "marker", at |-> 1, stages |-> <<>>],
     [form |-> "plain", at |-> 0, stages |-> <<<<"rm", "x">>, <<"ls">>>>],
     [form |-> "cmd", at |-> 0, stages |-> <<<<"rm", "x">>>>], [form |-> "empty", at |-> 0, stages |-> <<>>],
     [form |-> "when", at |-> 1, stages |-> <<>>]}

SomeReflogLines == {[form |-> "dated", at |-> 1], [form |-> "bare", at |-> 0], [form |-> "junk", at |-> 0]}

Record(form, at, session, by, pids, input) ==
    [form |-> form, at |-> at, session |-> session, mtime |-> 0, source |-> by,
     pids |-> pids, input |-> input, link |-> NoEvent,
     argv |-> IF by = "hook" THEN <<"bash", "-c", "line">> ELSE <<"rm", "x">>,
     cwd |-> <<"w">>]

SomeRecords ==
    {Record("shell", 1, "s", "hook", {1, 2}, "i"), Record("shell", 1, "t", "hook", {1, 2}, "i"),
     Record("shell", 1, "", "shim", {2, 3}, "none"), Record("shell", 0, "", "hook", {}, "i"),
     Record("effect", 1, "s", "post", {}, "i"), Record("execve", 1, "s", "kernel", {2, 4}, "none"),
     Record("junk", 0, "", "", {}, "none")}

SomeFailureLines ==
    {Record("capture_failed", 1, "s", "", {}, "none"), Record("torn", 0, "", "", {}, "none")}
=============================================================================
