----------------------------- MODULE ClaudeLog ------------------------------
(***************************************************************************)
(* A Claude Code session log turned into events                            *)
(* (packages/core/src/normalize/claude-code.ts, -flat.ts, -real.ts).       *)
(*                                                                         *)
(* A line is torn, no JSON; odd, JSON whose fields make a handler throw;   *)
(* flat, of the older grammar; or real, with the blocks of message.content *)
(* (at = 0 for no timestamp, session = "" for no session id).  Text is     *)
(* left out, but for its absence: a "blank" block of a user, an empty text.*)
(***************************************************************************)
EXTENDS SessionEvents, FiniteSetsExt

ToolUse == [kind : {"tool_use"}, use : STRING, argv : Seq(STRING), cwd : Seq(STRING)]
MessageBlock == ToolUse \cup [kind : {"tool_result"}, use : STRING]
                        \cup [kind : {"text", "thinking", "blank"}]

ClaudeLine ==
    [form : {"torn"}, at : Nat] \cup
    [form : {"odd"}, at : Nat, session : STRING] \cup
    [form : {"flat"}, at : Nat, session : STRING, type : STRING, calls : Seq(ToolUse),
     argv : Seq(STRING)] \cup
    [form : {"real"}, at : Nat, session : STRING, role : STRING, blocks : Seq(MessageBlock)]

AsCall(e, call) == [e EXCEPT !.use = call.use, !.argv = call.argv, !.cwd = call.cwd]

\* The id of the k-th event of line n.
LineEvent(n, k) == <<"log", n, k>>

---------------------------------------------------------------------------
(* Lines whose message carries content blocks. *)

\* A user line answers tools and asks; each block shown keeps its position.
UserEvents(blocks, n, mono, at, parent) ==
    LET shown == InOrder({i \in DOMAIN blocks : blocks[i].kind \in {"tool_result", "text"}})
        shape(i) == IF blocks[i].kind = "tool_result"
                    THEN [BuildEvent(LineEvent(n, i), "tool_result", at, mono + i - 1, parent)
                            EXCEPT !.use = blocks[i].use]
                    ELSE BuildEvent(LineEvent(n, i), "prompt", at, mono + i - 1, parent)
    IN  IF shown = <<>> THEN <<BuildEvent(LineEvent(n, 1), "prompt", at, mono, parent)>>
        ELSE [k \in DOMAIN shown |-> shape(shown[k])]

\* An assistant line thinks, speaks and calls tools, in this order whatever
\* the order of its blocks; the calls hang under the last thing said.
AssistantEvents(blocks, n, mono, at, parent) ==
    LET some(kind) == \E i \in DOMAIN blocks : blocks[i].kind = kind
        message(k, m, under) == BuildEvent(LineEvent(n, k), "assistant_message", at, m, under)
        thought == IF some("thinking") THEN <<message(1, mono, parent)>> ELSE <<>>
        said == IF ~some("text") THEN thought
                ELSE Append(thought, message(2, mono + Len(thought),
                                             IF thought = <<>> THEN parent ELSE thought[1].id))
        above == IF said = <<>> THEN parent ELSE Last(said).id
        uses == ElementsAt(blocks, {i \in DOMAIN blocks : blocks[i].kind = "tool_use"})
        calls == [k \in DOMAIN uses |->
                    AsCall(BuildEvent(LineEvent(n, 2 + k), "tool_call_intent", at,
                                      mono + Len(said) + k - 1, above), uses[k])]
    IN  IF said \o calls = <<>> THEN <<message(1, mono, parent)>> ELSE said \o calls

NormalizeRealSessionLine(line, n, mono, at, parent) ==
    CASE line.role = "user" -> UserEvents(line.blocks, n, mono, at, parent)
      [] line.role = "assistant" -> AssistantEvents(line.blocks, n, mono, at, parent)
      [] OTHER -> <<BuildEvent(LineEvent(n, 1), "gap", at, mono, parent)>>

---------------------------------------------------------------------------
(* The older, flat lines. *)

FlatCalls(line, n, mono, at) ==
    <<BuildEvent(LineEvent(n, 1), "assistant_message", at, mono, NoEvent)>> \o
    [k \in DOMAIN line.calls |->
        AsCall(BuildEvent(LineEvent(n, 1 + k), "tool_call_intent", at, mono + k, LineEvent(n, 1)),
               [line.calls[k] EXCEPT !.use = ""])]

FlatCommand(line, n, mono, at, parent) ==
    <<[BuildEvent(LineEvent(n, 1), "shell_command_pre", at, mono, parent)
         EXCEPT !.argv = line.argv, !.source = "reconstructed"],
      BuildEvent(LineEvent(n, 2), "shell_command_post", at, mono + 1, LineEvent(n, 1))>>

\* What a line of each type is shown as when one event is all it makes.
FlatTypes ==
    [user |-> "prompt", prompt |-> "prompt", human |-> "prompt",
     tool |-> "tool_result", tool_result |-> "tool_result",
     file_edit |-> "file_diff", file_diff |-> "file_diff", edit |-> "file_diff",
     error |-> "error"]

NormalizeFlatLine(line, n, mono, at, parent) ==
    CASE line.type \in {"assistant", "ai"} ->
           LET made == FlatCalls(line, n, mono, at) IN [made EXCEPT ![1].parent = parent]
      [] line.type \in {"shell_command", "command"} -> FlatCommand(line, n, mono, at, parent)
      [] line.type \in DOMAIN FlatTypes ->
           <<BuildEvent(LineEvent(n, 1), FlatTypes[line.type], at, mono, parent)>>
      [] OTHER -> <<BuildEvent(LineEvent(n, 1), "gap", at, mono, parent)>>

NormalizeClaudeCodeLine(line, n, mono, at, parent) ==
    IF line.form = "real" THEN NormalizeRealSessionLine(line, n, mono, at, parent)
    ELSE NormalizeFlatLine(line, n, mono, at, parent)

---------------------------------------------------------------------------
(* The whole log. *)

Parsed(lines) == {i \in DOMAIN lines : lines[i].form # "torn"}

\* The first of the session ids the log carries, "" when it carries none.
ClaudeSessionId(lines) ==
    LET with == {i \in Parsed(lines) : lines[i].session # ""}
    IN  IF with = {} THEN "" ELSE lines[Min(with)].session

\* The earliest timestamp, the clock when there is none.
ClaudeSessionStart(lines, now) ==
    Min({now} \cup ({lines[i].at : i \in Parsed(lines)} \ {0}))

\* Faulty: a line that does not parse is passed over.
NormalizeNextSkipping(done, line, n, start) ==
    IF line.form = "torn" THEN done
    ELSE LET at   == IF line.at = 0 THEN start ELSE line.at
             made == IF line.form = "odd"
                     THEN <<BuildEvent(LineEvent(n, 1), "gap", at, done.mono, done.last)>>
                     ELSE NormalizeClaudeCodeLine(line, n, done.mono, at, done.last)
         IN  [events |-> done.events \o made,
              mono   |-> done.mono + 1,
              last   |-> IF line.form = "odd" THEN done.last ELSE Last(made).id]

\* One line: mono is drawn once for it, and the last event it makes becomes
\* the parent of the next line's.  A line nobody can read becomes a gap and
\* nobody's parent.
NormalizeNext(done, line, n, start) ==
    LET read == line.form \notin {"torn", "odd"}
        at   == IF line.form = "torn" \/ line.at = 0 THEN start ELSE line.at
        made == IF read THEN NormalizeClaudeCodeLine(line, n, done.mono, at, done.last)
                ELSE <<BuildEvent(LineEvent(n, 1), "gap", at, done.mono, done.last)>>
    IN  [events |-> done.events \o made,
         mono   |-> done.mono + 1,
         last   |-> IF read THEN Last(made).id ELSE done.last]

NormalizeClaudeCodeJsonl(lines, now) ==
    LET start == ClaudeSessionStart(lines, now)
        done[n \in 0..Len(lines)] ==
            IF n = 0 THEN [events |-> <<>>, mono |-> 0, last |-> NoEvent]
            ELSE NormalizeNext(done[n - 1], lines[n], n, start)
    IN  done[Len(lines)].events
=============================================================================
