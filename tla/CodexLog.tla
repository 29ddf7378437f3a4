------------------------------ MODULE CodexLog ------------------------------
(***************************************************************************)
(* A Codex rollout turned into events (packages/core/src/normalize/        *)
(* codex.ts, codex-types.ts, codex-items.ts).                              *)
(*                                                                         *)
(* A line is torn or an object, enveloped when it has a payload (the v2    *)
(* grammar); item is the response item in the payload, or the line itself  *)
(* in the v1 grammar, where type is that item's type, "" on the line with  *)
(* the session's facts.                                                    *)
(***************************************************************************)
EXTENDS SessionEvents, FiniteSetsExt

Item ==
    [type : STRING, role : STRING, use : STRING, command : {"none", "array", "string"},
     argv : Seq(STRING)]

CodexLine ==
    [form : {"torn"}, at : Nat] \cup
    [form : {"object"}, enveloped : BOOLEAN, type : STRING, at : Nat, session : STRING, item : Item]

\* The id of the k-th event of line n.
ItemEvent(n, k) == <<"log", n, k>>

\* The first of the lines at some places, if there is one.
FirstOf(lines, places) == IF places = {} THEN {} ELSE {lines[Min(places)]}

Objects(lines) == {i \in DOMAIN lines : lines[i].form = "object"}

\* The grammar of the first line that shows one; v2 when none does.
DetectCodexFormat(lines) ==
    IF \E l \in FirstOf(lines, Objects(lines)) : ~l.enveloped THEN "v1" ELSE "v2"

\* The line with the session's own facts, if there is one.
ReadSessionMeta(lines) ==
    LET v2 == DetectCodexFormat(lines) = "v2"
        facts(l) == IF v2 THEN l.enveloped /\ l.type = "session_meta" ELSE l.type = ""
    IN  FirstOf(lines, {i \in Objects(lines) : facts(lines[i])})

CodexSessionId(lines) ==
    IF \E l \in ReadSessionMeta(lines) : l.session # ""
    THEN (CHOOSE l \in ReadSessionMeta(lines) : TRUE).session ELSE ""

\* The response item a line carries, if any.  Of a v2 file only response_item
\* lines carry one: event_msg lines repeat what is already there.  In a v1 file
\* an envelope is an item with none of an item's other fields.
ReadEnvelope(line, format) ==
    IF format = "v2"
    THEN IF line.enveloped /\ line.type = "response_item" THEN {line.item} ELSE {}
    ELSE IF line.type = "" THEN {}
         ELSE IF line.enveloped
              THEN {[line.item EXCEPT !.type = line.type, !.role = "", !.use = "", !.command = "none"]}
              ELSE {line.item}

\* The call, and the command it runs when it is a shell's.  A command given
\* as one string is wrapped the way the Claude hook wraps one; only a string
\* is found again by the merge's extractArgvFromToolInput.
CallEvents(item, n, mono, at, parent) ==
    LET intent == [BuildEvent(ItemEvent(n, 1), "tool_call_intent", at, mono, parent)
                     EXCEPT !.use = item.use,
                            !.argv = IF item.command = "string" THEN item.argv ELSE <<>>]
        pre == [BuildEvent(ItemEvent(n, 2), "shell_command_pre", at, mono + 1, intent.id)
                  EXCEPT !.argv = IF item.command = "string" THEN <<"bash", "-c", "line">>
                                  ELSE item.argv,
                         !.source = "reconstructed"]
    IN  IF item.command = "none" THEN <<intent>> ELSE <<intent, pre>>

\* Reasoning, system and developer messages and items of unknown type make
\* no event.
ItemToEvents(item, n, mono, at, parent) ==
    CASE item.type = "message" /\ item.role = "user" ->
           <<BuildEvent(ItemEvent(n, 1), "prompt", at, mono, NoEvent)>>
      [] item.type = "message" /\ item.role = "assistant" ->
           <<BuildEvent(ItemEvent(n, 1), "assistant_message", at, mono, parent)>>
      [] item.type \in {"function_call", "local_shell_call"} ->
           CallEvents(item, n, mono, at, parent)
      [] item.type \in {"function_call_output", "local_shell_call_output"} ->
           <<[BuildEvent(ItemEvent(n, 1), "tool_result", at, mono, parent) EXCEPT !.use = item.use]>>
      [] OTHER -> <<>>

\* One line.  The time of the last dated line holds until the next one; only
\* what was said becomes a parent.
CodexNext(done, line, n, format) ==
    IF line.form = "torn" \/ (format = "v2" /\ line.type = "") THEN done
    ELSE LET at   == IF line.at = 0 THEN done.at ELSE line.at
             made == IF ReadEnvelope(line, format) = {} THEN <<>>
                     ELSE ItemToEvents(CHOOSE i \in ReadEnvelope(line, format) : TRUE,
                                       n, Len(done.events), at, done.last)
             said == {k \in DOMAIN made : made[k].type \in {"prompt", "assistant_message"}}
         IN  [events |-> done.events \o made,
              at     |-> at,
              last   |-> IF said = {} THEN done.last ELSE made[Max(said)].id]

NormalizeCodexJsonl(lines, now) ==
    LET meta == {l \in ReadSessionMeta(lines) : l.at # 0}
        start == IF meta = {} THEN now ELSE (CHOOSE l \in meta : TRUE).at
        format == DetectCodexFormat(lines)
        done[n \in 0..Len(lines)] ==
            IF n = 0 THEN [events |-> <<>>, at |-> start, last |-> NoEvent]
            ELSE CodexNext(done[n - 1], lines[n], n, format)
    IN  done[Len(lines)].events
=============================================================================
