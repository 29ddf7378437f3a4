------------------------------ MODULE Pipeline ------------------------------
(***************************************************************************)
(* From the files of a session to the timeline of its bundle: the agent    *)
(* writes its log, the hooks, the shim and the collector the capture       *)
(* store, the user a shell history and a reflog, `depose captures prune`   *)
(* deletes old records, and loadAndMergeEvents (cli/src/pipeline.ts) reads *)
(* all of it, one file after the other, with nothing held still.           *)
(*                                                                         *)
(* The log and its siblings are read before the store; what is added to    *)
(* them later is no part of this bundle and is left out.  Reading takes    *)
(* less than the clock's unit.                                             *)
(***************************************************************************)
EXTENDS ClaudeLog, CodexLog, Histories, CaptureScope, MergeTimeline

CONSTANTS
    LogLines,      \* what the agent may write, by source ("claude", "codex")
    HistoryLines,  \* what may stand in the shell history
    ReflogLines,   \* what may stand in the reflog
    Records,       \* what may be written to the store
    FailureLines,  \* what may be appended to the sidecar
    Delays,        \* how far the clock may jump
    Ages,          \* --older-than
    MaxItems,      \* bound: lines and records written
    MaxTicks,      \* bound: jumps of the clock
    MaxPruned      \* bound: records deleted

ASSUME LogLinesShaped ==
    \A s \in DOMAIN LogLines :
        LogLines[s] \subseteq (IF s = "codex" THEN CodexLine ELSE ClaudeLine)
ASSUME HistoriesShaped == HistoryLines \subseteq HistoryLine /\ ReflogLines \subseteq ReflogLine
ASSUME RecordsShaped == Records \cup FailureLines \subseteq CaptureRecord
ASSUME TimesAreNumbers == Delays \subseteq Nat /\ Window \in Nat /\ Slack \in 0..Window

VARIABLES
    source,     \* --source
    all,        \* --include-unscoped-captures
    log, history, reflog, sidecar,   \* the files, line by line
    written,    \* every record ever written, by id
    gone,       \* the ids of those deleted
    clock, ticks,
    pc,         \* where loadAndMergeEvents is
    spine, shell, refs,   \* events of the log, the history and the reflog
    listing,    \* names the directory had, still to be read
    listed,     \* names it had
    reading,    \* what the store has given so far
    out         \* what mergeEvents returned

vars == <<source, all, log, history, reflog, sidecar, written, gone, clock, ticks, pc,
          spine, shell, refs, listing, listed, reading, out>>

files == <<source, all, log, history, reflog, sidecar, written, gone>>
package == <<pc, spine, shell, refs, listing, listed, reading, out>>

Store == DOMAIN written \ gone

Items == Len(log) + Len(history) + Len(reflog) + Len(sidecar) + Cardinality(DOMAIN written)

Init ==
    /\ source \in DOMAIN LogLines
    /\ all \in BOOLEAN
    /\ log = <<>> /\ history = <<>> /\ reflog = <<>> /\ sidecar = <<>>
    /\ written = <<>> /\ gone = {}
    /\ clock = 1 /\ ticks = 0
    /\ pc = "log"
    /\ spine = <<>> /\ shell = <<>> /\ refs = <<>>
    /\ listing = <<>> /\ listed = {}
    /\ reading = NothingRead
    /\ out = [events |-> <<>>, links |-> {}, kernel |-> {}]

---------------------------------------------------------------------------
(* Everybody else. *)

\* at = 1 in a line or a record of the constants stands for the time it is
\* written, 0 for none.
Stamped(x) == [x EXCEPT !.at = @ * clock]

AgentLogs ==
    /\ pc = "log" /\ Items < MaxItems
    /\ \E line \in LogLines[source] : log' = Append(log, Stamped(line))
    /\ UNCHANGED <<source, all, history, reflog, sidecar, written, gone, clock, ticks, package>>

UserWorks ==
    /\ pc = "log" /\ Items < MaxItems
    /\ \/ /\ \E line \in HistoryLines : history' = Append(history, Stamped(line))
          /\ UNCHANGED reflog
       \/ /\ \E line \in ReflogLines : reflog' = Append(reflog, Stamped(line))
          /\ UNCHANGED history
    /\ UNCHANGED <<source, all, log, sidecar, written, gone, clock, ticks, package>>

\* An effect names an intent of the store or, its marker lost, none.
RecordWritten ==
    /\ pc # "done" /\ Items < MaxItems
    /\ \E record \in Records :
         \E link \in {NoEvent} \cup
              {<<"store", id>> : id \in {i \in DOMAIN written : /\ record.form = "effect"
                                                             /\ written[i].source = "hook"}} :
           written' = Append(written, [Stamped(record) EXCEPT !.mtime = clock, !.link = link])
    /\ UNCHANGED <<source, all, log, history, reflog, sidecar, gone, clock, ticks, package>>

FailureWritten ==
    /\ pc # "done" /\ Items < MaxItems
    /\ \E line \in FailureLines : sidecar' = Append(sidecar, Stamped(line))
    /\ UNCHANGED <<source, all, log, history, reflog, written, gone, clock, ticks, package>>

Tick ==
    /\ pc = "log" /\ ticks < MaxTicks
    /\ \E d \in Delays : clock' = clock + d
    /\ ticks' = ticks + 1
    /\ UNCHANGED <<files, package>>

\* handleCapturesPrune with --yes, one unlink at a time.
CapturesPrune ==
    /\ pc # "done" /\ Cardinality(gone) < MaxPruned
    /\ \E age \in Ages, id \in Store :
         written[id].mtime < clock - age /\ gone' = gone \cup {id}
    /\ UNCHANGED <<source, all, log, history, reflog, sidecar, written, clock, ticks, package>>

---------------------------------------------------------------------------
(* loadAndMergeEvents *)

SessionLogEvents ==
    IF source = "codex" THEN NormalizeCodexJsonl(log, clock) ELSE NormalizeClaudeCodeJsonl(log, clock)

AgentSessionId == IF source = "codex" THEN CodexSessionId(log) ELSE ClaudeSessionId(log)

SessionStart(events) == IF events = <<>> THEN clock ELSE Head(events).at

\* The session lasts from the first line of the file to the last.
Scope ==
    [session |-> AgentSessionId, all |-> all,
     starts |-> SessionStart(spine),
     ends |-> IF spine = <<>> THEN clock ELSE Last(spine).at]

\* The log, then its two siblings; nobody else's step bears on these.
ReadLog ==
    /\ pc = "log"
    /\ spine' = SessionLogEvents
    /\ shell' = ShellHistoryEvents(history, Len(spine'), SessionStart(spine'))
    /\ refs' = ReflogToEvents(ParseGitReflog(reflog), Len(spine') + Len(shell'), clock)
    /\ pc' = "list"
    /\ UNCHANGED <<files, clock, ticks, listing, listed, reading, out>>

ListStore ==
    /\ pc = "list"
    /\ listing' = InOrder(Store)
    /\ listed' = Store
    /\ pc' = "read"
    /\ UNCHANGED <<files, clock, ticks, spine, shell, refs, reading, out>>

Offset == Len(spine) + Len(shell) + Len(refs)

ReadFile ==
    /\ pc = "read" /\ listing # <<>>
    /\ LET id == Head(listing)
           found == IF id \in gone THEN {} ELSE {written[id]}
       IN  reading' = ReadRecord(reading, <<"store", id>>, found, Scope, Offset)
    /\ listing' = Tail(listing)
    /\ UNCHANGED <<files, clock, ticks, pc, spine, shell, refs, listed, out>>

\* The sidecar, then everything into one timeline.
ReadFailuresAndMerge ==
    /\ pc = "read" /\ listing = <<>>
    /\ reading' = ReadSidecar(reading, sidecar, Scope, Offset)
    /\ out' = MergeEvents(spine, shell, refs, reading'.events)
    /\ pc' = "done"
    /\ UNCHANGED <<files, clock, ticks, spine, shell, refs, listing, listed>>

Next ==
    \/ AgentLogs \/ UserWorks \/ RecordWritten \/ FailureWritten \/ Tick \/ CapturesPrune
    \/ ReadLog \/ ListStore \/ ReadFile \/ ReadFailuresAndMerge

Spec == Init /\ [][Next]_vars

---------------------------------------------------------------------------
(* Properties. *)

Timeline == ToSet(out.events)
Disclosed(e, reason) == {g \in Timeline : g.reason = reason /\ g.parent = e.id}
LinksFrom(e) == {p[2] : p \in {q \in out.links \cup out.kernel : q[1] = e.id}}
LinksTo(e) == {p[1] : p \in {q \in out.links : q[2] = e.id}}

\* One way or the other, never both.
LinkedOrDisclosed(e, links, reason) ==
    Cardinality(Disclosed(e, reason)) = (IF links = {} THEN 1 ELSE 0)

\* No tool result, capture or kernel execve is left without an explanation:
\* it is linked, to something close enough to be it, or one gap says that it
\* could not be; and a capture a call was linked to is linked to nothing else
\* (merge.ts:185-265, merge-kernel.ts:80-108).
CorrelationAccounted ==
    pc = "done" =>
        /\ \A e \in Timeline :
             /\ e.type = "tool_result" =>
                  LinkedOrDisclosed(e, LinksFrom(e), "tool_result_without_pre_capture")
             /\ e.type = "shell_command_pre" =>
                  LinkedOrDisclosed(e, LinksTo(e), "pre_capture_without_tool_result")
             /\ e.source = "kernel" /\ e.type = "process_spawn" =>
                  LinkedOrDisclosed(e, LinksFrom(e), "kernel_execve_without_hook")
             /\ \A p \in Timeline : p.id \in LinksFrom(e) =>
                  p.type = "shell_command_pre" /\ Distance(e, p) =< Window
        /\ \A e, f \in Timeline :
             LinksFrom(e) \cap LinksFrom(f) # {} /\ e.type = "tool_call_intent" /\ f.source # "kernel"
               => e = f

RecordOf(e) == IF e.id[1] = "store" THEN written[e.id[2]] ELSE sidecar[e.id[2]]

\* The bundle holds no record of another session, and none without a session
\* unless it was asked to and the record falls into the session's time; every
\* record it met it holds or counts as left out (capture-scope.ts:202-239,
\* pipeline.ts:149-179).
ScopedAndCounted ==
    pc = "done" =>
        /\ Len(reading.events) + Excluded(reading.excluded) = Cardinality(listed) + Len(sidecar)
        /\ \A e \in ToSet(reading.events) :
             LET session == RecordOf(e).session
             IN  AgentSessionId # "" /\ session # AgentSessionId =>
                   session = "" /\ all /\ InWindow(e.at, Scope)

\* Whatever was read is in the timeline: each line of a Claude log (a line
\* nobody can parse as a gap), each stage of a shell history in bash's or
\* zsh's format, each entry of the reflog, and each record of the session
\* that was still there (claude-code.ts:40-45, merge.ts:71-86).
NothingDropped ==
    pc = "done" =>
        /\ source = "claude" => \A n \in DOMAIN log : \E e \in Timeline :
             /\ Len(e.id) = 3 /\ SubSeq(e.id, 1, 2) = <<"log", n>>
             /\ log[n].form = "torn" => e.type = "gap"
        /\ ~LooksLikeFishHistory(history) =>
             \A i \in DOMAIN history : \A k \in DOMAIN history[i].stages :
               \E e \in Timeline : e.id[1] = "history" /\ e.argv = history[i].stages[k]
        /\ \A i \in DOMAIN ParseGitReflog(reflog) : \E e \in Timeline :
             e.id = <<"reflog_change_without_command", "reflog", i>>
        /\ \A id \in listed \ gone :
             /\ ReadAs(written[id]) # "malformed"
             /\ written[id].session = AgentSessionId /\ AgentSessionId # ""
             => \E e \in Timeline : e.id = <<"store", id>> /\ e.at = CapturedAt(written[id])

\* Every gap about an event is shown right under that event, never beside it
\* as a root of its own (merge.ts:229-262, timeline.ts:85-99).
GapsShownUnderTheirEvent ==
    pc = "done" =>
        \A i \in DOMAIN out.events :
            out.events[i].reason \notin {"", "capture_failed"} =>
                \E j \in DOMAIN out.events :
                    /\ out.events[j].id = out.events[i].parent
                    /\ i \in Children(out.events, j)
=============================================================================
