---------------------------- MODULE CaptureScope ----------------------------
(***************************************************************************)
(* Which records of the capture store belong to a bundle, and the events   *)
(* they become (packages/core/src/normalize/capture-scope.ts,              *)
(* capture-events.ts, capture.ts).                                         *)
(*                                                                         *)
(* A record is as written: form is the kind it claims, "shell" for a       *)
(* command, "junk" for JSON of any other shape and "torn" for none; at = 0 *)
(* when it carries no usable capturedAt, and session = "" when it carries  *)
(* no session id.  mtime is its file's.                                    *)
(* A scope is [session, starts, ends, all]: session = "" when the log      *)
(* named none, all for --include-unscoped-captures.                        *)
(***************************************************************************)
EXTENDS SessionEvents

CONSTANT Margin   \* SESSION_WINDOW_MARGIN_MS, in the clock's unit

CaptureRecord ==
    [form : {"shell", "effect", "execve", "capture_failed", "junk", "torn"}, at : Nat,
     session : STRING, mtime : Nat, source : STRING, pids : SUBSET Nat, input : STRING,
     link : {NoEvent} \cup ({"store"} \X Nat), argv : Seq(STRING), cwd : Seq(STRING)]

Exclusions == {"other-session", "unattributed", "outside-session-window", "malformed"}

\* What a record is read as: the first of the four readers that accepts it.
\* upgradeRecord takes anything with an argv, however it is dated.
ReadAs(record) ==
    CASE record.form = "capture_failed" /\ record.at # 0 -> "capture_failed"
      [] record.form = "effect" /\ record.at # 0 -> "tool_call_effect"
      [] record.form = "execve" /\ record.at # 0 -> "process_spawn"
      [] record.form \in {"shell", "execve"} -> "shell_command_pre"
      [] OTHER -> "malformed"

CapturedAt(record) == IF record.at = 0 THEN record.mtime ELSE record.at

InWindow(at, scope) == scope.starts - Margin =< at /\ at =< scope.ends + Margin

\* A session id on both sides decides; on the record alone it cannot be
\* matched; without one the window does, and only if asked to.
Classify(session, at, scope) ==
    IF session # "" /\ scope.session # ""
    THEN IF session = scope.session THEN "include" ELSE "other-session"
    ELSE IF ~scope.all THEN "unattributed"
    ELSE IF session # "" \/ InWindow(at, scope) THEN "include"
    ELSE "outside-session-window"

\* The event a record becomes.
RecordEvent(id, record, mono) ==
    [BuildEvent(id, ReadAs(record), CapturedAt(record), mono, NoEvent)
       EXCEPT !.argv = record.argv, !.cwd = record.cwd, !.source = record.source,
              !.pids = record.pids, !.input = record.input, !.link = record.link]

Excluded(excluded) ==
    excluded["other-session"] + excluded["unattributed"] + excluded["outside-session-window"]
      + excluded["malformed"]

\* A reading of the store so far.
NothingRead == [events |-> <<>>, read |-> 0, excluded |-> [why \in Exclusions |-> 0]]

LeftOut(reading, why) ==
    [reading EXCEPT !.read = @ + 1, !.excluded[why] = @ + 1]

\* One file of the store, {} when it was gone before it could be opened.
ReadRecord(reading, id, found, scope, offset) ==
    IF found = {} \/ \E r \in found : ReadAs(r) = "malformed" THEN LeftOut(reading, "malformed")
    ELSE LET record == CHOOSE r \in found : TRUE
             why == Classify(record.session, CapturedAt(record), scope)
         IN  IF why # "include" THEN LeftOut(reading, why)
             ELSE [reading EXCEPT
                     !.read = @ + 1,
                     !.events = Append(@, RecordEvent(id, record, offset + Len(@)))]

\* Faulty: a line of the sidecar that does not count is not counted.
ReadFailureUncounted(reading, i, line, scope, offset) ==
    IF ReadAs(line) # "capture_failed" THEN reading
    ELSE ReadRecord(reading, <<"sidecar", i>>, {line}, scope, offset)

\* The sidecar holds the failures that could not be written as files.
ReadFailure(reading, i, line, scope, offset) ==
    IF ReadAs(line) # "capture_failed" THEN LeftOut(reading, "malformed")
    ELSE ReadRecord(reading, <<"sidecar", i>>, {line}, scope, offset)

ReadSidecar(reading, lines, scope, offset) ==
    LET so[i \in 0..Len(lines)] ==
            IF i = 0 THEN reading ELSE ReadFailure(so[i - 1], i, lines[i], scope, offset)
    IN  so[Len(lines)]
=============================================================================
