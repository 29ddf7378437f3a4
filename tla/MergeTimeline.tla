--------------------------- MODULE MergeTimeline ----------------------------
(***************************************************************************)
(* mergeEvents and the tree shown of its result                            *)
(* (packages/core/src/normalize/merge.ts, merge-correlate.ts,              *)
(* merge-kernel.ts, merge-support.ts, reconstruct/timeline.ts).            *)
(*                                                                         *)
(* Events are correlated by their positions in the sorted timeline; a link *)
(* is the set of the position found, {} when nothing fits.                 *)
(***************************************************************************)
EXTENDS SessionEvents, IntentEffect, FiniteSetsExt

CONSTANT Slack   \* how far an execve may precede its intent

\* A failure record becomes a gap under the record's own id.
CaptureFailedToGap(e) == [e EXCEPT !.type = "gap", !.reason = "capture_failed"]

\* The first event of an id stays, later ones are skipped.
FirstOfId(events) ==
    {i \in DOMAIN events : \A j \in 1..(i - 1) : events[j].id # events[i].id}

Dedupe(events) ==
    LET kept == ElementsAt(events, FirstOfId(events))
    IN  [k \in DOMAIN kept |-> IF kept[k].type = "capture_failed" THEN CaptureFailedToGap(kept[k])
                               ELSE kept[k]]

---------------------------------------------------------------------------
(* Tool calls and results to captures: findMatchingShellPre. *)

TypeAt(sorted, type) == {i \in DOMAIN sorted : sorted[i].type = type}
Pres(sorted) == TypeAt(sorted, "shell_command_pre")
Results(sorted) == TypeAt(sorted, "tool_result")
Calls(sorted) == TypeAt(sorted, "tool_call_intent")

\* Paths related by prefix; a capture that recorded no cwd is related to all.
IsPathRelated(a, b) == IsPrefix(a, b) \/ IsPrefix(b, a)

CountArgvOverlap(a, b) ==
    Cardinality({i \in 1..Min({Len(a), Len(b), 5}) : a[i] = b[i]})

\* What a result asked for is in the call it answers, the last with its id;
\* a result that answers none has nothing but its time.
AskedBy(target, sorted) ==
    LET same == {i \in Calls(sorted) : sorted[i].use # "" /\ sorted[i].use = target.use}
    IN  IF target.type = "tool_result" /\ same # {} THEN sorted[Max(same)] ELSE target

Score(asked, at, pre) ==
    (IF asked.cwd # <<>> /\ IsPathRelated(pre.cwd, asked.cwd) THEN 10 ELSE 0)
        + 5 * CountArgvOverlap(pre.argv, asked.argv)
        + Max({0, 10 - Distance([at |-> at], pre)})

\* The best capture inside the window, the earliest among equals.
FindMatchingShellPre(target, sorted) ==
    LET asked == AskedBy(target, sorted)
        score == [i \in {j \in Pres(sorted) : Distance(target, sorted[j]) =< Window} |->
                    Score(asked, target.at, sorted[i])]
    IN  {i \in DOMAIN score : /\ score[i] >= 5
                              /\ \A j \in DOMAIN score :
                                   score[j] < score[i] \/ (score[j] = score[i] /\ i =< j)}

\* Results come first, and several may be linked to one capture.
ResultLinks(sorted) ==
    [r \in Results(sorted) |-> FindMatchingShellPre(sorted[r], sorted)]

\* Then calls, in order, each to a capture nobody has yet: the first call that
\* a capture fits best has it, if no result had it before.
CallLinks(sorted, taken) ==
    LET best == [c \in Calls(sorted) |-> FindMatchingShellPre(sorted[c], sorted)]
    IN  [c \in Calls(sorted) |->
           best[c] \ (taken \cup UNION {best[d] : d \in {b \in Calls(sorted) : b < c}})]

---------------------------------------------------------------------------
(* Kernel execves to captures: correlateKernelExecves. *)

Execves(sorted) == {i \in TypeAt(sorted, "process_spawn") : sorted[i].source = "kernel"}

\* The closest capture in time whose process tree shares a pid.
KernelLinks(sorted) ==
    [x \in Execves(sorted) |->
       LET near == {i \in Pres(sorted) :
                      /\ sorted[x].at - sorted[i].at \in (-Slack)..Window
                      /\ sorted[x].pids \cap sorted[i].pids # {}}
           far(i) == Distance(sorted[x], sorted[i])
       IN  {i \in near : \A j \in near : far(i) < far(j) \/ (far(i) = far(j) /\ i =< j)}]

---------------------------------------------------------------------------
(* The two halves of calls: bindIntentAndEffect, over positions. *)

PairedIntents(sorted) ==
    {[id |-> i, at |-> sorted[i].at, input |-> sorted[i].input, files |-> sorted[i].files,
      hook |-> sorted[i].source = "hook"] : i \in Pres(sorted)}

PairedEffects(sorted) ==
    LET named(e) == {j \in DOMAIN sorted : sorted[j].id = e.link}
    IN  {[id |-> i, at |-> sorted[i].at, input |-> sorted[i].input, files |-> sorted[i].files,
          link |-> IF named(sorted[i]) = {} THEN NoId ELSE Min(named(sorted[i]))] :
            i \in TypeAt(sorted, "tool_call_effect")}

BindTimeline(sorted) == Bind(PairedIntents(sorted), PairedEffects(sorted))

\* The gaps about file states (fileContinuityGaps) are CaptureSession's: no
\* event here carries file hashes.
PairGaps(sorted) ==
    PairingGaps(BindTimeline(sorted), PairedIntents(sorted), PairedEffects(sorted))

---------------------------------------------------------------------------
(* mergeEvents *)

\* Gaps about the events at some positions, in order.
GapsAt(sorted, positions, reason) ==
    LET about == ElementsAt(sorted, positions)
    IN  [k \in DOMAIN about |-> GapAbout(about[k], reason)]

Unlinked(links) == {i \in DOMAIN links : links[i] = {}}
Linked(links) == UNION {links[i] : i \in DOMAIN links}

\* Faulty: captures linked to a call alone are reported as unmatched.
PresWithoutResult(sorted, results, calls) == Pres(sorted) \ Linked(results)

UnmatchedPres(sorted, results, calls) == Pres(sorted) \ (Linked(results) \cup Linked(calls))

MergeEvents(spine, shell, reflog, captures) ==
    LET sorted  == SortByTime(Dedupe(spine \o shell \o reflog \o captures))
        results == ResultLinks(sorted)
        calls   == CallLinks(sorted, Linked(results))
        kernel  == KernelLinks(sorted)
        pairing(reason) == {i \in DOMAIN sorted : Gap(reason, i) \in PairGaps(sorted)}
        gaps == GapsAt(sorted, Unlinked(results), "tool_result_without_pre_capture")
             \o GapsAt(sorted, UnmatchedPres(sorted, results, calls),
                       "pre_capture_without_tool_result")
             \o GapsAt(sorted, pairing("effect_without_intent"), "effect_without_intent")
             \o GapsAt(sorted, pairing("intent_without_effect"), "intent_without_effect")
             \o GapsAt(sorted, Unlinked(kernel), "kernel_execve_without_hook")
        pairs(links) == UNION {{<<sorted[i].id, sorted[j].id>> : j \in links[i]} :
                                 i \in DOMAIN links}
    IN  [events |-> SortByTime(gaps \o sorted),
         links  |-> pairs(results) \cup pairs(calls),
         kernel |-> pairs(kernel)]

---------------------------------------------------------------------------
(* The tree: buildTimeline. *)

\* An event hangs under its parent if that came before it, else it is a root.
ParentPlace(events, i) == {j \in 1..(i - 1) : events[j].id = events[i].parent}

Children(events, j) == {i \in DOMAIN events : j \in ParentPlace(events, i)}
=============================================================================
