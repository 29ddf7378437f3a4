------------------------------ MODULE Histories -----------------------------
(***************************************************************************)
(* The two files that may stand beside a session log: a shell history      *)
(* (shell-history.ts, shell-history-fish.ts) and a git reflog              *)
(* (git-reflog.ts), turned into events the way cli/src/pipeline.ts does.   *)
(*                                                                         *)
(* A history line has its command split at the |, && and ;, one argv each. *)
(* bash and zsh write "marker" (a time on a line of its own), "zsh" and    *)
(* "epoch" (a dated command) and "plain"; fish "cmd", or "empty" when no    *)
(* command follows `- cmd:`, and under it "when".                          *)
(***************************************************************************)
EXTENDS SessionEvents

HistoryLine ==
    [form : {"marker", "when", "empty"}, at : Nat, stages : {<<>>}] \cup
    [form : {"zsh", "epoch", "plain", "cmd"}, at : Nat, stages : Seq(Seq(STRING))]

\* Where fish's entries start.  One is enough to tell its format.
EntryLines(lines) == {i \in DOMAIN lines : lines[i].form \in {"cmd", "empty"}}

LooksLikeFishHistory(lines) == EntryLines(lines) # {}

\* A marker dates the line below it; every stage of a line is a command.
BashNext(done, line) ==
    IF line.form = "marker" THEN [done EXCEPT !.pending = line.at]
    ELSE LET at == IF line.form \in {"zsh", "epoch"} THEN line.at ELSE done.pending
         IN  [pending  |-> 0,
              commands |-> done.commands \o
                 [k \in DOMAIN line.stages |-> [at |-> at, argv |-> line.stages[k]]]]

ParseBashHistory(lines) ==
    LET done[n \in 0..Len(lines)] ==
            IF n = 0 THEN [pending |-> 0, commands |-> <<>>]
            ELSE BashNext(done[n - 1], lines[n])
    IN  done[Len(lines)].commands

\* Of the `when:` lines of the entry a line is in, the last dates it.
FishEntry(lines, i) ==
    LET whens == ElementsAt(lines, {j \in DOMAIN lines :
                     /\ i < j /\ lines[j].form = "when"
                     /\ \A k \in EntryLines(lines) : k =< i \/ j < k})
    IN  [at   |-> IF whens = <<>> THEN 0 ELSE Last(whens).at,
         argv |-> IF lines[i].stages = <<>> THEN <<>> ELSE lines[i].stages[1]]

\* An entry is one command, its argv the first stage alone.  Empty entries
\* are dropped, and what dates them with them.
ParseFishHistory(lines) ==
    ElementsAt([i \in DOMAIN lines |-> FishEntry(lines, i)],
               {i \in DOMAIN lines : lines[i].form = "cmd"})

ParseShellHistory(lines) ==
    IF LooksLikeFishHistory(lines) THEN ParseFishHistory(lines) ELSE ParseBashHistory(lines)

\* createShellCommandEvent, for each command; undated ones are given the
\* start of the session.
ShellHistoryEvents(lines, offset, sessionStart) ==
    LET commands == ParseShellHistory(lines)
        at(i) == IF commands[i].at = 0 THEN sessionStart ELSE commands[i].at
    IN  [i \in DOMAIN commands |->
           [BuildEvent(<<"history", i>>, "shell_command_pre", at(i), offset + i - 1, NoEvent)
              EXCEPT !.argv = commands[i].argv, !.source = "reconstructed"]]

---------------------------------------------------------------------------
(* A reflog line is dated or bare, without its time, and junk when neither *)
(* pattern matches it.                                                     *)

ReflogLine == [form : {"dated", "bare", "junk"}, at : Nat]

ParseGitReflog(lines) == ElementsAt(lines, {i \in DOMAIN lines : lines[i].form # "junk"})

\* Each entry is a git command nobody saw run, and a gap that says so.
ReflogSpawn(entry, i, offset, now) ==
    [BuildEvent(<<"reflog", i>>, "process_spawn", IF entry.form = "dated" THEN entry.at ELSE now,
                offset + 2 * (i - 1), NoEvent)
       EXCEPT !.argv = <<"git">>, !.source = "reconstructed"]

ReflogToEvents(entries, offset, now) ==
    LET spawn(i) == ReflogSpawn(entries[i], i, offset, now)
    IN  [k \in 1..(2 * Len(entries)) |->
           IF k % 2 = 1 THEN spawn((k + 1) \div 2)
           ELSE GapAbout(spawn(k \div 2), "reflog_change_without_command")]
=============================================================================
