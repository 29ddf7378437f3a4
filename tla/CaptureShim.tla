----------------------------- MODULE CaptureShim ----------------------------
(***************************************************************************)
(* The capture shim (apps/capture-shim): run under the name of another     *)
(* program, it looks for that program in PATH, records the command and     *)
(* becomes the program.  Meanwhile its links come and go (Installation)    *)
(* and so do the programs.                                                 *)
(*                                                                         *)
(* A file is "absent", "plain" (a directory, or not executable),           *)
(* "program" or "shim" (a link to depose-shim).  An invocation that meets  *)
(* a shim still being written never becomes the shim and is left out.      *)
(***************************************************************************)
EXTENDS Installation

CONSTANTS
    Path,        \* directories of PATH, in order; "bin" is depose's
    Cwd,         \* where commands are run
    ByName,      \* whether argv[0] may be the bare name, as a shell gives it
    MaxRuns,     \* bound: commands run
    MaxChanges   \* bound: programs installed or removed

ASSUME ShimConstants ==
    /\ Path \in Seq(STRING) /\ ToSet(Path) \cap {"none", "126", "127"} = {}
    /\ ByName \in BOOLEAN
    /\ MaxRuns \in Nat

VARIABLES
    files,    \* by directory of PATH other than bin, and name
    run,      \* the invocation under way
    records,  \* capture records written, by invocation
    runs, changes

shimVars == <<files, run, records, runs, changes>>
vars == <<installVars, shimVars>>

Dirs == ToSet(Path) \ {"bin"}

NoRun == [pc |-> "idle", name |-> "", argv0 |-> "", left |-> <<>>, found |-> <<>>,
          entered |-> 0, behind |-> "", kept |-> TRUE, steady |-> TRUE, outcome |-> ""]

Init ==
    /\ InstallInit
    /\ \E kind \in [Dirs -> {"absent", "plain", "program"}] :
         files = [dir \in Dirs |-> [name \in Names |-> kind[dir]]]
    /\ run = NoRun
    /\ records = [n \in 1..MaxRuns |-> 0]
    /\ runs = 0 /\ changes = 0

\* What stat finds at a place.  A link leads to what depose-shim is now.
FileAt(dir, name) ==
    IF dir # "bin" THEN files[dir][name]
    ELSE IF bin[name] = "other" THEN "plain"
    ELSE IF bin[name] = "absent" \/ shim.content = "absent" THEN "absent"
    ELSE IF shim.exec THEN "shim" ELSE "plain"

Executable(dir, name) == FileAt(dir, name) \in {"program", "shim"}

\* The program PATH holds when depose's directory is taken out of it.
Holds(dir, name) == dir \in Dirs /\ files[dir][name] = "program"
ProgramBehind(name) ==
    LET first == {i \in DOMAIN Path : /\ Holds(Path[i], name)
                                      /\ \A j \in 1..(i - 1) : ~Holds(Path[j], name)}
    IN  IF first = {} THEN "none" ELSE Path[CHOOSE i \in first : TRUE]

---------------------------------------------------------------------------
(* An invocation: argv[0] tells a directory, that of the link when the     *)
(* shim was run by a path, and that of the user when by a bare name.       *)

Invoke ==
    /\ run.pc \in {"idle", "done"} /\ runs < MaxRuns
    /\ \E name \in Names, byName \in {FALSE, ByName} :
         /\ FileAt("bin", name) = "shim" /\ shim.content = "whole"
         /\ \* A shell runs the first that can be.
            byName => \A i \in DOMAIN Path :
                        (Executable(Path[i], name) /\ \A j \in 1..(i - 1) : ~Executable(Path[j], name))
                          => Path[i] = "bin"
         /\ run' = [NoRun EXCEPT !.pc = "look", !.name = name, !.left = Path, !.entered = 1,
                                 !.behind = ProgramBehind(name),
                                 !.argv0 = IF byName THEN Cwd ELSE "bin"]
    /\ runs' = runs + 1
    /\ UNCHANGED <<installVars, files, records, changes>>

\* Faulty: findRealBinary without its own directory left out.
LookEverywhere(dir) ==
    IF Executable(dir, run.name) THEN Append(run.found, dir) ELSE run.found

\* findRealBinary, one directory of PATH: its own is skipped, and what is
\* no executable file is.
Candidates(dir) ==
    IF dir # run.argv0 /\ Executable(dir, run.name) THEN Append(run.found, dir) ELSE run.found

Look ==
    /\ run.pc = "look" /\ run.left # <<>>
    /\ run' = [run EXCEPT !.found = Candidates(Head(run.left)), !.left = Tail(@)]
    /\ UNCHANGED <<installVars, files, records, runs, changes>>

\* isSelf: the very path of argv[0] (a file named depose-shim is none of the
\* allowlist).
IsSelf(dir) == dir = run.argv0

\* The end of findRealBinary, and main's two refusals.
Found ==
    /\ run.pc = "look" /\ run.left = <<>>
    /\ run' = IF run.found = <<>> THEN [run EXCEPT !.pc = "done", !.outcome = "127"]
              ELSE IF IsSelf(Head(run.found)) THEN [run EXCEPT !.pc = "done", !.outcome = "126"]
              ELSE [run EXCEPT !.pc = "record"]
    /\ UNCHANGED <<installVars, files, records, runs, changes>>

\* writeCaptureRecord; the store may refuse it, which blocks nothing.
Record ==
    /\ run.pc = "record"
    /\ \/ records' = [records EXCEPT ![runs] = @ + 1] /\ run' = [run EXCEPT !.pc = "exec"]
       \/ run' = [run EXCEPT !.pc = "exec", !.kept = FALSE] /\ UNCHANGED records
    /\ UNCHANGED <<installVars, files, runs, changes>>

\* execThrough, and the same once more in runAsChild when the file is gone.
\* argv is passed on as it came, argv[0] included.
ExecThrough ==
    /\ run.pc = "exec" /\ run.entered < 3
    /\ LET at == Head(run.found)
       IN  run' = CASE FileAt(at, run.name) = "program" -> [run EXCEPT !.pc = "done", !.outcome = at]
                    [] FileAt(at, run.name) = "shim" ->
                         [run EXCEPT !.pc = "look", !.left = Path, !.found = <<>>, !.entered = @ + 1]
                    [] OTHER -> [run EXCEPT !.pc = "done", !.outcome = "126"]
    /\ UNCHANGED <<installVars, files, records, runs, changes>>

---------------------------------------------------------------------------

\* A program comes or goes somewhere on PATH.
ProgramsChange ==
    /\ changes < MaxChanges /\ changes' = changes + 1
    /\ \E dir \in Dirs, name \in Names, kind \in {"absent", "plain", "program"} :
         /\ kind # files[dir][name]
         /\ files' = [files EXCEPT ![dir][name] = kind]
    /\ run' = IF run.pc = "done" THEN run ELSE [run EXCEPT !.steady = FALSE]
    /\ UNCHANGED <<installVars, records, runs>>

Installs == InstallNext(run.pc \notin {"idle", "done"}) /\ UNCHANGED shimVars

Next ==
    \/ Invoke \/ Look \/ Found \/ Record \/ ExecThrough
    \/ ProgramsChange \/ Installs

Spec == Init /\ [][Next]_vars

---------------------------------------------------------------------------
(* Properties. *)

\* The shim is transparent: whatever an install or uninstall does to the
\* shim's directory meanwhile, the command ends in the program that would
\* have run had the shim not been there, or in 127 when there is none, and
\* it left one record or the store refused it (main.go:10, exec.go:15-38).
\* `behind` is that program, seen at the start; `steady` says that no program
\* came or went meanwhile.
RunsWhatPathHolds ==
    run.pc = "done" /\ run.steady =>
        /\ run.outcome = IF run.behind = "none" THEN "127" ELSE run.behind
        /\ run.outcome \in Dirs => records[runs] = IF run.kept THEN 1 ELSE 0

\* Run by whatever name, the shim never becomes the shim again, which it
\* would do for ever (docs/shim-installation.md:57: "If the shim detects that
\* the resolved "real binary" is itself (infinite loop), it aborts").
NeverReenters == run.entered < 2
=============================================================================
