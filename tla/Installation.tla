---------------------------- MODULE Installation ----------------------------
(***************************************************************************)
(* `depose install` and `depose uninstall`, --claude and --shell           *)
(* (packages/cli/src/commands/install*.ts): the hooks registered in an     *)
(* agent's settings.json, and the shim copied and linked into a directory  *)
(* of PATH.  One command at a time, one file operation a step; it may die  *)
(* between any two, and a file it is writing is then left cut off (a       *)
(* backup cut off stands beside an original nobody touched yet, and is     *)
(* left out; so is the capture directory, which hooks and shim make too).  *)
(***************************************************************************)
EXTENDS Integers, SequencesExt, FiniteSetsExt

CONSTANTS
    Allowlist,   \* SHIM_ALLOWLIST, in its order
    Own,         \* hooks the user may have
    MaxCommands, \* bound: installs and uninstalls
    MaxEdits,    \* bound: edits of the settings by the user
    MaxFaults    \* bound: commands that die, and unlinks refused

VARIABLES
    settings,    \* settings.json
    backups,     \* what its backups hold
    bin,         \* what stands under each allowlisted name in the bin directory
    shim,        \* depose-shim there: [content, exec]
    stuck,       \* history: names the last uninstall was refused to unlink
    cmd,         \* the command running
    promised,    \* history: hooks of the user that no install may lose
    commands, edits, faults

installVars == <<settings, backups, bin, shim, stuck, cmd, promised, commands, edits, faults>>

Names == ToSet(Allowlist)

(* Settings are [form, PreToolUse, PostToolUse]: under either event a set  *)
(* of entries, an entry being a set of commands.                           *)
Json(pre, post) == [form |-> "json", PreToolUse |-> pre, PostToolUse |-> post]
Absent == [Json({}, {}) EXCEPT !.form = "absent"]
Torn == [Json({}, {}) EXCEPT !.form = "torn"]

Events == {"PreToolUse", "PostToolUse"}
HooksOf(s, event) == UNION s[event] \ {"depose"}

Missing == [content |-> "absent", exec |-> FALSE]
Idle == [pc |-> "idle", read |-> Absent, todo |-> <<>>]

InstallInit ==
    /\ settings \in {Absent} \cup {Json({{h}}, {}) : h \in Own}
    /\ backups = {}
    /\ bin \in [Names -> {"absent", "other"}]
    /\ shim = Missing
    /\ stuck = {}
    /\ cmd = Idle
    /\ promised = [event \in Events |-> HooksOf(settings, event)]
    /\ commands = 0 /\ edits = 0 /\ faults = 0

Begin(pc) ==
    /\ cmd.pc = "idle" /\ commands < MaxCommands
    /\ commands' = commands + 1
    /\ cmd' = [Idle EXCEPT !.pc = pc]
    /\ UNCHANGED <<settings, backups, bin, shim, edits, faults>>

Step(from, to) == cmd.pc = from /\ cmd' = [cmd EXCEPT !.pc = to]

LOCAL countersSame == UNCHANGED <<commands, edits, faults>>
LOCAL shellSame == UNCHANGED <<bin, shim, stuck>>

Fault == faults < MaxFaults /\ faults' = faults + 1
LOCAL claudeSame == UNCHANGED <<settings, backups, promised>>

---------------------------------------------------------------------------
(* --claude *)

\* A file that is no JSON is read as if it were empty.
Parsed(s) == IF s.form = "json" THEN s ELSE Json({}, {})

HasDepose(entries) == \E e \in entries : "depose" \in e

\* Each half is added unless a depose command stands under its event.
MergeHooks(s) ==
    LET with(entries) == IF HasDepose(entries) THEN entries ELSE entries \cup {{"depose"}}
    IN  Json(with(s.PreToolUse), with(s.PostToolUse))

\* Only the first event is looked at, and an entry goes as a whole.
RemoveHooks(s) == [s EXCEPT !.PreToolUse = {e \in @ : "depose" \notin e}]

StartInstallClaude ==
    /\ Begin("claude-read") /\ UNCHANGED stuck
    /\ promised' = [event \in Events |-> promised[event] \cup HooksOf(settings, event)]

InstallClaudeRead ==
    /\ cmd.pc = "claude-read"
    /\ cmd' = [cmd EXCEPT !.pc = "claude-backup", !.read = Parsed(settings)]
    /\ claudeSame /\ shellSame /\ countersSame

\* Faulty: the backup is made of what was parsed.
BackupOfParsed ==
    /\ Step("claude-backup", "claude-open")
    /\ backups' = IF settings.form = "absent" THEN backups ELSE backups \cup {cmd.read}
    /\ UNCHANGED <<settings, promised>> /\ shellSame /\ countersSame

\* The file is read again, and copied as it stands.
Backup ==
    /\ Step("claude-backup", "claude-open")
    /\ backups' = IF settings.form = "absent" THEN backups ELSE backups \cup {settings}
    /\ UNCHANGED <<settings, promised>> /\ shellSame /\ countersSame

SettingsOpen ==
    /\ \/ Step("claude-open", "claude-fill")
       \/ Step("unclaude-open", "unclaude-fill")
    /\ settings' = Torn
    /\ UNCHANGED <<backups, promised>> /\ shellSame /\ countersSame

SettingsFill ==
    /\ \/ cmd.pc = "claude-fill" /\ settings' = MergeHooks(cmd.read)
       \/ cmd.pc = "unclaude-fill" /\ settings' = RemoveHooks(cmd.read)
    /\ cmd' = Idle
    /\ UNCHANGED <<backups, promised>> /\ shellSame /\ countersSame

\* An uninstall makes no backup: nothing is promised from here on.
StartUninstallClaude ==
    Begin("unclaude-read") /\ promised' = [event \in Events |-> {}] /\ UNCHANGED stuck

\* With nothing to read or nothing under the event, nothing is written.
UninstallClaudeRead ==
    /\ cmd.pc = "unclaude-read"
    /\ cmd' = IF settings.form # "json" \/ settings.PreToolUse = {} THEN Idle
              ELSE [cmd EXCEPT !.pc = "unclaude-open", !.read = settings]
    /\ claudeSame /\ shellSame /\ countersSame

---------------------------------------------------------------------------
(* --shell *)

StartInstallShell == Begin("shell-open") /\ UNCHANGED <<promised, stuck>>

\* The copy keeps the mode the file had.  busy: the shim is being executed,
\* and the kernel refuses to have it written.
ShimOpen(busy) ==
    /\ cmd.pc = "shell-open"
    /\ IF busy /\ shim.content # "absent" THEN cmd' = Idle /\ UNCHANGED shim
       ELSE /\ cmd' = [cmd EXCEPT !.pc = "shell-fill"]
            /\ shim' = [shim EXCEPT !.content = "torn"]
    /\ claudeSame /\ UNCHANGED <<bin, stuck>> /\ countersSame

ShimFill ==
    /\ Step("shell-fill", "shell-chmod")
    /\ shim' = [shim EXCEPT !.content = "whole"]
    /\ claudeSame /\ UNCHANGED <<bin, stuck>> /\ countersSame

ShimChmod ==
    /\ cmd.pc = "shell-chmod"
    /\ cmd' = [cmd EXCEPT !.pc = "shell-link", !.todo = Allowlist]
    /\ shim' = [shim EXCEPT !.exec = TRUE]
    /\ claudeSame /\ UNCHANGED <<bin, stuck>> /\ countersSame

\* Links are made in order; whatever else stands under a name ends it.
Link ==
    /\ cmd.pc = "shell-link"
    /\ IF cmd.todo = <<>> THEN cmd' = Idle /\ UNCHANGED bin
       ELSE LET name == Head(cmd.todo)
            IN  IF bin[name] = "other" THEN cmd' = Idle /\ UNCHANGED bin
                ELSE /\ bin' = [bin EXCEPT ![name] = "shim"]
                     /\ cmd' = [cmd EXCEPT !.todo = Tail(@)]
    /\ claudeSame /\ UNCHANGED <<shim, stuck>> /\ countersSame

\* existsSync follows a link, so one that leads nowhere does not exist.
Exists(name) == bin[name] = "other" \/ (bin[name] = "shim" /\ shim.content # "absent")

\* A name refused before is tried again when it exists.
StartUninstallShell ==
    /\ Begin("unlink") /\ UNCHANGED promised
    /\ stuck' = {name \in stuck : ~Exists(name)}

\* Faulty: the shim goes before its links, which then no longer exist.
UnlinkShimFirst ==
    /\ Step("unlink", "idle")
    /\ shim' = Missing
    /\ claudeSame /\ UNCHANGED <<bin, stuck>> /\ countersSame

ToUnlink(name) == Exists(name) /\ name \notin stuck

\* Every name of the allowlist in order, whatever stands there, then the
\* shim.  An unlink that is refused is passed over, and what follows it is
\* removed all the same.
Unlink ==
    /\ cmd.pc = "unlink"
    /\ \/ /\ \E i \in DOMAIN Allowlist :
               /\ ToUnlink(Allowlist[i]) /\ \A j \in 1..(i - 1) : ~ToUnlink(Allowlist[j])
               /\ \/ /\ bin' = [bin EXCEPT ![Allowlist[i]] = "absent"]
                     /\ UNCHANGED <<stuck, faults>>
                  \/ Fault /\ stuck' = stuck \cup {Allowlist[i]} /\ UNCHANGED bin
          /\ UNCHANGED <<shim, cmd>>
       \/ /\ \A name \in Names : ~ToUnlink(name)
          /\ \/ shim' = Missing /\ UNCHANGED faults
             \/ Fault /\ UNCHANGED shim
          /\ cmd' = Idle
          /\ UNCHANGED <<bin, stuck>>
    /\ claudeSame /\ UNCHANGED <<commands, edits>>

---------------------------------------------------------------------------
(* What else happens. *)

Die ==
    /\ cmd.pc # "idle" /\ Fault
    /\ cmd' = Idle
    /\ UNCHANGED <<settings, backups, bin, shim, stuck, promised, commands, edits>>

\* The user, or the agent, saves settings, with depose's hook or without.
\* What is saved after the backup was made is promised nothing: the command
\* writes over it.
EditSettings ==
    /\ edits < MaxEdits /\ edits' = edits + 1
    /\ \E pre, post \in SUBSET Own, both \in BOOLEAN :
         settings' = Json({IF both THEN pre \cup {"depose"} ELSE pre} \ {{}}, {post} \ {{}})
    /\ promised' = [event \in Events |->
                      IF cmd.pc \in {"claude-open", "claude-fill", "unclaude-read",
                                    "unclaude-open", "unclaude-fill"}
                      THEN {} ELSE HooksOf(settings', event)]
    /\ UNCHANGED <<backups, cmd, commands, faults>> /\ shellSame

InstallNext(busy) ==
    \/ StartInstallClaude \/ InstallClaudeRead \/ Backup \/ SettingsOpen \/ SettingsFill
    \/ StartUninstallClaude \/ UninstallClaudeRead
    \/ StartInstallShell \/ ShimOpen(busy) \/ ShimFill \/ ShimChmod \/ Link
    \/ StartUninstallShell \/ Unlink
    \/ Die \/ EditSettings

---------------------------------------------------------------------------
(* Properties. *)

\* Whatever dies when: a hook the user had when an install started is in the
\* settings or in a backup (install-claude.ts:85-92: "Create backup before
\* modifying").
UsersHooksKept ==
    \A event \in Events : \A hook \in promised[event] :
        \E s \in backups \cup {settings} : hook \in HooksOf(s, event)

\* A name depose has linked leads to a shim, so that a command of that name
\* is never a dangling link (install-shell.ts:80-92), whatever dies when and
\* however often things are installed and removed; but for a link the last
\* uninstall was refused to unlink, whose shim it removes all the same.
LinksReachTheShim ==
    \A name \in Names \ stuck : bin[name] = "shim" => shim.content # "absent"
=============================================================================
