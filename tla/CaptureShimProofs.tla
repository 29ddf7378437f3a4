------------------------- MODULE CaptureShimProofs --------------------------
(***************************************************************************)
(* Proofs about installing and uninstalling under a running shim, and      *)
(* about the program a run of the shim ends in, for any PATH, allowlist    *)
(* and hooks of the user, and any number of commands, deaths, edits of the *)
(* settings and runs of the shim.                                          *)
(***************************************************************************)
EXTENDS CaptureShim, TLAPS

ShellPhase == {"shell-fill", "shell-chmod", "shell-link"}
ClaudeWrites == {"claude-open", "claude-fill"}
Uninstalls == {"unclaude-read", "unclaude-open", "unclaude-fill"}

IsSettings(s) ==
    s = [form |-> s.form, PreToolUse |-> s.PreToolUse, PostToolUse |-> s.PostToolUse]

Typed ==
    /\ cmd = [pc |-> cmd.pc, read |-> cmd.read, todo |-> cmd.todo]
    /\ shim = [content |-> shim.content, exec |-> shim.exec]
    /\ bin \in [Names -> {"absent", "other", "shim"}]
    /\ promised = [event \in Events |-> promised[event]]

---------------------------------------------------------------------------
(* Links. *)

(* While an install is past opening the shim, there is one.                *)
LinkInv ==
    /\ Typed
    /\ cmd.pc \in ShellPhase => shim.content # "absent"
    /\ LinksReachTheShim

LEMMA LinksInit == Init => LinkInv
BY DEF Init, InstallInit, LinkInv, Typed, LinksReachTheShim, Idle, Missing, ShellPhase, Events

(* The shim itself and everybody outside leave an installation alone.      *)
LEMMA OthersLeaveIt ==
    ASSUME Next, ~Installs
    PROVE  UNCHANGED installVars
BY DEF Next, Invoke, Look, Found, Record, ExecThrough, ProgramsChange

(* --claude touches neither the shim nor its links. *)
LEMMA LinksClaude ==
    ASSUME LinkInv,
           \/ StartInstallClaude \/ InstallClaudeRead \/ Backup \/ SettingsOpen \/ SettingsFill
           \/ StartUninstallClaude \/ UninstallClaudeRead \/ Die \/ EditSettings
    PROVE  LinkInv'
<1>1. UNCHANGED <<bin, shim, stuck>>
  BY DEF StartInstallClaude, InstallClaudeRead, Backup, SettingsOpen, SettingsFill,
         StartUninstallClaude, UninstallClaudeRead, Die, EditSettings, Begin
<1>2. cmd' = [pc |-> cmd'.pc, read |-> cmd'.read, todo |-> cmd'.todo]
      /\ (cmd'.pc \in ShellPhase => cmd' = cmd)
  <2> USE DEF Idle, ShellPhase, Begin, Step
  <2>1. CASE StartInstallClaude \/ StartUninstallClaude
    <3>1. PICK pc \in {"claude-read", "unclaude-read"} : cmd' = [Idle EXCEPT !.pc = pc]
      BY <2>1 DEF StartInstallClaude, StartUninstallClaude
    <3>2. cmd' = [pc |-> pc, read |-> Absent, todo |-> <<>>]
      BY <3>1
    <3> QED
      BY <3>2
  <2>2. CASE \E pc \in {"claude-backup", "unclaude-open"} :
                \E read : cmd' = [cmd EXCEPT !.pc = pc, !.read = read]
    <3>1. PICK pc \in {"claude-backup", "unclaude-open"} :
                \E read : cmd' = [cmd EXCEPT !.pc = pc, !.read = read]
      BY <2>2
    <3>2. PICK read : cmd' = [cmd EXCEPT !.pc = pc, !.read = read]
      BY <3>1
    <3>3. cmd' = [pc |-> pc, read |-> read, todo |-> cmd.todo]
      BY <3>2 DEF LinkInv, Typed
    <3> QED
      BY <3>3
  <2>3. CASE Backup
    BY <2>3 DEF LinkInv, Typed, Backup
  <2>4. CASE SettingsOpen
    BY <2>4 DEF LinkInv, Typed, SettingsOpen
  <2>5. CASE cmd' = Idle
    BY <2>5
  <2>6. CASE EditSettings
    BY <2>6 DEF LinkInv, Typed, EditSettings
  <2> QED
    BY <2>1, <2>2, <2>3, <2>4, <2>5, <2>6
       DEF InstallClaudeRead, UninstallClaudeRead, SettingsFill, Die
<1>3. promised' = [event \in Events |-> promised'[event]]
  BY DEF LinkInv, Typed, StartInstallClaude, InstallClaudeRead, Backup, SettingsOpen, SettingsFill,
         StartUninstallClaude, UninstallClaudeRead, Die, EditSettings
<1> QED
  BY <1>1, <1>2, <1>3 DEF LinkInv, Typed, LinksReachTheShim

(* --shell: the shim is there before its links, and longer. *)
LEMMA LinksShell ==
    ASSUME LinkInv, NEW busy \in BOOLEAN,
           \/ StartInstallShell \/ ShimOpen(busy) \/ ShimFill \/ ShimChmod \/ Link
           \/ StartUninstallShell \/ Unlink
    PROVE  LinkInv'
<1> USE DEF LinkInv, Typed, LinksReachTheShim, ShellPhase, Idle
<1>1. promised' = [event \in Events |-> promised'[event]]
  BY DEF StartInstallShell, ShimOpen, ShimFill, ShimChmod, Link, StartUninstallShell, Unlink
<1>2. CASE StartInstallShell \/ StartUninstallShell
  <2>1. UNCHANGED <<bin, shim>> /\ \A name \in stuck : name \in stuck' \/ Exists(name)
    BY <1>2 DEF StartInstallShell, StartUninstallShell, Begin
  <2>2. /\ cmd' = [pc |-> cmd'.pc, read |-> cmd'.read, todo |-> cmd'.todo]
        /\ cmd'.pc \notin {"shell-fill", "shell-chmod", "shell-link"}
    BY <1>2 DEF StartInstallShell, StartUninstallShell, Begin
  <2>3. \A name \in Names \ stuck' : bin'[name] = "shim" => shim'.content # "absent"
    BY <2>1 DEF Exists
  <2> QED
    BY <1>1, <2>1, <2>2, <2>3
<1>3. CASE ShimOpen(busy)
  BY <1>1, <1>3 DEF ShimOpen
<1>4. CASE ShimFill
  BY <1>1, <1>4 DEF ShimFill, Step
<1>5. CASE ShimChmod
  BY <1>1, <1>5 DEF ShimChmod
<1>6. CASE Link
  <2>1. cmd.pc = "shell-link" /\ shim' = shim /\ shim.content # "absent"
    BY <1>6 DEF Link
  <2>2. cmd' = [pc |-> cmd'.pc, read |-> cmd'.read, todo |-> cmd'.todo]
    BY <1>6 DEF Link
  <2>3. bin' \in [Names -> {"absent", "other", "shim"}]
    BY <1>6 DEF Link
  <2> QED
    BY <1>1, <2>1, <2>2, <2>3
<1>7. CASE Unlink
  <2>1. CASE shim' = shim /\ cmd' = cmd /\ stuck' = stuck /\ \E i \in DOMAIN Allowlist :
               bin' = [bin EXCEPT ![Allowlist[i]] = "absent"]
    BY <1>1, <2>1
  <2>2. CASE shim' = shim /\ cmd' = cmd /\ bin' = bin /\ stuck \subseteq stuck'
    BY <1>1, <2>2
  <2>3. CASE /\ \A name \in Names : ~ToUnlink(name)
             /\ shim' \in {shim, Missing} /\ cmd' = Idle /\ bin' = bin /\ stuck' = stuck
    <3>1. \A name \in Names \ stuck : bin[name] = "shim" => shim.content = "absent"
      BY <2>3 DEF ToUnlink, Exists
    <3>2. \A name \in Names \ stuck : bin[name] # "shim"
      BY <3>1
    <3> QED
      BY <1>1, <2>3, <3>2 DEF Missing
  <2> QED
    BY <1>7, <2>1, <2>2, <2>3 DEF Unlink
<1> QED
  BY <1>2, <1>3, <1>4, <1>5, <1>6, <1>7

LEMMA LinksStep ==
    ASSUME LinkInv, [Next]_vars
    PROVE  LinkInv'
<1>1. CASE Installs
  <2>1. (run.pc \notin {"idle", "done"}) \in BOOLEAN
    OBVIOUS
  <2> QED
    BY <1>1, <2>1, LinksClaude, LinksShell DEF Installs, InstallNext
<1>2. CASE UNCHANGED vars \/ (Next /\ ~Installs)
  <2>1. UNCHANGED installVars
    BY <1>2, OthersLeaveIt DEF vars
  <2> QED
    BY <2>1 DEF installVars, LinkInv, Typed, LinksReachTheShim
<1> QED
  BY <1>1, <1>2

(* However installs and uninstalls come, go and die, a name depose linked  *)
(* leads to a shim: the user meets no dangling link, but one that an       *)
(* uninstall was refused to unlink.                                        *)
THEOREM LinksNeverDangle == Spec => []LinksReachTheShim
<1>1. LinkInv /\ [Next]_vars => LinkInv'
  BY LinksStep
<1>2. LinkInv => LinksReachTheShim
  BY DEF LinkInv
<1> QED
  BY <1>1, <1>2, LinksInit, PTL DEF Spec

---------------------------------------------------------------------------
(* Hooks. *)

Kept(event, hook, places) == \E s \in places : hook \in HooksOf(s, event)

(* A hook promised is in the settings or in a backup, and in a backup once *)
(* the settings are about to be written over.                              *)
HookInv ==
    /\ Typed
    /\ IsSettings(settings) /\ IsSettings(cmd.read)
    /\ settings.form = "absent" =>
         \A event \in Events : HooksOf(settings, event) = {}
    /\ cmd.pc \in {"unclaude-open", "unclaude-fill"} => cmd.read.form # "absent"
    /\ cmd.pc \in Uninstalls => \A event \in Events : promised[event] = {}
    /\ cmd.pc \in ClaudeWrites =>
         \A event \in Events : \A hook \in promised[event] : Kept(event, hook, backups)
    /\ \A event \in Events : \A hook \in promised[event] :
         Kept(event, hook, backups \cup {settings})

LEMMA HooksInit == Init => HookInv
<1> SUFFICES ASSUME Init PROVE HookInv
  OBVIOUS
<1>1. Typed
  BY LinksInit DEF LinkInv
<1>2. IsSettings(settings) /\ IsSettings(cmd.read) /\ cmd.pc = "idle"
  BY DEF Init, InstallInit, IsSettings, Absent, Json, Idle
<1>3. settings.form = "absent" => \A event \in Events : HooksOf(settings, event) = {}
  BY DEF Init, InstallInit, Absent, Json, Events, HooksOf
<1>4. \A event \in Events : promised[event] = HooksOf(settings, event)
  BY DEF Init, InstallInit
<1> QED
  BY <1>1, <1>2, <1>3, <1>4 DEF HookInv, Kept, Uninstalls, ClaudeWrites

(* What an install of the hooks does. *)
LEMMA HooksInstall ==
    ASSUME HookInv,
           StartInstallClaude \/ InstallClaudeRead \/ Backup
    PROVE  HookInv'
<1> USE DEF IsSettings
<1>1. CASE StartInstallClaude
  <2>1. cmd' = [pc |-> "claude-read", read |-> Absent, todo |-> <<>>]
    BY <1>1 DEF StartInstallClaude, Begin, Idle
  <2>2. /\ UNCHANGED <<settings, backups, bin, shim>>
        /\ promised' = [event \in Events |-> promised[event] \cup HooksOf(settings, event)]
    BY <1>1 DEF StartInstallClaude, Begin
  <2>3. \A event \in Events : HooksOf(settings, event)' = HooksOf(settings, event)
    BY <2>2 DEF HooksOf
  <2>4. \A event \in Events : \A hook \in promised'[event] :
          Kept(event, hook, backups \cup {settings})
    BY <2>2 DEF HookInv, Kept
  <2> QED
    BY <2>1, <2>2, <2>3, <2>4
       DEF HookInv, Typed, Kept, Absent, Json, Uninstalls, ClaudeWrites, HooksOf
<1>2. CASE InstallClaudeRead
  <2>1. /\ cmd' = [cmd EXCEPT !.pc = "claude-backup", !.read = Parsed(settings)]
        /\ UNCHANGED <<settings, backups, bin, shim, promised>>
    BY <1>2 DEF InstallClaudeRead
  <2>2. cmd' = [pc |-> "claude-backup", read |-> Parsed(settings), todo |-> cmd.todo]
    BY <2>1 DEF HookInv, Typed
  <2>3. IsSettings(Parsed(settings))
    BY DEF HookInv, Parsed, Json
  <2>4. cmd'.pc = "claude-backup" /\ IsSettings(cmd'.read)
        /\ cmd' = [pc |-> cmd'.pc, read |-> cmd'.read, todo |-> cmd'.todo]
    BY <2>2, <2>3
  <2> QED
    BY <2>1, <2>4 DEF HookInv, Typed, Kept, Uninstalls, ClaudeWrites, HooksOf
<1>3. CASE Backup
  <2>1. /\ cmd.pc = "claude-backup" /\ cmd' = [cmd EXCEPT !.pc = "claude-open"]
        /\ backups' = IF settings.form = "absent" THEN backups ELSE backups \cup {settings}
        /\ UNCHANGED <<settings, bin, shim, promised>>
    BY <1>3 DEF Backup, Step
  <2>2. cmd' = [pc |-> "claude-open", read |-> cmd.read, todo |-> cmd.todo]
    BY <2>1 DEF HookInv, Typed
  <2>3. \A event \in Events : \A hook \in promised[event] : Kept(event, hook, backups')
    BY <2>1 DEF HookInv, Kept
  <2> QED
    BY <2>1, <2>2, <2>3 DEF HookInv, Typed, Kept, Uninstalls, ClaudeWrites, HooksOf
<1> QED
  BY <1>1, <1>2, <1>3

(* Writing the settings. *)
LEMMA HooksWritten ==
    ASSUME HookInv, SettingsOpen \/ SettingsFill
    PROVE  HookInv'
<1> USE DEF IsSettings
<1>1. UNCHANGED <<backups, bin, shim, promised>>
      /\ cmd.pc \in ClaudeWrites \cup {"unclaude-open", "unclaude-fill"}
  BY DEF SettingsOpen, SettingsFill, Step, ClaudeWrites
<1>2. \A event \in Events : \A hook \in promised[event] : Kept(event, hook, backups)
  BY <1>1 DEF HookInv, Uninstalls
<1>3. IsSettings(settings') /\ settings'.form # "absent"
  <2>1. CASE SettingsOpen
    BY <2>1 DEF SettingsOpen, Torn, Json
  <2>2. CASE cmd.pc = "claude-fill" /\ settings' = MergeHooks(cmd.read)
    BY <2>2 DEF MergeHooks, Json
  <2>3. CASE cmd.pc = "unclaude-fill" /\ settings' = RemoveHooks(cmd.read)
    BY <2>3 DEF HookInv, RemoveHooks
  <2> QED
    BY <2>1, <2>2, <2>3 DEF SettingsFill
<1>4. /\ cmd' = [pc |-> cmd'.pc, read |-> cmd'.read, todo |-> cmd'.todo]
      /\ IsSettings(cmd'.read)
      /\ cmd'.pc \in {"unclaude-open", "unclaude-fill"} => cmd'.read.form # "absent"
      /\ cmd'.pc \in Uninstalls => cmd.pc \in Uninstalls
  <2>1. CASE SettingsOpen
    BY <2>1 DEF HookInv, Typed, SettingsOpen, Step, Uninstalls
  <2>2. CASE SettingsFill
    BY <2>2 DEF SettingsFill, Idle, Absent, Json, Uninstalls
  <2> QED
    BY <2>1, <2>2
<1> QED
  BY <1>1, <1>2, <1>3, <1>4 DEF HookInv, Typed, Kept, Uninstalls, ClaudeWrites

(* What an uninstall does before it writes, the user, and a death.         *)
LEMMA HooksElse ==
    ASSUME HookInv,
           StartUninstallClaude \/ UninstallClaudeRead \/ Die \/ EditSettings
    PROVE  HookInv'
<1> USE DEF IsSettings
<1>1. CASE StartUninstallClaude
  <2>1. cmd' = [pc |-> "unclaude-read", read |-> Absent, todo |-> <<>>]
    BY <1>1 DEF StartUninstallClaude, Begin, Idle
  <2>2. UNCHANGED <<settings, backups, bin, shim>> /\ promised' = [event \in Events |-> {}]
    BY <1>1 DEF StartUninstallClaude, Begin
  <2> QED
    BY <2>1, <2>2 DEF HookInv, Typed, Kept, Absent, Json, Uninstalls, ClaudeWrites, HooksOf
<1>2. CASE UninstallClaudeRead
  <2>1. cmd.pc = "unclaude-read" /\ UNCHANGED <<settings, backups, bin, shim, promised>>
    BY <1>2 DEF UninstallClaudeRead
  <2>2. CASE cmd' = Idle
    <3>1. cmd' = [pc |-> "idle", read |-> Absent, todo |-> <<>>]
      BY <2>2 DEF Idle
    <3> QED
      BY <2>1, <3>1 DEF HookInv, Typed, Kept, Absent, Json, Uninstalls, ClaudeWrites, HooksOf
  <2>3. CASE settings.form = "json"
             /\ cmd' = [cmd EXCEPT !.pc = "unclaude-open", !.read = settings]
    <3>1. cmd' = [pc |-> "unclaude-open", read |-> settings, todo |-> cmd.todo]
      BY <2>3 DEF HookInv, Typed
    <3>2. cmd'.pc = "unclaude-open" /\ cmd'.read = settings
          /\ cmd' = [pc |-> cmd'.pc, read |-> cmd'.read, todo |-> cmd'.todo]
      BY <3>1
    <3> QED
      BY <2>1, <2>3, <3>2 DEF HookInv, Typed, Kept, Uninstalls, ClaudeWrites, HooksOf
  <2> QED
    BY <1>2, <2>2, <2>3 DEF UninstallClaudeRead
<1>3. CASE Die
  <2>1. cmd' = [pc |-> "idle", read |-> Absent, todo |-> <<>>]
        /\ UNCHANGED <<settings, backups, bin, shim, promised>>
    BY <1>3 DEF Die, Idle
  <2> QED
    BY <2>1 DEF HookInv, Typed, Kept, Absent, Json, Uninstalls, ClaudeWrites, HooksOf
<1>4. CASE EditSettings
  <2>1. /\ UNCHANGED <<backups, cmd, bin, shim>>
        /\ IsSettings(settings') /\ settings'.form = "json"
    BY <1>4 DEF EditSettings, Json
  <2>2. CASE cmd.pc \in ClaudeWrites \cup Uninstalls
    <3>1. promised' = [event \in Events |-> {}]
      BY <1>4, <2>2 DEF EditSettings, ClaudeWrites, Uninstalls
    <3> QED
      BY <2>1, <3>1 DEF HookInv, Typed
  <2>3. CASE cmd.pc \notin ClaudeWrites \cup Uninstalls
    <3>1. promised' = [event \in Events |-> HooksOf(settings', event)]
      BY <1>4, <2>3 DEF EditSettings, ClaudeWrites, Uninstalls
    <3>2. \A event \in Events : \A hook \in promised'[event] :
            Kept(event, hook, backups \cup {settings'})
      BY <3>1 DEF Kept
    <3> QED
      BY <2>1, <2>3, <3>1, <3>2 DEF HookInv, Typed, Kept
  <2> QED
    BY <2>2, <2>3
<1> QED
  BY <1>1, <1>2, <1>3, <1>4

(* --shell touches neither the settings nor what was promised.             *)
LEMMA HooksShell ==
    ASSUME HookInv, LinkInv', NEW busy \in BOOLEAN,
           \/ StartInstallShell \/ ShimOpen(busy) \/ ShimFill \/ ShimChmod \/ Link
           \/ StartUninstallShell \/ Unlink
    PROVE  HookInv'
<1>1. UNCHANGED <<settings, backups, promised>>
  BY DEF StartInstallShell, ShimOpen, ShimFill, ShimChmod, Link, StartUninstallShell, Unlink, Begin
<1> DEFINE Phases == {"idle", "unlink", "shell-open"} \cup ShellPhase
           Fine == cmd'.pc \in Phases /\ (cmd'.read = cmd.read \/ cmd'.read = Absent)
<1>2. Fine
  <2> USE DEF ShellPhase
  <2>1. CASE StartInstallShell \/ StartUninstallShell
    <3>1. PICK pc \in {"shell-open", "unlink"} : cmd' = [Idle EXCEPT !.pc = pc]
      BY <2>1 DEF StartInstallShell, StartUninstallShell, Begin
    <3>2. cmd' = [pc |-> pc, read |-> Absent, todo |-> <<>>]
      BY <3>1 DEF Idle
    <3> QED
      BY <3>2
  <2>2. CASE cmd' = Idle \/ (cmd' = cmd /\ cmd.pc \in Phases)
    BY <2>2 DEF Idle
  <2>3. CASE \E pc \in Phases : \E todo :
               cmd' = [cmd EXCEPT !.pc = pc] \/ cmd' = [cmd EXCEPT !.pc = pc, !.todo = todo]
    <3>1. PICK pc \in Phases : \E todo :
                 cmd' = [cmd EXCEPT !.pc = pc] \/ cmd' = [cmd EXCEPT !.pc = pc, !.todo = todo]
      BY <2>3
    <3>2. cmd'.pc = pc /\ cmd'.read = cmd.read
      BY <3>1 DEF HookInv, Typed
    <3> QED
      BY <3>1, <3>2
  <2>4. CASE \E todo : cmd.pc \in Phases /\ cmd' = [cmd EXCEPT !.todo = todo]
    BY <2>4 DEF HookInv, Typed
  <2>5. CASE ShimOpen(busy) \/ ShimFill \/ ShimChmod
    BY <2>2, <2>3, <2>5 DEF ShimOpen, ShimFill, ShimChmod, Step
  <2>6. CASE Link \/ Unlink
    BY <2>2, <2>4, <2>6 DEF Link, Unlink
  <2> QED
    BY <2>1, <2>5, <2>6
<1>3. IsSettings(cmd'.read)
  BY <1>2 DEF HookInv, IsSettings, Absent, Json
<1> QED
  BY <1>1, <1>2, <1>3
     DEF HookInv, LinkInv, Kept, HooksOf, IsSettings, Uninstalls, ClaudeWrites, ShellPhase

(* Whatever commands run and die when, and however the user edits: a hook  *)
(* the user had when an install started is not lost by it.                 *)
THEOREM HooksSurviveInstalls == Spec => []UsersHooksKept
<1>1. LinkInv /\ HookInv /\ [Next]_vars => LinkInv' /\ HookInv'
  <2> SUFFICES ASSUME LinkInv, HookInv, [Next]_vars PROVE LinkInv' /\ HookInv'
    OBVIOUS
  <2>1. CASE Installs
    <3>1. (run.pc \notin {"idle", "done"}) \in BOOLEAN
      OBVIOUS
    <3>2. LinkInv'
      BY <2>1, LinksStep
    <3> QED
      BY <2>1, <3>1, <3>2, HooksInstall, HooksWritten, HooksElse, HooksShell
         DEF Installs, InstallNext
  <2>2. CASE UNCHANGED vars \/ (Next /\ ~Installs)
    <3>1. UNCHANGED installVars
      BY <2>2, OthersLeaveIt DEF vars
    <3>2. HookInv'
      BY <3>1 DEF installVars, HookInv, Typed, Kept, HooksOf, IsSettings
    <3> QED
      BY <3>2, LinksStep
  <2> QED
    BY <2>1, <2>2
<1>2. HookInv => UsersHooksKept
  BY DEF HookInv, UsersHooksKept, Kept
<1> QED
  BY <1>1, <1>2, LinksInit, HooksInit, PTL DEF Spec


---------------------------------------------------------------------------
(* The program run. *)

Files ==
    /\ DOMAIN files = Dirs
    /\ \A dir \in Dirs : files[dir] \in [Names -> {"absent", "plain", "program"}]

Records ==
    /\ runs \in 0..MaxRuns
    /\ DOMAIN records = 1..MaxRuns
    /\ \A n \in 1..MaxRuns : n > runs => records[n] = 0

RunTyped ==
    run = [pc |-> run.pc, name |-> run.name, argv0 |-> run.argv0, left |-> run.left,
           found |-> run.found, entered |-> run.entered, behind |-> run.behind,
           kept |-> run.kept, steady |-> run.steady, outcome |-> run.outcome]

Under == {"look", "record", "exec"}

\* The directories looked at are the first ones of PATH.
Looked == Len(Path) - Len(run.left)

Looking ==
    /\ run.argv0 = "bin" /\ run.name \in Names /\ runs \in 1..MaxRuns
    /\ run.kept \in BOOLEAN /\ run.steady \in BOOLEAN
    /\ run.found \in Seq(Dirs)
    /\ run.left \in Seq(STRING) /\ Len(run.left) <= Len(Path)
    /\ \A i \in 1..Len(run.left) : run.left[i] = Path[Looked + i]
    /\ run.pc # "look" => run.left = <<>> /\ run.found # <<>>
    /\ run.pc # "exec" => run.kept
    /\ records[runs] = IF run.pc = "exec" /\ run.kept THEN 1 ELSE 0

\* What was found first is what stands first.
FoundFirst ==
    IF run.found = <<>> THEN \A i \in 1..Looked : ~Holds(Path[i], run.name)
    ELSE \E i \in 1..Looked :
            /\ Holds(Path[i], run.name) /\ Head(run.found) = Path[i]
            /\ \A j \in 1..(i - 1) : ~Holds(Path[j], run.name)

RunInv ==
    /\ Files /\ Records /\ RunTyped
    /\ run.pc \in Under \cup {"idle", "done"}
    /\ run.pc \in Under => Looking
    /\ run.pc \in Under /\ run.steady => FoundFirst /\ run.behind = ProgramBehind(run.name)
    /\ RunsWhatPathHolds

LEMMA PathIs ==
    /\ Path \in Seq(STRING) /\ Len(Path) \in Nat /\ DOMAIN Path = 1..Len(Path)
    /\ \A i \in 1..Len(Path) : Path[i] # "bin" => Path[i] \in Dirs
    /\ \A dir \in Dirs : dir \notin {"none", "126", "127", "bin"}
<1>1. Path \in Seq(STRING) /\ ToSet(Path) \cap {"none", "126", "127"} = {}
  BY ShimConstants
<1>2. \A i \in 1..Len(Path) : Path[i] \in ToSet(Path)
  BY <1>1 DEF ToSet
<1> QED
  BY <1>1, <1>2 DEF Dirs

LEMMA RunInit == Init => RunInv
<1> SUFFICES ASSUME Init PROVE RunInv
  OBVIOUS
<1>1. PICK kind \in [Dirs -> {"absent", "plain", "program"}] :
        files = [dir \in Dirs |-> [name \in Names |-> kind[dir]]]
  BY DEF Init
<1>2. Files
  BY <1>1 DEF Files
<1>3. Records
  BY ShimConstants DEF Init, Records
<1>4. RunTyped /\ run.pc = "idle"
  BY DEF Init, NoRun, RunTyped
<1> QED
  BY <1>2, <1>3, <1>4 DEF RunInv, Under, RunsWhatPathHolds

(* ProgramBehind is the first directory that holds the program. *)
LEMMA BehindIs ==
    ASSUME NEW name
    PROVE  /\ (\A i \in 1..Len(Path) : ~Holds(Path[i], name)) => ProgramBehind(name) = "none"
           /\ \A i \in 1..Len(Path) :
                (/\ Holds(Path[i], name)
                 /\ \A j \in 1..(i - 1) : ~Holds(Path[j], name)) => ProgramBehind(name) = Path[i]
<1> DEFINE first == {i \in DOMAIN Path : /\ Holds(Path[i], name)
                                         /\ \A j \in 1..(i - 1) : ~Holds(Path[j], name)}
<1>1. DOMAIN Path = 1..Len(Path) /\ Len(Path) \in Nat
  BY PathIs
<1>2. ASSUME \A i \in 1..Len(Path) : ~Holds(Path[i], name) PROVE ProgramBehind(name) = "none"
  BY <1>1, <1>2 DEF ProgramBehind
<1>3. ASSUME NEW i \in 1..Len(Path), Holds(Path[i], name),
             \A j \in 1..(i - 1) : ~Holds(Path[j], name)
      PROVE  ProgramBehind(name) = Path[i]
  <2>1. i \in first
    BY <1>1, <1>3
  <2>2. ASSUME NEW k \in first PROVE k = i
    <3>1. k \in 1..Len(Path) /\ Holds(Path[k], name) /\ \A j \in 1..(k - 1) : ~Holds(Path[j], name)
      BY <1>1
    <3>2. k \in Int /\ i \in Int /\ (k < i => k \in 1..(i - 1)) /\ (i < k => i \in 1..(k - 1))
      BY <1>1, <3>1
    <3>3. ~(k < i) /\ ~(i < k)
      BY <1>3, <3>1, <3>2
    <3> QED
      BY <3>2, <3>3
  <2>3. ProgramBehind(name) = Path[CHOOSE k \in first : TRUE]
    BY <2>1 DEF ProgramBehind
  <2> QED
    BY <2>1, <2>2, <2>3
<1> QED
  BY <1>2, <1>3

(* A directory of PATH other than depose's is taken for what it holds.     *)
LEMMA ExecutableHolds ==
    ASSUME Files, NEW dir \in Dirs, NEW name \in Names
    PROVE  /\ Executable(dir, name) <=> Holds(dir, name)
           /\ FileAt(dir, name) = files[dir][name] /\ FileAt(dir, name) # "shim"
<1>1. dir # "bin"
  BY PathIs
<1> QED
  BY <1>1 DEF Files, Executable, FileAt, Holds

LEMMA RunInvoked ==
    ASSUME ByName = FALSE, RunInv, Invoke
    PROVE  RunInv'
<1>1. PICK name \in Names :
        run' = [NoRun EXCEPT !.pc = "look", !.name = name, !.left = Path, !.entered = 1,
                             !.behind = ProgramBehind(name), !.argv0 = "bin"]
  BY DEF Invoke
<1> DEFINE behind == ProgramBehind(name)
<1>2. /\ run'.pc = "look" /\ run'.name = name /\ run'.left = Path /\ run'.behind = behind
      /\ run'.argv0 = "bin" /\ run'.found = <<>> /\ run'.kept = TRUE /\ run'.steady = TRUE
      /\ RunTyped'
  BY <1>1 DEF NoRun, RunTyped
<1> HIDE DEF behind
<1>3. /\ runs < MaxRuns /\ runs' = runs + 1 /\ files' = files /\ records' = records
  BY DEF Invoke
<1>4. Files' /\ Records' /\ runs' \in 1..MaxRuns /\ records'[runs'] = 0
  BY <1>3, ShimConstants DEF RunInv, Files, Records
<1>5. Looked' = 0
  BY <1>2, PathIs DEF Looked
<1>6. Looking'
  <2>1. /\ run'.left \in Seq(STRING) /\ Len(run'.left) <= Len(Path)
        /\ \A i \in 1..Len(run'.left) : run'.left[i] = Path[Looked' + i]
    <3>1. \A i \in 1..Len(Path) : 0 + i = i
      BY PathIs
    <3> QED
      BY <1>2, <1>5, <3>1, PathIs
  <2>2. <<>> \in Seq(Dirs)
    OBVIOUS
  <2>3. /\ run'.found \in Seq(Dirs) /\ run'.kept \in BOOLEAN /\ run'.steady \in BOOLEAN
    BY <1>2, <2>2
  <2> QED
    BY <1>2, <1>4, <2>1, <2>3 DEF Looking
<1>7. FoundFirst'
  BY <1>2, <1>5 DEF FoundFirst
<1>8. ProgramBehind(name)' = ProgramBehind(name)
  BY <1>3 DEF ProgramBehind, Holds
<1>9. run'.behind = ProgramBehind(run.name)'
  BY <1>2, <1>3 DEF ProgramBehind, Holds, behind
<1> QED
  BY <1>2, <1>4, <1>6, <1>7, <1>9 DEF RunInv, Under, RunsWhatPathHolds


LEMMA RunLooked ==
    ASSUME RunInv, Look
    PROVE  RunInv'
<1> DEFINE dir == Head(run.left)
           n == Looked
<1>1. /\ run.pc = "look" /\ run.left # <<>>
      /\ run' = [run EXCEPT !.found = Candidates(dir), !.left = Tail(run.left)]
      /\ UNCHANGED <<installVars, files, records, runs, changes>>
  BY DEF Look
<1>2. Looking /\ Files /\ Records /\ RunTyped
  BY <1>1 DEF RunInv, Under
<1>3. /\ run'.pc = "look" /\ run'.found = Candidates(dir) /\ run'.left = Tail(run.left)
      /\ run'.argv0 = run.argv0 /\ run'.name = run.name /\ run'.kept = run.kept
      /\ run'.steady = run.steady /\ run'.behind = run.behind /\ RunTyped'
  BY <1>1, <1>2 DEF RunTyped
<1>4. /\ run.left \in Seq(STRING) /\ Len(run.left) \in Nat \ {0} /\ Len(run.left) <= Len(Path)
      /\ dir = run.left[1] /\ Tail(run.left) \in Seq(STRING)
      /\ Len(Tail(run.left)) = Len(run.left) - 1
      /\ \A i \in 1..(Len(run.left) - 1) : Tail(run.left)[i] = run.left[i + 1]
  <2> DEFINE l == run.left
  <2>1. l \in Seq(STRING) /\ l # <<>> /\ Len(l) <= Len(Path)
    BY <1>1, <1>2 DEF Looking
  <2> HIDE DEF l
  <2>2. Len(l) \in Nat \ {0} /\ Head(l) = l[1]
    BY <2>1
  <2>3. Tail(l) \in Seq(STRING) /\ Len(Tail(l)) = Len(l) - 1
    BY <2>1
  <2>4. \A i \in 1..(Len(l) - 1) : Tail(l)[i] = l[i + 1]
    BY <2>1
  <2> QED
    BY <2>1, <2>2, <2>3, <2>4 DEF l
<1>5. n \in 0..(Len(Path) - 1) /\ n + 1 \in 1..Len(Path) /\ Looked' = n + 1 /\ dir = Path[n + 1]
  <2>1. n = Len(Path) - Len(run.left) /\ Len(Path) \in Nat /\ Looked' = Len(Path) - Len(run'.left)
    BY PathIs DEF Looked
  <2>2. 1 \in 1..Len(run.left) /\ run.left[1] = Path[n + 1]
    BY <1>2, <1>4 DEF Looking
  <2> HIDE DEF n, dir
  <2>3. Len(run'.left) = Len(run.left) - 1
    BY <1>3, <1>4
  <2>4. n \in 0..(Len(Path) - 1) /\ n + 1 \in 1..Len(Path) /\ Looked' = n + 1
    BY <1>4, <2>1, <2>3
  <2> QED
    BY <1>4, <2>2, <2>4
<1> HIDE DEF n, dir
<1>6. Candidates(dir) = IF Holds(dir, run.name) THEN Append(run.found, dir) ELSE run.found
  <2>1. CASE dir = "bin"
    <3>1. ~Holds(dir, run.name)
      BY <2>1, PathIs DEF Holds
    <3> QED
      BY <1>2, <2>1, <3>1 DEF Candidates, Looking
  <2>2. CASE dir # "bin"
    <3>1. dir \in Dirs
      BY <1>5, <2>2, PathIs
    <3>2. Executable(dir, run.name) <=> Holds(dir, run.name)
      BY <1>2, <3>1, ExecutableHolds DEF Looking
    <3> QED
      BY <1>2, <2>2, <3>2 DEF Candidates, Looking
  <2> QED
    BY <2>1, <2>2
<1>7. Looking'
  <2>1. Candidates(dir) \in Seq(Dirs)
    <3>1. Holds(dir, run.name) => dir \in Dirs
      BY DEF Holds
    <3> QED
      BY <1>2, <1>6, <3>1 DEF Looking
  <2>2. \A i \in 1..Len(run'.left) : run'.left[i] = Path[Looked' + i]
    <3>1. SUFFICES ASSUME NEW i \in 1..Len(run'.left) PROVE run'.left[i] = Path[Looked' + i]
      OBVIOUS
    <3>2. i \in 1..(Len(run.left) - 1) /\ i + 1 \in 1..Len(run.left) /\ n + (i + 1) = n + 1 + i
      BY <1>3, <1>4, <1>5, <3>1
    <3>3. run.left[i + 1] = Path[n + (i + 1)]
      BY <1>2, <3>2 DEF Looking, n
    <3> QED
      BY <1>3, <1>4, <1>5, <3>2, <3>3
  <2>3. run'.left \in Seq(STRING) /\ Len(run'.left) <= Len(Path)
    BY <1>3, <1>4, PathIs
  <2> QED
    BY <1>1, <1>2, <1>3, <2>1, <2>2, <2>3 DEF Looking
<1>8. run.steady => FoundFirst' /\ run'.behind = ProgramBehind(run.name)'
  <2>1. SUFFICES ASSUME run.steady PROVE FoundFirst' /\ run'.behind = ProgramBehind(run.name)'
    OBVIOUS
  <2>2. FoundFirst /\ run.behind = ProgramBehind(run.name)
    BY <1>1, <2>1 DEF RunInv, Under
  <2>3. \A d : Holds(d, run.name)' <=> Holds(d, run.name)
    BY <1>1, <1>3 DEF Holds
  <2>4. ProgramBehind(run.name)' = ProgramBehind(run.name)
    BY <1>1, <1>3 DEF ProgramBehind, Holds
  <2>5. run.found \in Seq(Dirs)
    BY <1>2 DEF Looking
  <2>6. CASE run.found = <<>> /\ ~Holds(dir, run.name)
    <3>1. \A i \in 1..(n + 1) : ~Holds(Path[i], run.name)
      <4>1. \A i \in 1..(n + 1) : i \in 1..n \/ i = n + 1
        BY <1>5
      <4> QED
        BY <1>5, <2>2, <2>6, <4>1 DEF FoundFirst, n
    <3>2. run'.found = <<>>
      BY <1>3, <1>6, <2>6
    <3>3. FoundFirst'
      BY <1>1, <1>3, <1>5, <3>1, <3>2 DEF FoundFirst, Holds
    <3> QED
      BY <1>3, <2>2, <2>4, <3>3
  <2>7. CASE run.found = <<>> /\ Holds(dir, run.name)
    <3>1. run'.found # <<>> /\ Head(run'.found) = dir
      BY <1>3, <1>6, <2>7
    <3>2. \A j \in 1..(n + 1 - 1) : ~Holds(Path[j], run.name)
      <4>1. 1..(n + 1 - 1) = 1..n
        BY <1>5
      <4> QED
        BY <2>2, <2>7, <4>1 DEF FoundFirst, n
    <3>3. n + 1 \in 1..Looked'
      BY <1>5
    <3>4. FoundFirst'
      BY <1>1, <1>3, <1>5, <2>7, <3>1, <3>2, <3>3 DEF FoundFirst, Holds
    <3> QED
      BY <1>3, <2>2, <2>4, <3>4
  <2>8. CASE run.found # <<>>
    <3>1. run'.found # <<>> /\ Head(run'.found) = Head(run.found)
      BY <1>3, <1>6, <2>5, <2>8
    <3>2. PICK i \in 1..n : /\ Holds(Path[i], run.name) /\ Head(run.found) = Path[i]
                            /\ \A j \in 1..(i - 1) : ~Holds(Path[j], run.name)
      BY <2>2, <2>8 DEF FoundFirst, n
    <3>3. i \in 1..Looked'
      BY <1>5
    <3>4. FoundFirst'
      BY <1>1, <1>3, <3>1, <3>2, <3>3 DEF FoundFirst, Holds
    <3> QED
      BY <1>3, <2>2, <2>4, <3>4
  <2> QED
    BY <2>6, <2>7, <2>8
<1>9. Files' /\ Records'
  BY <1>1, <1>2 DEF Files, Records
<1> QED
  BY <1>3, <1>7, <1>8, <1>9 DEF RunInv, Under, RunsWhatPathHolds

LEMMA RunFound ==
    ASSUME RunInv, Found
    PROVE  RunInv'
<1>1. /\ run.pc = "look" /\ run.left = <<>>
      /\ run' = IF run.found = <<>> THEN [run EXCEPT !.pc = "done", !.outcome = "127"]
                ELSE IF IsSelf(Head(run.found)) THEN [run EXCEPT !.pc = "done", !.outcome = "126"]
                ELSE [run EXCEPT !.pc = "record"]
      /\ UNCHANGED <<installVars, files, records, runs, changes>>
  BY DEF Found
<1>2. Looking /\ Files /\ Records /\ RunTyped
  BY <1>1 DEF RunInv, Under
<1>3. Files' /\ Records'
  BY <1>1, <1>2 DEF Files, Records
<1>4. Looked = Len(Path)
  BY <1>1, PathIs DEF Looked
<1>5. CASE run.found = <<>>
  <2>1. /\ run'.pc = "done" /\ run'.outcome = "127" /\ run'.behind = run.behind
        /\ run'.steady = run.steady /\ RunTyped'
    BY <1>1, <1>2, <1>5 DEF RunTyped
  <2>2. run.steady => run.behind = "none"
    <3>1. SUFFICES ASSUME run.steady PROVE run.behind = "none"
      OBVIOUS
    <3>2. FoundFirst /\ run.behind = ProgramBehind(run.name)
      BY <1>1, <3>1 DEF RunInv, Under
    <3>3. \A i \in 1..Len(Path) : ~Holds(Path[i], run.name)
      BY <1>4, <1>5, <3>2 DEF FoundFirst
    <3> QED
      BY <3>2, <3>3, BehindIs
  <2>3. "127" \notin Dirs
    BY PathIs
  <2>4. RunsWhatPathHolds'
    BY <1>1, <2>1, <2>2, <2>3 DEF RunsWhatPathHolds, Dirs
  <2> QED
    BY <1>3, <2>1, <2>4 DEF RunInv, Under
<1>6. CASE run.found # <<>>
  <2>1. ~ IsSelf(Head(run.found))
    <3>1. Head(run.found) \in Dirs
      BY <1>2, <1>6 DEF Looking
    <3> QED
      BY <1>2, <3>1, PathIs DEF IsSelf, Looking
  <2>2. run' = [run EXCEPT !.pc = "record"]
    BY <1>1, <1>6, <2>1
  <2>3. /\ run'.pc = "record" /\ run'.found = run.found /\ run'.left = run.left
        /\ run'.argv0 = run.argv0 /\ run'.name = run.name /\ run'.kept = run.kept
        /\ run'.steady = run.steady /\ run'.behind = run.behind /\ RunTyped'
    BY <1>2, <2>2 DEF RunTyped
  <2>4. Looking'
    BY <1>1, <1>2, <1>6, <2>3 DEF Looking, Looked
  <2>5. run.steady => FoundFirst' /\ run'.behind = ProgramBehind(run.name)'
    BY <1>1, <2>3 DEF RunInv, Under, FoundFirst, Looked, Holds, ProgramBehind
  <2> QED
    BY <1>3, <2>3, <2>4, <2>5 DEF RunInv, Under, RunsWhatPathHolds
<1> QED
  BY <1>5, <1>6

LEMMA RunRecorded ==
    ASSUME RunInv, Record
    PROVE  RunInv'
<1>1. /\ run.pc = "record"
      /\ \/ records' = [records EXCEPT ![runs] = @ + 1] /\ run' = [run EXCEPT !.pc = "exec"]
         \/ run' = [run EXCEPT !.pc = "exec", !.kept = FALSE] /\ UNCHANGED records
      /\ UNCHANGED <<installVars, files, runs, changes>>
  BY DEF Record
<1>2. Looking /\ Files /\ Records /\ RunTyped
  BY <1>1 DEF RunInv, Under
<1>3. Files' /\ Records'
  <2>1. Files'
    BY <1>1, <1>2 DEF Files
  <2>2. \A n \in 1..MaxRuns : n > runs => records'[n] = records[n]
    <3>1. \A n \in 1..MaxRuns : n > runs => n # runs
      BY <1>2 DEF Records
    <3> QED
      BY <1>1, <1>2, <3>1 DEF Records
  <2>3. DOMAIN records' = 1..MaxRuns
    BY <1>1, <1>2 DEF Records
  <2> QED
    BY <1>1, <1>2, <2>1, <2>2, <2>3 DEF Records
<1>4. /\ run'.pc = "exec" /\ run'.found = run.found /\ run'.left = run.left
      /\ run'.argv0 = run.argv0 /\ run'.name = run.name /\ run'.kept \in BOOLEAN
      /\ run'.steady = run.steady /\ run'.behind = run.behind /\ RunTyped'
  BY <1>1, <1>2 DEF RunTyped, Looking
<1>5. records'[runs'] = IF run'.kept THEN 1 ELSE 0
  <2>1. run.kept = TRUE /\ records[runs] = 0 /\ runs \in DOMAIN records
    BY <1>1, <1>2 DEF Looking, Records
  <2>2. CASE records' = [records EXCEPT ![runs] = @ + 1] /\ run' = [run EXCEPT !.pc = "exec"]
    <3>1. run'.kept = run.kept
      BY <1>2, <2>2 DEF RunTyped
    <3> QED
      BY <1>1, <2>1, <2>2, <3>1
  <2>3. CASE run' = [run EXCEPT !.pc = "exec", !.kept = FALSE] /\ UNCHANGED records
    <3>1. run'.kept = FALSE
      BY <1>2, <2>3 DEF RunTyped
    <3> QED
      BY <1>1, <2>1, <2>3, <3>1
  <2> QED
    BY <1>1, <2>2, <2>3
<1>6. Looking'
  BY <1>1, <1>2, <1>4, <1>5 DEF Looking, Looked
<1>7. run.steady => FoundFirst' /\ run'.behind = ProgramBehind(run.name)'
  BY <1>1, <1>4 DEF RunInv, Under, FoundFirst, Looked, Holds, ProgramBehind
<1> QED
  BY <1>3, <1>4, <1>6, <1>7 DEF RunInv, Under, RunsWhatPathHolds


LEMMA RunExecuted ==
    ASSUME RunInv, ExecThrough
    PROVE  RunInv'
<1> DEFINE at == Head(run.found)
<1>1. /\ run.pc = "exec"
      /\ run' = CASE FileAt(at, run.name) = "program" -> [run EXCEPT !.pc = "done", !.outcome = at]
                  [] FileAt(at, run.name) = "shim" ->
                       [run EXCEPT !.pc = "look", !.left = Path, !.found = <<>>, !.entered = @ + 1]
                  [] OTHER -> [run EXCEPT !.pc = "done", !.outcome = "126"]
      /\ UNCHANGED <<installVars, files, records, runs, changes>>
  BY DEF ExecThrough
<1>2. Looking /\ Files /\ Records /\ RunTyped
  BY <1>1 DEF RunInv, Under
<1>3. Files' /\ Records'
  BY <1>1, <1>2 DEF Files, Records
<1>4. at \in Dirs /\ run.name \in Names /\ run.found # <<>>
  BY <1>1, <1>2 DEF Looking
<1> HIDE DEF at
<1>5. FileAt(at, run.name) # "shim" /\ FileAt(at, run.name) = files[at][run.name]
  BY <1>2, <1>4, ExecutableHolds
<1>6. run.steady => run.behind = at /\ FileAt(at, run.name) = "program"
  <2>1. SUFFICES ASSUME run.steady PROVE run.behind = at /\ FileAt(at, run.name) = "program"
    OBVIOUS
  <2>2. FoundFirst /\ run.behind = ProgramBehind(run.name)
    BY <1>1, <2>1 DEF RunInv, Under
  <2>3. PICK i \in 1..Looked : /\ Holds(Path[i], run.name) /\ Head(run.found) = Path[i]
                               /\ \A j \in 1..(i - 1) : ~Holds(Path[j], run.name)
    BY <1>4, <2>2 DEF FoundFirst
  <2>4. i \in 1..Len(Path)
    <3>1. Len(run.left) \in Nat /\ Len(Path) \in Nat
      BY <1>2, PathIs DEF Looking
    <3>2. Looked <= Len(Path) /\ Looked \in Int
      BY <3>1 DEF Looked
    <3> QED
      BY <2>3, <3>1, <3>2
  <2>5. ProgramBehind(run.name) = at
    BY <2>3, <2>4, BehindIs DEF at
  <2>6. files[at][run.name] = "program"
    BY <2>3 DEF Holds, at
  <2> QED
    BY <1>5, <2>2, <2>5, <2>6
<1>7. records[runs] = IF run.kept THEN 1 ELSE 0
  BY <1>1, <1>2 DEF Looking
<1>8. CASE FileAt(at, run.name) = "program"
  <2>1. run' = [run EXCEPT !.pc = "done", !.outcome = at]
    BY <1>1, <1>8
  <2>2. /\ run'.pc = "done" /\ run'.outcome = at /\ run'.kept = run.kept
        /\ run'.steady = run.steady /\ run'.behind = run.behind /\ RunTyped'
    BY <1>2, <2>1 DEF RunTyped
  <2>3. at # "none"
    BY <1>4, PathIs
  <2>4. RunsWhatPathHolds'
    BY <1>1, <1>6, <1>7, <2>2, <2>3 DEF RunsWhatPathHolds
  <2> QED
    BY <1>3, <2>2, <2>4 DEF RunInv, Under
<1>9. CASE FileAt(at, run.name) # "program"
  <2>1. run' = [run EXCEPT !.pc = "done", !.outcome = "126"]
    BY <1>1, <1>5, <1>9
  <2>2. run'.pc = "done" /\ run'.steady = run.steady /\ RunTyped'
    BY <1>2, <2>1 DEF RunTyped
  <2>3. RunsWhatPathHolds'
    BY <1>6, <1>9, <2>2 DEF RunsWhatPathHolds
  <2> QED
    BY <1>3, <2>2, <2>3 DEF RunInv, Under
<1> QED
  BY <1>8, <1>9

(* A program that comes or goes leaves a run that makes no promise.        *)
LEMMA RunDisturbed ==
    ASSUME RunInv, ProgramsChange
    PROVE  RunInv'
<1>1. PICK dir \in Dirs, name \in Names, kind \in {"absent", "plain", "program"} :
        files' = [files EXCEPT ![dir][name] = kind]
  BY DEF ProgramsChange
<1>2. /\ run' = IF run.pc = "done" THEN run ELSE [run EXCEPT !.steady = FALSE]
      /\ UNCHANGED <<installVars, records, runs>>
  BY DEF ProgramsChange
<1>3. Files'
  BY <1>1 DEF RunInv, Files
<1>4. Records'
  BY <1>2 DEF RunInv, Records
<1>5. CASE run.pc = "done"
  BY <1>2, <1>3, <1>4, <1>5 DEF RunInv, RunTyped, Under, RunsWhatPathHolds
<1>6. CASE run.pc # "done"
  <2>1. RunTyped /\ run' = [run EXCEPT !.steady = FALSE]
    BY <1>2, <1>6 DEF RunInv
  <2>2. /\ run'.pc = run.pc /\ run'.found = run.found /\ run'.left = run.left
        /\ run'.argv0 = run.argv0 /\ run'.name = run.name /\ run'.kept = run.kept
        /\ run'.steady = FALSE /\ RunTyped'
    BY <2>1 DEF RunTyped
  <2>3. run.pc \in Under => Looking'
    BY <1>2, <2>2 DEF RunInv, Looking, Looked
  <2> QED
    BY <1>3, <1>4, <1>6, <2>2, <2>3 DEF RunInv, Under, RunsWhatPathHolds
<1> QED
  BY <1>5, <1>6

(* Run by a path, the shim is transparent: whatever installs and uninstalls *)
(* do to its directory meanwhile, a command ends in the program that would  *)
(* have run had the shim not been there, or in 127 when there is none, and  *)
(* left one record unless the store refused it.                             *)
THEOREM RunByPathIsTransparent ==
    ASSUME ByName = FALSE
    PROVE  Spec => []RunsWhatPathHolds
<1>1. RunInv /\ [Next]_vars => RunInv'
  <2> SUFFICES ASSUME RunInv, [Next]_vars PROVE RunInv'
    OBVIOUS
  <2>1. CASE Installs \/ UNCHANGED vars
    <3>1. UNCHANGED shimVars
      BY <2>1 DEF Installs, vars
    <3> QED
      BY <3>1 DEF shimVars, RunInv, Files, Records, RunTyped, Looking, Looked, FoundFirst,
                  ProgramBehind, Holds, Under, RunsWhatPathHolds
  <2> QED
    BY <2>1, RunInvoked, RunLooked, RunFound, RunRecorded, RunExecuted, RunDisturbed DEF Next
<1>2. RunInv => RunsWhatPathHolds
  BY DEF RunInv
<1> QED
  BY <1>1, <1>2, RunInit, PTL DEF Spec
=============================================================================
