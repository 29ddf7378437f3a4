\* Commands run by path, while installs and uninstalls come, go and die.
CONSTANTS
    Allowlist <- TwoNames
    Own = {"lint"}
    Path <- MidPath
    Cwd = "home"
    ByName = FALSE
    MaxCommands = 2
    MaxEdits = 1
    MaxFaults = 1
    MaxRuns = 1
    MaxChanges = 1
SPECIFICATION Spec
INVARIANTS
    RunsWhatPathHolds
    UsersHooksKept
    LinksReachTheShim
CHECK_DEADLOCK FALSE
