\* Commands run by their bare names, as a shell runs them.
CONSTANTS
    Allowlist <- TwoNames
    Own = {"lint"}
    Path <- MidPath
    Cwd = "home"
    ByName = TRUE
    MaxCommands = 2
    MaxEdits = 1
    MaxFaults = 1
    MaxRuns = 1
    MaxChanges = 1
SPECIFICATION Spec
INVARIANTS
    NeverReenters
CHECK_DEADLOCK FALSE
