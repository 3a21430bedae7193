SPECIFICATION InstallSpec
CONSTANTS
    Installers = {"i1"}
    Selectors = {}
    CommitSignals = TRUE
    MaxEdits = 0
    MaxInstallFaults = 1
INVARIANT EntryResolves
CHECK_DEADLOCK FALSE
