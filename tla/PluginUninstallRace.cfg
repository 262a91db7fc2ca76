SPECIFICATION Spec
CONSTANTS
    Callers = {c1, c2}
    Main = main
    None = none
    MaxProcs = 3
    Kinds = {"enable", "uninstall"}
    Faults = {"unlocked"}
    Heartbeat = FALSE
INVARIANT
    RunsOnlyIfWanted
