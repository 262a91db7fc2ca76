SPECIFICATION Spec
CONSTANTS
    Callers = {c1, c2}
    Main = main
    None = none
    MaxProcs = 3
    Kinds = {"enable", "disable", "update", "install", "uninstall", "shutdown"}
    Faults = {"launch", "init", "fetch", "swap", "crash", "hang"}
    Heartbeat = TRUE
SYMMETRY Symmetry
CHECK_DEADLOCK FALSE
INVARIANTS
    TypeOK
    SwapExclusive
    LiveIsTracked
    StopLeavesNothing
    RunsOnlyIfWanted
    
