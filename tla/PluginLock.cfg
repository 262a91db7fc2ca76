SPECIFICATION Spec
CONSTANTS
    Callers = {c1, c2}
    Main = main
    None = none
    MaxProcs = 2
    Kinds = {"enable", "install", "uninstall"}
    Faults = {"slow", "unlocked", "disconnect"}
    Heartbeat = FALSE
SYMMETRY Symmetry
INVARIANT
    LaunchUncontended
