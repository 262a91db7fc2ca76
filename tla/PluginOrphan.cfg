SPECIFICATION Spec
CONSTANTS
    Callers = {c1, c2}
    Main = main
    None = none
    MaxProcs = 3
    Kinds = {"enable", "disable"}
    Faults = {"slow"}
    Heartbeat = FALSE
CHECK_DEADLOCK FALSE
INVARIANT
    LiveIsTracked
