SPECIFICATION LiveSpec
CONSTANTS
    Callers = {c1, c2}
    Main = main
    None = none
    MaxProcs = 2
    Kinds = {"enable", "disable", "update", "install", "uninstall"}
    Switches = {"enable", "disable"}
    Faults = {"crash", "disconnect", "fetch"}
    Heartbeat = FALSE
CHECK_DEADLOCK FALSE
INVARIANT
    FollowsInCalm
PROPERTIES
    ExitIsNoticed
    RequestsReturn
