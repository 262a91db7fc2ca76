SPECIFICATION ScannerSpec
CONSTANTS
    Callers = {c1, c2, c3}
    Switches = {mb, netease}
    NoChain = nochain
    NoFlight = noflight
    MaxChanges = 1
    MaxFaults = 1
    MaxRebuilds = 1
    MaxCalls = 2
    Runs = {r1, r2}
    Deletes = {d1, d2}
    None = none
    MaxFiles = 1
    Faults = {"abort", "db", "engine"}
INVARIANTS
    RegistrySound
    TypeOK
    TeardownAlone
    GoneForGood
    WritersAreTracked
    JobsAreSettled
PROPERTIES
    KeepsThePromise
    ScanEnds
    MarkIsLifted
CHECK_DEADLOCK FALSE
