SPECIFICATION Spec
CONSTANTS
    Runs = {r1, r2}
    Deletes = {d1, d2}
    None = none
    MaxFiles = 2
    Faults = {"abort", "overlap"}
INVARIANT
    GoneForGood
