SPECIFICATION Spec
CONSTANTS
    TaskIds = {t1}
    Entries = {e1, e2}
    None = None
    Intervals = {1}
    Crons = {}
    NoCron = NoCron
    CronNext <- MCCronNext
    MaxTime = 2
    MaxPending = 2
    ReadMayFail = FALSE
    WriteMayFail = FALSE
    MayCrash = TRUE
SYMMETRY EntrySymmetry
INVARIANTS AckedSwitchSurvives TypeOK ShutdownJoinsRuns WaitGroupCountsRuns RunningMeansOwned
PROPERTY NothingStartsAfterStop
