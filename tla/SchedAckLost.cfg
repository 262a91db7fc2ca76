SPECIFICATION Spec
CONSTANTS
    TaskIds = {t1}
    Entries = {e1}
    None = None
    Intervals = {1}
    Crons = {}
    NoCron = NoCron
    CronNext <- MCCronNext
    MaxTime = 1
    MaxPending = 1
    ReadMayFail = TRUE
    WriteMayFail = TRUE
    MayCrash = TRUE
INVARIANT AckedSwitchSurvives
