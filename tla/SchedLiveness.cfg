SPECIFICATION FairSpec
CONSTANTS
    TaskIds = {t1}
    Entries = {e1}
    None = None
    Intervals = {}
    Crons = {"even"}
    NoCron = NoCron
    CronNext <- MCCronNext
    MaxTime = 2
    MaxPending = 1
    ReadMayFail = TRUE
    WriteMayFail = TRUE
    MayCrash = FALSE
PROPERTIES DueTaskIsDispatched ShutdownReturns
