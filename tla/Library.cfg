SPECIFICATION LibrarySpec
CONSTANTS
    UserTracks = {t1, t2}
    Group = {t1, t2}
    Main = t1
    Lists = {p1}
    UserThreads = {r1, r2}
    NoList = nolist
    MaxUserRequests = 2
    AcctThreads = {r1,r2}
    ByDate = FALSE
    CacheKeys = {k1,k2}
    CoverAlbum = al
    CoverArtist = ar
    CoverThreads = {r1, r2}
    CoverTracks = {t1}
    Edits = {"save", "source", "identify", "reidentify", "unmatched"}
    Embedded = {e1, e2}
    Flat = FALSE
    Jobs = {j1,j2}
    Libraries = {l1}
    MaxAccidents = 2
    MaxAcctRequests = 3
    MaxBackups = 2
    MaxClock = 3
    MaxCoverRequests = 2
    MaxImages = 5
    MaxListed = 2
    MaxTrackWork = 3
    MaxMishaps = 2
    MaxPublished = 2
    MaxRepoEdits = 4
    MaxSaves = 2
    MaxStops = 1
    MaxUpsets = 2
    MaxWishes = 3
    MaxWrites = 1
    Network = {n1}
    Never = never
    NoContent = nocontent
    NoEdit = noedit
    NoEntry = noentry
    NoFile = nofile
    NoId = noid
    NoJob = nojob
    NoRow = norow
    Nobody = nobody
    Nowhere = nowhere
    OwnNames = TRUE
    People = {u1}
    Persons = {u1,u2}
    QueryTime = 1
    ReadThreads = {g1,g2}
    SetThreads = {r1,r2}
    Songs = {1, 2}
    SweepAlone = TRUE
    Syncers = {w1, w2}
    SyncsAlone = TRUE
    TTL = 2
    Tagged = {1}
    Targets = {f1,f2}
    Tokens = {k1,k2,k3}
    TrackCount = 2
    Urls = {a, b}
INVARIANTS
    UserDataHolds
    AccountsSound
    CacheSound
    
    
    
    AdminChangesApply
PROPERTY
    NothingIsTakenAway
SYMMETRY RequestSymmetry
CHECK_DEADLOCK FALSE
