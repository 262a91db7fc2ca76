SPECIFICATION PlaybackSpec
CONSTANTS
    PlayTracks = {t1, t2}
    Plays = {p1, p2}
    NoTrack = none
    MaxQueue = 2
    MaxCommands = 2
    Jukes = {j1, j2}
    Devices = {d1, d2}
    Engines = {e1, e2}
    JukeThreads = {r1, r2}
    Nothing = nothing
    MaxJukeRequests = 2
    AdminAlone = TRUE
    Listeners = {u1}
    Reports = {q1, q2}
    Silence = silence
    Duration = 2
    RateFloor = 2
    RateGrace = 1
    MinPlay = 2
    MaxTime = 4
    MaxReports = 3
    MaxLatency = 1
    EmitsInOrder = TRUE
    Boxes <- MCBoxes
    Segments <- MCSegments
    Streams = {r1, r2}
    Background = bg
    Leftover = left
    NoFile = nofile
    NoOne = noone
    Upsets = {"fails", "slow", "replaced", "stops"}
    MaxUpsets = 1
    MaxStreams = 2
INVARIANTS
    PlayerSound
    
    ListeningSound
    
PROPERTY
    PlaybackGoesOn
CHECK_DEADLOCK FALSE
