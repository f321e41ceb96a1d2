\* A restart of the hub while a track is announced.
CONSTANTS
    a = a
    b = b
    t = t
    u = u
    Members = {a, b}
    Tracks = {t}
    Djs = {a}
    Guests = {}
    TimedTracks = {t}
    GuestsMayRequest = TRUE
    MaxPerUser = 3
    DuplicatePolicy = "allow"
    VotePercent = 50
    Commands <- LiveCommands
    Listeners = {}
    MaxBatch = 1
    MaxItems = 2
    MaxRevision = 3
    MaxCrashes = 1
SPECIFICATION FairSpec
PROPERTIES RestoredTrackEnds
CHECK_DEADLOCK FALSE
