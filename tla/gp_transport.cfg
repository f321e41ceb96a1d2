\* Transport commands against the timers, with a crash of the hub.
CONSTANTS
    a = a
    b = b
    t = t
    u = u
    Members = {a, b}
    Tracks = {t, u}
    Djs = {a}
    Guests = {}
    TimedTracks = {t}
    GuestsMayRequest = TRUE
    MaxPerUser = 3
    DuplicatePolicy = "allow"
    VotePercent = 50
    Commands <- TransportCommands
    Listeners = {}
    MaxBatch = 1
    MaxItems = 2
    MaxRevision = 4
    MaxCrashes = 1
SPECIFICATION FairSpec
INVARIANTS TypeOK OneOpenEntry MotionHasTimer ArchivedIsSilent
PROPERTIES HistoryIsPlayLog AnnouncedTrackEnds PlayingTrackEnds
CHECK_DEADLOCK FALSE
