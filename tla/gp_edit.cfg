\* Editing and voting on the queue while it plays to two listeners.
CONSTANTS
    a = a
    b = b
    t = t
    u = u
    Members = {a, b}
    Tracks = {t}
    Djs = {a}
    Guests = {b}
    TimedTracks = {t}
    GuestsMayRequest = TRUE
    MaxPerUser = 3
    DuplicatePolicy = "allow"
    VotePercent = 60
    Commands <- EditCommands
    Listeners = {a, b}
    MaxBatch = 2
    MaxItems = 3
    MaxRevision = 4
    MaxCrashes = 0
SPECIFICATION Spec
INVARIANTS PlaybackOnCurrent UniqueItems
PROPERTIES VoteSkipTakesShare RequestsStay
CHECK_DEADLOCK FALSE
