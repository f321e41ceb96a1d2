\* The hub saves a state it loaded before the worker committed.
CONSTANTS
    a = a
    b = b
    t = t
    Members = {a}
    Tracks = {t}
    Djs = {a}
    Guests = {}
    TimedTracks = {t}
    GuestsMayRequest = TRUE
    MaxPerUser = 3
    DuplicatePolicy = "allow"
    VotePercent = 50
    Commands <- SharedCommands
    Listeners = {}
    MaxBatch = 1
    MaxItems = 2
    MaxRevision = 4
    MaxCrashes = 0
    InVoice = FALSE
SPECIFICATION WorkerSpec
PROPERTIES RevisionNeverGoesBack
CHECK_DEADLOCK FALSE
