\* Two reports of one end under repeat-one.
CONSTANTS
    a = a
    b = b
    t = t
    Members = {a}
    Tracks = {t}
    Djs = {a}
    Guests = {}
    TimedTracks = {t}
    GuestsMayRequest = TRUE
    MaxPerUser = 3
    DuplicatePolicy = "allow"
    VotePercent = 50
    Commands <- RepeatCommands
    Listeners = {}
    MaxBatch = 1
    MaxItems = 1
    MaxRevision = 5
    MaxCrashes = 0
    InVoice = TRUE
SPECIFICATION WorkerSpec
PROPERTIES VoiceEndsOwnPlay
CHECK_DEADLOCK FALSE
