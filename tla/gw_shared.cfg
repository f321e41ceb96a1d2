\* Hub, worker and voice player on one group.
CONSTANTS
    a = a
    b = b
    t = t
    Members = {a}
    Tracks = {t}
    Djs = {a}
    Guests = {}
    TimedTracks = {t}
    GuestsMayRequest = TRUE
    MaxPerUser = 3
    DuplicatePolicy = "allow"
    VotePercent = 50
    Commands <- SharedCommands
    Listeners = {}
    MaxBatch = 1
    MaxItems = 1
    MaxRevision = 3
    MaxCrashes = 0
    InVoice = TRUE
SPECIFICATION OneMemberSpec
INVARIANTS WorkerTypeOK PlaybackOnCurrent
PROPERTIES VoiceFollows StartedElsewhereEnds
CHECK_DEADLOCK FALSE
