\* Two listeners who report what they cannot play, and come and go.
CONSTANTS
    a = a
    b = b
    t = t
    u = u
    Members = {a, b}
    Tracks = {u}
    Djs = {a}
    Guests = {}
    TimedTracks = {}
    GuestsMayRequest = TRUE
    MaxPerUser = 3
    DuplicatePolicy = "allow"
    VotePercent = 50
    Commands <- LiveCommands
    Listeners = {a, b}
    MaxBatch = 1
    MaxItems = 2
    MaxRevision = 4
    MaxCrashes = 0
SPECIFICATION Spec
PROPERTIES RestrictedSourceMovesOn
CHECK_DEADLOCK FALSE
