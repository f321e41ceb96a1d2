\* One code, the computer and another device at which it is entered, a library
\* of two tracks, two calls of sync() and a backup of the hub.
CONSTANTS
    k = k
    l = l
    s = s
    t = t
    Codes = {x}
    Joiners = {p, q}
    Knows <- EveryoneKnows
    Loops = {k, l}
    Nobody = Nobody
    Computer = p
    Ids = {1, 2}
    Calls = {s, t}
    NoRow = NoRow
    PageSize = 1
    MaxStamps = 2
    Devices = {1, 2}
    MaxRestores = 1
SPECIFICATION CompanionSpec
INVARIANTS CompanionTypeOK OneDevicePerCode
INVARIANTS SentIsThereOrKnown OnlyTheConfirmedWrite
PROPERTIES EndedStaysEnded HubKeepsNewest SyncsAsAlone
SYMMETRY LikeLoopsAndCalls
CHECK_DEADLOCK FALSE
