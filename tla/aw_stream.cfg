\* One player of one PC: pairing, removal, a fetch, restarts and outages.
CONSTANTS
    d = d
    s1 = s1
    s2 = s2
    c1 = c1
    c2 = c2
    Devices = {d}
    Player = d
    Slots = {s1, s2}
    Calls = {1, 2}
    Conns = {c1, c2}
    NULL = NULL
    LastByte = 1
    MaxFailures = 1
    MaxTroubles = 2
    MaxOrders = 2
    MaxConnects = 1
SPECIFICATION OnSpec
INVARIANTS StreamingTypeOK RevokedIsRefused RevokedIsCut FetchIsWhole
PROPERTY GetsBack
CHECK_DEADLOCK FALSE
