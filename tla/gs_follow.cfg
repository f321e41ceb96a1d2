\* One player on a stream of hub and worker: two fetches, a drop or a crash, a ring of four.
CONSTANTS
    p = p
    q = q
    Unpolled = Unpolled
    Clients = {p}
    RingSize = 4
    MaxCommits = 2
    MaxOpens = 2
    MaxOutages = 1
SPECIFICATION FairSpec
INVARIANTS StreamTypeOK QuietShowsNewest
PROPERTIES NothingSkipped CatchesUp
CHECK_DEADLOCK FALSE
