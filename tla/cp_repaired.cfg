\* One track that never changes, and a computer that pairs a second time.
CONSTANTS
    Ids = {1}
    Calls = {s}
    NoRow = NoRow
    PageSize = 2
    MaxStamps = 1
    Devices = {1, 2}
    MaxRestores = 0
SPECIFICATION RepairedSpec
INVARIANTS SentIsThere
CHECK_DEADLOCK FALSE
