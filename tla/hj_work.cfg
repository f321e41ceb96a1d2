\* Downloads and a discovery job in one process that stops or crashes once.
CONSTANTS
    f = f
    g = g
    c = c
    d = d
    NoFile = NoFile
    Files = {f}
    MaxConcurrent = 1
    MaxAttempts = 2
    MaxJobs = 2
    MaxActions = 2
    MaxOutages = 1
    Chores = {c}
    Handled = {c}
    ChoreMaxAttempts = 2
    Rank <- OneChore
SPECIFICATION FairHubJobs
INVARIANTS HubTypeOK RunnersFit RunningHasRunner CompletedHasBlob PartsAccounted
PROPERTIES SettledUntilAsked FinishedChoresRest EveryDownloadSettles EveryChoreFinishes
CHECK_DEADLOCK FALSE
