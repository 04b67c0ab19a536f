SPECIFICATION FairSpec
CONSTANTS
    Jobs = {1, 2}
    Interval <- Intervals
    MaxTime = 4
    NotScheduled = 9
    Commands = {"server", "gateway"}
    Requests = {r1}
    Endpoints = {e1, e2, bad}
    Malformed = {bad}
    MaxAttempts = 2
    HotReload = TRUE
INVARIANTS
    TypeOK
PROPERTIES
    RunsAreSpaced
    DatabaseClosedLast
    DueJobsRun
    EveryEndpointTried
    SignalEndsProcess
