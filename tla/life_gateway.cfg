SPECIFICATION Spec
CONSTANTS
    Jobs = {1}
    Interval <- OneInterval
    MaxTime = 2
    NotScheduled = 9
    Commands = {"gateway"}
    Requests = {r1}
    Endpoints = {e1}
    Malformed = {}
    MaxAttempts = 2
    HotReload = TRUE
INVARIANTS
    HeadlessUntilSignalled
