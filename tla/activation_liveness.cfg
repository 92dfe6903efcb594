SPECIFICATION FairSpec

CONSTANTS
    Tolerance     = 1
    Day           = 10
    MaxAttempts   = 2
    MaxOperations = 2
    Planners      = {p1}
    MaxNow        = 1
    MaxRestarts   = 1
    Resets        = {}
    Percents      = {0, 100}
    Duration      = 2
    Delay         = 0
    Estimates     = TRUE
    Commands      = {"refresh", "delete", "close"}

INVARIANTS
    Attended
PROPERTIES
    EveryAttemptSettles
    EveryOperationEnds
    EveryRefreshEnds
    StartupEnds
    DuePlanStarts

CHECK_DEADLOCK FALSE
