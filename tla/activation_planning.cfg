SPECIFICATION Spec

CONSTANTS
    Tolerance     = 1
    Day           = 10
    MaxAttempts   = 2
    MaxOperations = 2
    Planners      = {p1}
    MaxNow        = 3
    MaxRestarts   = 0
    Resets        = {2, 3}
    Percents      = {0, 50, 100}
    Duration      = 2
    Delay         = 0
    Estimates     = TRUE
    Commands      = {"refresh", "preserve"}

INVARIANTS
    OneSubmissionPerWindow

CHECK_DEADLOCK FALSE
