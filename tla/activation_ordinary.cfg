SPECIFICATION Spec

CONSTANTS
    Tolerance     = 1
    Day           = 10
    MaxAttempts   = 2
    MaxOperations = 2
    Planners      = {p1}
    MaxNow        = 1
    MaxRestarts   = 0
    Resets        = {}
    Percents      = {0, 100}
    Duration      = 2
    Delay         = 0
    Estimates     = TRUE
    Commands      = {"activate", "refresh", "acknowledge", "delete", "login"}

INVARIANTS
    TypeOK
PROPERTIES
    KeepsPromise

CHECK_DEADLOCK FALSE
