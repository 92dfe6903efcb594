SPECIFICATION Spec

CONSTANTS
    Tolerance     = 1
    Day           = 10
    MaxAttempts   = 2
    MaxOperations = 2
    Planners      = {p1}
    MaxNow        = 1
    MaxRestarts   = 2
    Resets        = {}
    Percents      = {0}
    Duration      = 2
    Delay         = 0
    Estimates     = TRUE
    Commands      = {"activate", "enable", "login", "close"}

INVARIANTS
    AtMostOneSubmission
    OneInFlightUnlessRevoked
    CredentialHonest
PROPERTIES
    KeepsPromise

CHECK_DEADLOCK FALSE
