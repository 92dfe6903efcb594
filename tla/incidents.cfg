SPECIFICATION Spec

CONSTANTS
    Kinds          = {ambiguous}
    Reporters      = {r1, r2}
    Destinations   = {}
    RETRY_SECONDS  <- TwoTries
    ProviderDelays = {2}
    MaxIncidents   = 2
    MaxEvents      = 5
    MaxNow         = 0
    MaxRestarts    = 1

INVARIANTS
    OpenedOnce
    OccurrencesAnnounced
    LastWordTrue

CHECK_DEADLOCK FALSE
