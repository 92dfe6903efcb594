SPECIFICATION FairSpec

CONSTANTS
    Kinds          = {ambiguous}
    Reporters      = {r1}
    Destinations   = {d1}
    RETRY_SECONDS  <- TwoTries
    ProviderDelays = {2}
    MaxIncidents   = 1
    MaxEvents      = 2
    MaxNow         = 2
    MaxRestarts    = 1

INVARIANTS
    SucceededMeansReceived
    PostsBounded
PROPERTIES
    OutcomeKept
    DueIsClaimed
    LeaseEnds

CHECK_DEADLOCK FALSE
