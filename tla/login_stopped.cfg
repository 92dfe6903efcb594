SPECIFICATION FairSpec

CONSTANTS
    MaxLogins      = 1
    MaxCredentials = 3
    MaxTrees       = 2
    MaxRestarts    = 1
    Commands       = {"login", "cancel", "call", "disable", "delete"}

INVARIANTS
    CredentialKept
    HealthyMeansStored
PROPERTIES
    LoginEnds

CHECK_DEADLOCK FALSE
