SPECIFICATION Spec

CONSTANTS
    MaxLogins      = 2
    MaxCredentials = 3
    MaxTrees       = 3
    MaxRestarts    = 0
    Commands       = {"login", "cancel", "call", "close"}

INVARIANTS
    HealthyMeansStored
    RuntimeOwned
    UnfinishedIsAttended
PROPERTIES
    CancelledNeverPromotes

CHECK_DEADLOCK FALSE
