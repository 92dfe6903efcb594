SPECIFICATION FairSpec

CONSTANTS
    ReplaySize  = 3
    ClientSize  = 2
    MaxSequence = 6
    MaxRestarts = 1

INVARIANTS
    MissedNotSilently
    InOrder
PROPERTIES
    Informed

CHECK_DEADLOCK FALSE
