SPECIFICATION FairSpec

CONSTANTS
    MaxRequests = 3
    Rejectable  = {1}
    Closers     = {c1, c2}
    QueueSize   = 1
    HighWater   = 1
    MaxNotes    = 2
    MaxFrames   = 1

INVARIANTS
    PendingIsAttended
    EndIsMarked
    NewestKept
PROPERTIES
    KeepsClientPromise
    CloseKills

CHECK_DEADLOCK FALSE
