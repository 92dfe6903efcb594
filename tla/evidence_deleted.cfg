SPECIFICATION Spec

CONSTANTS
    MaxLogins      = 1
    MaxCredentials = 3
    MaxTrees       = 3
    MaxRestarts    = 0
    Commands       = {"call", "disable"}

PROPERTIES
    EvidenceKept

CHECK_DEADLOCK FALSE
