SPECIFICATION Spec

CONSTANTS
    Processes  = {p1, p2}
    MaxKeys    = 3
    MaxCrashes = 1

INVARIANTS
    Openable
    ServedKeyMatches
    WholeUnlessCut
PROPERTIES
    ServingUndisturbed

CHECK_DEADLOCK FALSE
