CONSTANTS
    Handlers = {h1, h2}
    Versions = {v1, v2, v3}
    None = none
    Torn = torn
    MaxRequests = 4
SPECIFICATION Spec
INVARIANTS
    PublishedIsWhole
    RunningKept
    WayBack
    AckedIsInstalled
SYMMETRY MCSymmetry
CHECK_DEADLOCK FALSE
