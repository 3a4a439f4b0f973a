CONSTANTS
    Versions = {v1, v2}
    NoVersion = none
    CrashCap = 2
    ChanCap = 1
    Faults = {"spawn", "listener"}
    DeathCodes <- MCDeathCodes
SPECIFICATION FairSpec
PROPERTIES
    StopHonoured
    HungIsReplaced
    GateDecides
    MarkedBadStops
    LoopMakesProgress
CHECK_DEADLOCK FALSE
