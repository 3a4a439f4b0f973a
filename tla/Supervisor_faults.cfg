CONSTANTS
    Versions = {v1, v2}
    NoVersion = none
    CrashCap = 2
    ChanCap = 1
    Faults = {"blacklist", "unreadable", "marker", "swap", "install",
              "kill"}
    DeathCodes <- MCDeathCodes
SYMMETRY MCSymmetry
SPECIFICATION Spec
INVARIANTS
    FatalOnlyAfterTear
    GateTracksReady
    CondemnedNeverRun
    MarkedIsWatched
PROPERTY ImplementsPolicy
CHECK_DEADLOCK FALSE
