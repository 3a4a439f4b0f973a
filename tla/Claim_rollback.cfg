CONSTANTS
    Versions = {v1, v2}
    NoVersion = none
    CrashCap = 2
    ChanCap = 1
    Faults = {}
    DeathCodes <- MCDeathCodes
SPECIFICATION Spec
PROPERTY RollbackLeavesFailingVersion
CHECK_DEADLOCK FALSE
