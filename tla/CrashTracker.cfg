CONSTANTS
    Base = 2
    Max = 3
    SteadyReset = 4
    CrashWindow = 8
    CrashCap = 5
    Width = 4
    MaxTime = 18
SPECIFICATION TrackerSpec
INVARIANTS
    CountsTheBurst
    DelayInRange
PROPERTY
    RollbackIsEarned
CHECK_DEADLOCK FALSE
