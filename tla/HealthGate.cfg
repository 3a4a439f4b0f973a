CONSTANTS
    Window = 7
    StableFor = 4
    MinWake = 1
    Late = 2
    MaxTime = 20
SPECIFICATION Spec
INVARIANTS
    NoUnfairTimeout
    PassIsTimely
    JudgedOnTime
    WakeDecides
