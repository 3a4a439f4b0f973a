CONSTANTS
    UserOps = {o1, o2}
    Healers = {o1, o2}
    Poller = poller
    None = none
    Threshold = 2
    Autoheal = TRUE
    OSRestart = TRUE
    Requests = {"start", "stop"}
    CliSeen = {FALSE}
SYMMETRY MCSymmetry
SPECIFICATION Spec
INVARIANTS
    IntentKept
    LogSettled
PROPERTIES
    HealNeedsOutage
    NoErrorFlap
