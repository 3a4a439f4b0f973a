CONSTANTS
    UserOps = {o1}
    Healers = {o2}
    Poller = poller
    None = none
    Threshold = 2
    Autoheal = TRUE
    OSRestart = FALSE
    Requests = {"doctor"}
    CliSeen = {FALSE}
SPECIFICATION FairSpec
PROPERTIES
    OutageIsHealed
    ActionClears
