CONSTANTS
    Poller = poller
    Others = {a1}
    Ports = {p1, p2}
    DefaultPort = p1
    NoPort = noport
    Unasked = unasked
    MaxFalls = 1
    MaxProbes = 1
SPECIFICATION FairSpec
INVARIANTS
    TypeOK
    CrashCountHonest
PROPERTIES
    VerdictConverges
    CliNoticed
