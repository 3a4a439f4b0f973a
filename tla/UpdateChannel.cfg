CONSTANTS
    Channels = {stable, beta}
    Default = stable
    Background = bg
    Checkers = {bg}
    None = none
    MaxReleases = 2
    MaxPicks = 2
    MaxBoots = 2
SPECIFICATION FairSpec
INVARIANTS
    NoFalseAlarm
PROPERTIES
    PickTakesEffect
    HintConverges
