CONSTANTS
    Setters = {s1, s2}
    Channels = {stable, beta}
    None = none
    Torn = torn
    MaxEntries = 4
    MaxTokens = 2
SPECIFICATION Spec
INVARIANTS
    TearCostsOne
    TokenStable
    PickKept
PROPERTY EarlierEntriesKept
CHECK_DEADLOCK FALSE
