CONSTANTS
    Requests = {r1, r2}
    Prompts = {1, 6}
    CachedPrefixes = {0}
    Outputs = {1}
    TokenBudget = 4
    BlockSize = 1
    MaxConcurrentDecodes = 2
    WatermarkPercent = 15
    DraftTokens = 0
    PrefillSlice = 0
    WaitingMultiplier = 1
    TotalBlocks = 7
    U32Max = 255
    CursorPeriod = 2
    Preemptible = {}
SPECIFICATION FairSpec
PROPERTIES WaitingStarts
