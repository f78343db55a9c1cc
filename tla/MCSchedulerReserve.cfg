CONSTANTS
    Requests = {r1, r2, r3}
    Prompts = {1, 5}
    CachedPrefixes = {0}
    Outputs = {1}
    TokenBudget = 8
    BlockSize = 2
    MaxConcurrentDecodes = 3
    WatermarkPercent = 0
    DraftTokens = 3
    PrefillSlice = 0
    WaitingMultiplier = 1
    TotalBlocks = 15
    U32Max = 255
    CursorPeriod = 6
    Preemptible = {}
SPECIFICATION FairSpec
PROPERTIES PrefillCompletes
