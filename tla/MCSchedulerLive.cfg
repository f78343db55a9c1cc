CONSTANTS
    Requests = {r1, r2, r3}
    Prompts = {1, 5}
    CachedPrefixes = {0}
    Outputs = {1}
    TokenBudget = 7
    BlockSize = 1
    MaxConcurrentDecodes = 3
    WatermarkPercent = 15
    DraftTokens = 0
    PrefillSlice = 3
    WaitingMultiplier = 1
    TotalBlocks = 14
    U32Max = 255
    CursorPeriod = 6
    Preemptible = {}
SPECIFICATION FairSpec
PROPERTIES WaitingStarts PrefillCompletes
