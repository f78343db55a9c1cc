CONSTANTS
    Requests = {r1, r2, r3}
    Prompts = {1, 5}
    CachedPrefixes = {0}
    Outputs = {2}
    TokenBudget = 7
    BlockSize = 1
    MaxConcurrentDecodes = 2
    WatermarkPercent = 0
    DraftTokens = 1
    PrefillSlice = 3
    WaitingMultiplier = 1
    TotalBlocks = 16
    U32Max = 255
    CursorPeriod = 2
    Preemptible = {}
    GdnSlots = 2
    Faults = {}
SPECIFICATION FairWorkerSpec
PROPERTIES RequestsLeave
