CONSTANTS
    Requests = {r1, r2, r3}
    Prompts = {1, 4}
    CachedPrefixes = {0, 2, 4}
    Outputs = {3}
    TokenBudget = 6
    BlockSize = 2
    MaxConcurrentDecodes = 3
    WatermarkPercent = 0
    DraftTokens = 1
    PrefillSlice = 3
    WaitingMultiplier = 1
    TotalBlocks = 9
    U32Max = 255
    CursorPeriod = 6
    Preemptible = {}
    GdnSlots = 2
    Faults = {"admit", "restore", "decode", "prefill", "stop"}
SPECIFICATION WorkerSpec
SYMMETRY RequestSymmetry
INVARIANTS StateFollowsScheduler PoolsMirrorScheduler CountsAgree NoErrorWithoutFault
PROPERTIES ImplementsScheduler
