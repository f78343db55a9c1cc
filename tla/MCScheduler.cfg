CONSTANTS
    Requests = {r1, r2, r3}
    Prompts = {1, 10}
    CachedPrefixes = {0, 2, 10}
    Outputs = {1, 22}
    TokenBudget = 6
    BlockSize = 2
    MaxConcurrentDecodes = 3
    WatermarkPercent = 15
    DraftTokens = 1
    PrefillSlice = 3
    WaitingMultiplier = 1
    TotalBlocks = 16
    U32Max = 255
    CursorPeriod = 6
    Preemptible = {r1, r2, r3}
SPECIFICATION Spec
SYMMETRY RequestSymmetry
INVARIANTS IInv BlocksConserved ReservationCoversLifetime StepSpendsItsBudget
PROPERTIES ReserveReachesNewcomer NoOvertaking
