SPECIFICATION ServerSpec
SYMMETRY RequestSymmetry
CONSTANTS
    Requests = {r1, r2}
    WorkerCount = 2
    MaxTokens = 2
    MaxFaults = 1
INVARIANT StreamFaithful
INVARIANT NeverClosedSilently
INVARIANT NoZombie
INVARIANT OvertakenOnce
CHECK_DEADLOCK FALSE
