SPECIFICATION ServerSpec
CONSTANTS
    Requests = {r1, r2}
    WorkerCount = 2
    MaxTokens = 2
    MaxFaults = 1
INVARIANT OtherWorkersUntouched
CHECK_DEADLOCK FALSE
