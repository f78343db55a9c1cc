SPECIFICATION FairServerSpec
CONSTANTS
    Requests = {r1, r2}
    WorkerCount = 1
    MaxTokens = 2
    MaxFaults = 1
PROPERTY ResponseEnds
CHECK_DEADLOCK FALSE
