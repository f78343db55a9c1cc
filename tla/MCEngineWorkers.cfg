CONSTANTS
    Requests = {r1, r2}
    Workers = {w1, w2}
    Tokens <- MCTokens
    Eos = 2
    Prompts <- TwoPrompts
    Kinds = {"greedy"}
    MaxOutputs = {3}
    BlockSize = 2
    Interval = 2
    MaxNodes = 1
    MaxLen = 5
    Argmax <- MCArgmax
    Chunks = {2}
    Pressure = FALSE
    Failing = {w1}
    MaxCancels = 1
SPECIFICATION EngineSpec
SYMMETRY EngineSymmetry
CHECK_DEADLOCK FALSE
INVARIANTS RefsWithinHolders BookkeepingFollowsRequest
PROPERTIES StrandedByPublishing
