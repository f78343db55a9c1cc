CONSTANTS
    Requests = {r1, r2}
    Workers = {w1}
    Tokens <- MCTokens
    Eos = 2
    Prompts <- ShiftedPrompts
    Kinds = {"greedy", "sampled", "tool"}
    MaxOutputs = {3}
    BlockSize = 2
    Interval = 2
    MaxNodes = 1
    MaxLen = 5
    Argmax <- MCArgmax
    Chunks = {2}
    Pressure = TRUE
    Failing = {}
    MaxCancels = 0
SPECIFICATION EngineSpec
SYMMETRY EngineSymmetry
CHECK_DEADLOCK FALSE
INVARIANTS ResumesOwnPrompt InheritsThePrediction SnapshotsNamedTruly
