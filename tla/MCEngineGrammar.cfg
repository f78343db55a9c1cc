CONSTANTS
    Requests = {r1, r2}
    Workers = {w1}
    Tokens <- MCTokens
    Eos = 2
    Prompts <- TwoPrompts
    Kinds = {"greedy", "tool"}
    MaxOutputs = {3}
    BlockSize = 2
    Interval = 2
    MaxNodes = 4
    MaxLen = 5
    Argmax <- MCArgmax
    Chunks = {2}
    Pressure = FALSE
    Failing = {}
    MaxCancels = 0
SPECIFICATION EngineSpec
SYMMETRY EngineSymmetry
CHECK_DEADLOCK FALSE
INVARIANTS GreedyInheritsThePrediction
