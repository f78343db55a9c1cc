CONSTANTS
    NumExperts = 3
    TopK = 2
    Threads = 2
    TileRows = 2
    NarrowTile = 2
    WideTile = 3
    NarrowMax = 2
    MmaMin = 4
    SharedMmaMin = 4
    Lanes = 2
    LaneExperts = 2
    GridLimit = 8
    MaxRuns = 2
    Cases <- RunCases
    NumSeqs = 3
    MaxSeq = 6
    QueryTile <- QueryTiles
    KeyTile <- KeyTiles
    WarpSplits = 3
    MmaSplits = 2
    MmaDepth = 4
    RowMax = 2
    StepSlots = 2
    AttnCases <- PrefillCases
    Modulus = 7
    Decay = 3
    HeadDim = 2
    QkHeads = 2
    ValueHeads = 4
    ConvKernel = 4
    ChunkLen = 2
    StepMax = 2
    SplitMma = 7
    ExactRows = 2
    DeltaSeqs = 3
    NumTokens = 5
    DeltaCases <- LinearCases
SPECIFICATION MCSpec
CHECK_DEADLOCK FALSE
INVARIANT LayerExact
