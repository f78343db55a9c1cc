SPECIFICATION MCSpec
CONSTANTS
    ThinkClose <- MCThinkClose
    TrackedParams = 1
    Profiles <- MCProfiles
    Pads = {"i1", "i2", "i3"}
    LiteralPad = "lit"
    Openings <- MCOpenings
    CallNames = {"f", "x.h"}
    Member <- MemberOf
    Respelled <- RespelledOf
    MaxChunks = 3
    MaxRounds = 3
INVARIANT DetokenizerExact
INVARIANT CutDoesNotShow
INVARIANT PiecesDoNotShow
INVARIANT MaskExact
INVARIANT CallsAgree
INVARIANT StreamIsCollected
INVARIANT LoopExtendsPrompt
INVARIANT ImagesPlaced
CHECK_DEADLOCK FALSE
