SPECIFICATION MCSpec
CONSTANTS
    Ids = {1, 2}
    Prompts <- MCPrompts
    Eos = 3
    Trigger = 2
    Kinds <- MCKinds
    MaxOutput = 4
    Choose <- MCChoose
    Interval = 2
    Slots = {1, 2}
    Window = 3
    DraftMin = 0
    Chunk = 4
    MaxBatch = 2
    Gated = FALSE
    Guesses <- MCGuesses
    Faults = 1
    Absent = Absent
    None = None
    Free = Free
    Garbage = Garbage
INVARIANT OutputIsPlain
INVARIANT SnapshotsExact
INVARIANT CadenceKept
INVARIANT ExecuteNeverRefuses
INVARIANT FedExactly
INVARIANT DraftsGrounded
CHECK_DEADLOCK FALSE
