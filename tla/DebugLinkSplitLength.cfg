SPECIFICATION Spec
CONSTANTS
    Cells = 3
    ChunkMax = 2
    MaxOps = 1
    MaxVersion = 1
    ShortReplies = FALSE
    SplitLengths = TRUE
INVARIANTS
    ReadReturnsMemory
CHECK_DEADLOCK FALSE
