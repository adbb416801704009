SPECIFICATION Spec
CONSTANTS
    Cells = 3
    ChunkMax = 2
    MaxOps = 2
    MaxVersion = 2
    ShortReplies = TRUE
    SplitLengths = TRUE
INVARIANTS
    ReadsFailByTwoFlaws
    WritesBeforeRead
    InSync
PROPERTIES
    CallsReturn
    ImplementsDebugCalls
CHECK_DEADLOCK FALSE
