SPECIFICATION FairSpec
CONSTANTS
    Lengths = {0, 1, 2, 5, 9, 15}
    W = 3
    Chunk = 2
    HeadLen = 2
    Cap = 3
    MayBreak = TRUE
INVARIANT TypeOK
INVARIANT FramesAligned
INVARIANT SavedPrefix
INVARIANT EndComplete
PROPERTY Completes
CHECK_DEADLOCK FALSE
