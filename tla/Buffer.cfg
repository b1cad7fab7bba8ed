SPECIFICATION Spec
CONSTANTS
    Buffers = {b1, b2}
    Bytes = {"x", "CR", "LF"}
    CR = "CR"
    LF = "LF"
    Junk = "junk"
    Freed = Freed
    MinLen = 1
    MaxRead = 1
    MaxLen = 4
    MaxChunk = 2
SYMMETRY Symmetry
VIEW View
INVARIANT TypeOK
INVARIANT InBlock
INVARIANT CallbackKnows
INVARIANT FindExact
PROPERTY ImplementsQueues
CHECK_DEADLOCK FALSE
