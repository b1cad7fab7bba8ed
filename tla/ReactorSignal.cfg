SPECIFICATION FairSpec
CONSTANTS
    MaxStarts = 2
    Signals = TRUE
PROPERTY CleanClose
CHECK_DEADLOCK FALSE
