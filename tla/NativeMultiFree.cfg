SPECIFICATION NativeSpec
CONSTANTS
    MaxStarts = 1
    Signals = TRUE
    Session = {s1, s2}
    NoSession = NoSession
    NoServer = NoServer
    Fd = {5, 6}
    Overlap = TRUE
CHECK_DEADLOCK FALSE
INVARIANT SessionFreedOnce
