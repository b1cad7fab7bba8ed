SPECIFICATION NativeFairSpec
CONSTANTS
    MaxStarts = 2
    Signals = TRUE
    Session = {s1, s2}
    NoSession = NoSession
    NoServer = NoServer
    Fd = {5, 6}
    Overlap = FALSE
INVARIANT TypeOK
INVARIANT LoopUsesLiveBase
PROPERTY OneLoop
 
INVARIANT SessionFreedOnce
INVARIANT PointersLive
INVARIANT NothingLeft
CHECK_DEADLOCK FALSE
