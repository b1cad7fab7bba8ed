SPECIFICATION Spec
CONSTANTS
    s1 = s1
    s2 = s2
    s3 = s3
    r1 = r1
    r2 = r2
    r3 = r3
    w1 = w1
    w2 = w2
    w3 = w3
    ev_signal = ev_signal
    loopexit = loopexit
    acceptEv = acceptEv
    NoSession = NoSession
    NoEvent = NoEvent
    Garbage = Garbage
    Session = {s1, s2, s3}
    Event <- MCEvent
    What <- MCWhat
    FdOf <- MCFdOf
    ReadEv <- MCReadEv
    WriteEv <- MCWriteEv
    SockOf <- MCSockOf
    Readiness <- MCReadiness
    Fd <- Fds4
    NFiles = 4
    SignalFd = 0
    ListenFd = 1
    MaxCaught = 1
    SeqWrap = 2
    MaxConnects = 2
    MaxTokens = 2
    MaxChunks = 1
INVARIANT TypeOK
INVARIANT NoUseAfterFree
INVARIANT FlagsTrue
INVARIANT TableTrue
INVARIANT BaseTrue
INVARIANT SidUnique
