SPECIFICATION Spec
CONSTANTS
    reader = reader
    writer = writer
    listener = listener
    sigint = sigint
    sigterm = sigterm
    timer = timer
    ev_signal = ev_signal
    loopexit = loopexit
    NoEvent = NoEvent
    Garbage = Garbage
    Event = {ev_signal, loopexit, sigint, sigterm}
    What <- MCWhat
    FdOf <- MCFdOf
    Fd <- SigFd
    NFiles = 3
    SignalFd = 0
    MaxCaught = 2
    Readiness <- SigReadiness
INVARIANT SignalNotLost
