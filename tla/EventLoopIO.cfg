SPECIFICATION Spec
CONSTANTS
    reader = reader
    writer = writer
    listener = listener
    sigint = sigint
    sigterm = sigterm
    timer = timer
    ev_signal = ev_signal
    loopexit = loopexit
    NoEvent = NoEvent
    Garbage = Garbage
    Event = {ev_signal, loopexit, reader, writer, listener}
    What <- MCWhat
    FdOf <- MCFdOf
    Fd <- MCFd
    NFiles = 3
    SignalFd = 0
    MaxCaught = 1
    Readiness <- MCReadiness
INVARIANT TypeOK
INVARIANT CountsOK
INVARIANT ActiveOK
INVARIANT TableOK
PROPERTY ImplementsAbstract
