SPECIFICATION FairSpec
CONSTANTS
    Caller = {c1, c2}
    NJobs = 4
    maxThreads = 0
INVARIANT TypeOK
INVARIANT RunsOnce
INVARIANT TotalCounts
INVARIANT NoUseAfterFree
PROPERTY AcceptedRun
PROPERTY DestroyEnds
