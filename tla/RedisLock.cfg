CONSTANTS
    a = a
    b = b
    c = c
    Procs = {a, b}
    NoProc = NoProc
    LockTimeout <- Timeouts
    NumOfRetries = 1
    HoldBound = 1
    MaxCrashes = 1
SPECIFICATION FairSpec
INVARIANTS TypeOK MutualExclusion
PROPERTIES MutexSpec AcquireReturns
