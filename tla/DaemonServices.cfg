CONSTANTS
    FrontEnds = {f1}
    MaxIndex = 2
    Ips = {a1, a2}
    MaxId = 2
    MaxExpiries = 1
    MaxEnds = 2
    Jobs = {j1}
    Adders = {x1, x2}
    MaxCalls = 3
    MaxRuns = 1
    SlowDb = FALSE
SPECIFICATION Spec
INVARIANTS RegisteredIsListed OneRunAtATime
PROPERTIES RenewedStays HostsLeave FollowsActive
CHECK_DEADLOCK FALSE
