CONSTANTS
    t1 = t1
    m1 = m1
    c1 = c1
    s1 = s1
    NumPlatforms = 1
    PoolTasks = {t1}
    ManualTasks = {}
    Checkers = {c1}
    Sessions = {s1}
    Admin = Admin
    None = None
    Channels = {}
    PoolSize = 1
    FixedPool = TRUE
    UsersPerPlatform = 1
    ChoosePool = 10
    MaxFails = 3
    CleanPlatformsMode = FALSE
    UpperCapacity = 50
    MaxCapacity = 4
    CloseOnError = FALSE
    Failures = {"orgs", "check", "detach", "threshold", "stop", "late", "list"}
    MaxFailures = 1
    Requests = {"graceful", "close", "disable", "enable"}
    MaxRequests = 1
SPECIFICATION Spec
INVARIANTS
    IdleHasTask
PROPERTIES
    ForcedLeaveFirst
CHECK_DEADLOCK FALSE
