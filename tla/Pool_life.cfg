CONSTANTS
    t1 = t1
    m1 = m1
    c1 = c1
    s1 = s1
    NumPlatforms = 2
    PoolTasks = {t1}
    ManualTasks = {m1}
    Checkers = {c1}
    Sessions = {s1}
    Admin = Admin
    None = None
    Channels = {}
    PoolSize = 1
    FixedPool = TRUE
    UsersPerPlatform = 1
    ChoosePool = 10
    MaxFails = 3
    CleanPlatformsMode = FALSE
    UpperCapacity = 50
    MaxCapacity = 4
    CloseOnError = FALSE
    Failures = {"start", "save", "attach", "late"}
    MaxFailures = 1
    Requests = {"start"}
    MaxRequests = 1
SPECIFICATION FairSpec
INVARIANTS
    TypeOK
    ListsSound
    NoOrphan

    
CHECK_DEADLOCK FALSE
