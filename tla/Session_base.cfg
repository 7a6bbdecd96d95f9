CONSTANTS
    d1 = d1
    d2 = d2
    u = u
    w1 = w1
    w2 = w2
    cl = cl
    s1 = s1
    s2 = s2
    s3 = s3
    p1 = p1
    g1 = g1
    Devices = {d1}
    Users = {u}
    UserOf <- User
    Sessions = {s1, s2}
    Platforms = {p1}
    Gateways = {g1}
    None = None
    Dead = Dead
    Workers = {w1, w2, cl}
    Cleaner = cl
    LimitOne = FALSE
    Failures = {"place", "attach", "gl", "plugin", "threshold", "enddb"}
    Others = {}
    MaxStarts = 2
    MaxCrashes = 0
SPECIFICATION FairSpec
INVARIANTS TypeOK AllOrNothing
PROPERTIES NoResurrection DueSessionEnds
CHECK_DEADLOCK FALSE
