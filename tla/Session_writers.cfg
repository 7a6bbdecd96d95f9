CONSTANTS
    d1 = d1
    d2 = d2
    u = u
    w1 = w1
    w2 = w2
    cl = cl
    s1 = s1
    s2 = s2
    s3 = s3
    p1 = p1
    g1 = g1
    Devices = {d1}
    Users = {u}
    UserOf <- User
    Sessions = {s1}
    Platforms = {p1}
    Gateways = {g1}
    None = None
    Dead = Dead
    Workers = {w1, cl}
    Cleaner = cl
    LimitOne = FALSE
    Failures = {"place", "detach"}
    Others = {"admin", "kill"}
    MaxStarts = 2
    MaxCrashes = 1
SPECIFICATION Spec
INVARIANTS NoDanglingPointer
SYMMETRY Sym
CHECK_DEADLOCK FALSE
