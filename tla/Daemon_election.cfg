CONSTANTS
    Masters = {m1, m2}
    Interruptable = {m1}
    Daemons = {d1, d2, d3}
    None = None
    CrashPoints = {"spawned", "run"}
    SlowStart = FALSE
    MaxFaults = 1
    MaxJobs = 1
SPECIFICATION Spec
PROPERTY LifeSpec
CHECK_DEADLOCK FALSE
