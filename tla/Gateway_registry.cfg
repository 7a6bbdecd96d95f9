CONSTANTS
    Gateways = {g1, g2}
    Restarted = {g1}
    Sessions = {s1}
    Removers = {r1}
    None = None
    MaxLosses = 1
    MaxFailures = 1
SPECIFICATION Spec
PROPERTY GhostLeaves
PROPERTY CountedSessionsMove
CHECK_DEADLOCK FALSE
