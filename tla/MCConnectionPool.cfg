CONSTANTS
    Statements = {s1, s2, s3, s4}
    Connections = {c1, c2, c3}
    MAX_OPEN_CONNS = 2
    CONN_MAX_LIFETIME = 0
    MaxAge = 1
SPECIFICATION LiveSpec
CHECK_DEADLOCK FALSE
INVARIANTS
    NothingIsLost
    RunsInUtc
PROPERTIES
    KeepsItsPromise
