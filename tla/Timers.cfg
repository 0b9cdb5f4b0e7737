SPECIFICATION FairSpec
CONSTANTS
    m = m
    w = w
    Main = m
    Workers = {w}
    Order <- OrderW
    Nobody = nobody
    Wake = wake
    MaxTimers = 2
    MaxReady = 2
    Cap = 1
    IntMax = 1
    Events <- WithNone
    Forkers = {m, w}
    Blockers = {m}
    Enders = {w}
    Execs = TRUE
    Stops = TRUE
    MaxCreates = 2
    MaxExpiries = 1
CHECK_DEADLOCK FALSE
INVARIANTS
    TypeOK
    Accounted
    Silent
    Quiet
PROPERTIES
    ExpiryTold
    StopEnds
