SPECIFICATION Spec
CONSTANTS
    m = m
    w = w
    Main = m
    Workers = {w}
    Order <- OrderW
    Nobody = nobody
    Wake = wake
    MaxTimers = 2
    MaxReady = 2
    Cap = 2
    IntMax = 1
    Events <- ToMain
    Forkers = {}
    Blockers = {m}
    Enders = {}
    Execs = TRUE
    Stops = FALSE
    MaxCreates = 2
    MaxExpiries = 3
CHECK_DEADLOCK FALSE
INVARIANTS
    TypeOK
    OneQueued
    Accounted
