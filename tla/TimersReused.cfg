SPECIFICATION Spec
CONSTANTS
    m = m
    w = w
    Main = m
    Workers = {w}
    Order <- OrderW
    Nobody = nobody
    Wake = wake
    MaxTimers = 1
    MaxReady = 2
    Cap = 2
    IntMax = 9
    Events <- ToWorker
    Forkers = {}
    Blockers = {w}
    Enders = {}
    Execs = FALSE
    Stops = FALSE
    MaxCreates = 2
    MaxExpiries = 2
CHECK_DEADLOCK FALSE
INVARIANT MergesOwn
