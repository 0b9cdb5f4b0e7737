SPECIFICATION FairSpec
CONSTANTS
    m = m
    w = w
    Main = m
    Workers = {w}
    Order <- OrderW
    Nobody = nobody
    Wake = wake
    MaxTimers = 1
    MaxReady = 2
    Cap = 2
    IntMax = 9
    Events <- ToProcess
    Forkers = {w}
    Blockers = {}
    Enders = {}
    Execs = FALSE
    Stops = FALSE
    MaxCreates = 1
    MaxExpiries = 1
CHECK_DEADLOCK FALSE
PROPERTY ToldInChild
