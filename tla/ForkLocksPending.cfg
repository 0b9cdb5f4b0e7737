SPECIFICATION LockSpec
CONSTANTS
    Others = {o, p}
    Forker = f
    Free = free
    Locks <- AllLocks
    Order <- TryOrder
    Always = 2
    Fresh = {"timers"}
    Kept = {"threads"}
    Needs <- ChildNeeds
    Nests <- Alone
    Deadline = FALSE
CHECK_DEADLOCK FALSE
INVARIANT ChildUsable
