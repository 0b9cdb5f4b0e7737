CONSTANTS
    Others = {o, p}
    Forker = f
    Free = free
    Locks <- AllLocks
    Order <- TryOrder
    Always = 2
    Fresh = {"timers"}
    Kept = {"threads"}
    Needs <- ChildNeeds
    Nests <- Backwards
    Deadline = TRUE
SPECIFICATION LockFairSpec
INVARIANTS
    Clean
PROPERTIES
    ForkHappens
    NestsEnd
CHECK_DEADLOCK FALSE
