CONSTANTS
  t1 = t1  t2 = t2
  Threads = {t1, t2}
  Main = t1
  Addrs = {1, 2}
  Vals = {7, 8}
  Forks = TRUE
  MaxFaults <- FaultOnFirst
SPECIFICATION FairSpec
INVARIANTS WakesEnough CountsAccounted NoSleeperMissed NoSignalMissed NoLockCycle
PROPERTY SignalEndsWait
CHECK_DEADLOCK FALSE
