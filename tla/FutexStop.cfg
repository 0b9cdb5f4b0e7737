CONSTANTS
  t1 = t1  t2 = t2
  Threads = {t1, t2}
  Main = t1
  Addrs = {1}
  Vals = {7, 8}
  Forks = FALSE
  MaxFaults <- FaultOnFirst
SPECIFICATION FairSpec
PROPERTY StoppedThreadsEnd
CHECK_DEADLOCK FALSE
