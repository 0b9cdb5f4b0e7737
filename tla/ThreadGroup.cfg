CONSTANTS
  m = m  w1 = w1  w2 = w2  w3 = w3  None = None
  Main = m
  Workers = {w1, w2, w3}
  Execers = {m}
  Blockers = {w1}
SPECIFICATION FairSpec
INVARIANTS OneOwner AliveCounts NoOrphan
PROPERTIES GroupExitEnds JoinLoopEnds
CHECK_DEADLOCK FALSE
