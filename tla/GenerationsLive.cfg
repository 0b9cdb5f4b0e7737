CONSTANTS
  t1 = t1  t2 = t2
  Threads = {t1, t2}
  First = t1
  MaxUnreleased = 1
  MaxDepth = 1
  MaxGens = 2
SPECIFICATION FairSpec
PROPERTY Reclaimed
CHECK_DEADLOCK FALSE
