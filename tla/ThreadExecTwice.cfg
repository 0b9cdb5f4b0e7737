CONSTANTS
  m = m  w1 = w1  w2 = w2  w3 = w3  None = None
  Main = m
  Workers = {w1, w2}
  Execers = {w1, w2}
  Blockers = {}
SPECIFICATION FairSpec
PROPERTY ExecEnds
CHECK_DEADLOCK FALSE
