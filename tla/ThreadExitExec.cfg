CONSTANTS
  m = m  w1 = w1  w2 = w2  w3 = w3  None = None
  Main = m
  Workers = {w1}
  Execers = {w1}
  Blockers = {}
SPECIFICATION FairSpec
PROPERTY GroupExitInterrupts
CHECK_DEADLOCK FALSE
