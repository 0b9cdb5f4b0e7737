CONSTANTS
  t1 = t1  t2 = t2  l1 = l1  l2 = l2  None = None  Unread = Unread
  Threads = {t1, t2}
  Writers = {t1}
  Callers = {}
  Blocks = {1}
  Lines = {l1, l2}
  Values = {0, 1}
  Inliners = {}
  Deps <- LoopDeps
  Target <- LoopTarget
  Page <- MCPage
  Granule <- MCGranule
  LogMax = 1
  MaxCode = 1
  MaxWrites = 1
SPECIFICATION FairSpec
PROPERTY DispatchEnds
