CONSTANTS
  t1 = t1  t2 = t2  l1 = l1  l2 = l2  None = None  Unread = Unread
  Threads = {t1, t2}
  Writers = {t1}
  Callers = {t2}
  Blocks = {1, 2}
  Lines = {l1}
  Values = {0, 1}
  Inliners = {}
  Deps <- PairDeps
  Target <- PairTarget
  Page <- MCPage
  Granule <- MCGranule
  LogMax = 1
  MaxCode = 3
  MaxWrites = 1
SPECIFICATION Spec
INVARIANT EdgesFresh
PROPERTY EntersFresh
