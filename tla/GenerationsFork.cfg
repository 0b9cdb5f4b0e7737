CONSTANTS
  t1 = t1  t2 = t2
  Threads = {t1, t2}
  First = t1
  MaxUnreleased = 1
  MaxDepth = 1
  MaxGens = 3
SPECIFICATION Spec
\* Each fails; TLC stops at the one it meets first.
INVARIANT RenewLockHasOwner
PROPERTY ForkChildInterprets
CHECK_DEADLOCK FALSE
