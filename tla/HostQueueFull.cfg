CONSTANTS
  p1 = p1  p2 = p2  c1 = c1  c2 = c2
  Producers = {p1}
  Consumers = {c1, c2}
  Values = {1}
  NoSignal = 0
  Cap = 2
  MaxTail = 4
SPECIFICATION Spec
PROPERTY FailsOnlyWhenFull
CHECK_DEADLOCK FALSE
