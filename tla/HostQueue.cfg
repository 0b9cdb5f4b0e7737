CONSTANTS
  p1 = p1  p2 = p2  c1 = c1  c2 = c2
  Producers = {p1, p2}
  Consumers = {c1, c2}
  Values = {1}
  NoSignal = 0
  Cap = 2
  MaxTail = 3
SPECIFICATION FairSpec
INVARIANTS NoRace ExactlyOnce
PROPERTY AllPopped
CHECK_DEADLOCK FALSE
