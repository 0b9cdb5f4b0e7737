CONSTANTS
  t1 = t1  t2 = t2  lo = lo  hi = hi  b1 = b1  b2 = b2  v1 = v1  v2 = v2
  Threads <- MCThreads
  Cells <- MCCells
  Values <- MCValues
  Buckets = {b1, b2}
  Accesses <- MCPair
  BucketOf <- MCPairBucket
  MaxWord = 2
SPECIFICATION Spec
SYMMETRY Symmetry
INVARIANT ReservationCoversAccess
