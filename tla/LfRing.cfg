SPECIFICATION FairSpec
CONSTANTS
  p1 = p1
  p2 = p2
  c1 = c1
  c2 = c2
  Size = 2
  Producers = {p1, p2}
  Consumers = {c1, c2}
  Requests <- MCRequests
INVARIANTS IndicesLag
PROPERTIES HonestCounts ImplementsFifo AllCallsReturn
CHECK_DEADLOCK FALSE
