SPECIFICATION FairSpec
CONSTANTS
  CellCount = 2
  Producers = {p1, p2}
  Consumers = {c1, c2}
  p1 = p1
  p2 = p2
  c1 = c1
  c2 = c2
  Loads <- MCLoads
  MaxItems = 3
  NoData = NoData
INVARIANTS CellExclusive FifoDelivery
PROPERTIES HonestRefusals ImplementsFifo AllThreadsFinish
CHECK_DEADLOCK FALSE
