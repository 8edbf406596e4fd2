SPECIFICATION FairSpec
CONSTANTS
  t1 = t1
  t2 = t2
  t3 = t3
  n1 = n1
  n2 = n2
  n3 = n3
  Threads = {t1, t2, t3}
  Nodes = {n1, n2, n3}
  List = List
  Null = Null
  Listed <- MCListed
  Jobs <- MCJobs
INVARIANTS AssertionsHold RemovedIsGone
PROPERTIES FailuresAreHonest ImplementsList AllCallsReturn
CHECK_DEADLOCK FALSE
