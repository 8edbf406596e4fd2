\* Five keys make trees of height two and more, rotated, and with replacements
\* from both sides at every depth.  Four keys, two of them in one bucket, are
\* evicted from caches of one to three nodes and put again.  Five elements are
\* enough for a thread to be allocated twice; with nodes of one cell, three
\* values make a chain of three nodes, two of which are freed.  Two workers are
\* enough for an insertion into an empty list to fail.  Messages of one and three
\* bytes in a ring of five, with their header, begin at every offset.  Three
\* addresses and two swaps let an address be used again while a reader has an old
\* copy of it.  Words of six bits have all carries and changes of sign.
SPECIFICATION ProgramsSpec
CONSTANTS
  Keys = {1, 2, 3, 4, 5}
  Nil = Nil
  CacheKeys = {0, 1, 2, 3}
  MaxCapacity = 3
  Values = {v1, v2}
  None = None
  MaxThreads = 2
  Elements = 5
  ForkElem = 0
  Insertion = 2
  Main = Main
  e1 = e1
  e2 = e2
  d1 = d1
  d2 = d2
  Enqueuers = {e1, e2}
  Dequeuers = {d1, d2}
  Calls <- MCCalls
  N = 1
  Threshold = 1
  Workers = {w1, w2}
  Registrations = 2
  CleanerCalls = 1
  W = 6
  N_DIGITS = 3
  QuadBits = 8
  Publishers = {p1, p2}
  Consumers = {c1, c2}
  Size = 5
  Header = 1
  Lengths = {1, 3}
  PutsEach = 2
  GetsEach = 2
  Readers = {r1, r2}
  Writers = {u1}
  Swappers = {u1}
  Cleaners = {u1}
  Addresses = {a1, a2, a3}
  First = a1
  Null = Null
  Flags = {"wait", "defer"}
  ReadsEach = 1
  SwapsEach = 2
  CleanupsEach = 1
INVARIANTS SearchTree RingsAgree EveryPartOnce NoUseAfterFree DeliveredInOrder
  ResultsRight IndicesInMapping FifoIntact ProtectedIsAllocated EveryObjectOnce HazardsBalanced
PROPERTIES ImplementsSet ImplementsLru AllCallsReturn
CHECK_DEADLOCK FALSE
