SPECIFICATION HazardSpec
CONSTANTS
  Readers = {r1}
  Writers = {w1, w2}
  Swappers = {w1}
  Cleaners = {w1, w2}
  Addresses = {a1, a2}
  First = a1
  Null = Null
  Flags = {"defer"}
  ReadsEach = 2
  SwapsEach = 3
  CleanupsEach = 1
INVARIANTS ProtectedIsAllocated
CHECK_DEADLOCK FALSE
