SPECIFICATION MapSpec
CONSTANTS
  Adders = {}
  Putters = {p1}
  Deleters = {d1, d2}
  Getters = {}
  Churned = {k1, k2}
  PutsEach = 2
  DeletesEach = 2
  NoKey = NoKey
INVARIANTS DeletedOnce
CHECK_DEADLOCK FALSE
