\* Two nodes count to four.  Of the map, one key that is put and deleted by four threads,
\* and one that is only added, and read.
SPECIFICATION BothSpec
CONSTANTS
  N = 2
  Clock = clock
  Main = main
  Threads = {1, 2, main}
  Objects = {1, 2, clock}
  RelockFlags = {"SLEEPING"}
  BroadcastWakes = 1
  Adders = {a1}
  Putters = {p1, p2}
  Deleters = {d1, d2}
  Getters = {g1}
  Churned = {k1}
  PutsEach = 1
  DeletesEach = 1
  NoKey = NoKey
INVARIANTS MutualExclusion SleeperHasWaker NotifiedInTime CounterExact
  NothingClobbered DeletedOnce LengthCounts GetFindsSettledKey
PROPERTIES GraphFinishes
CHECK_DEADLOCK FALSE
