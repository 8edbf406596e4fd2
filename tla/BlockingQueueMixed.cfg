SPECIFICATION BlockingFairSpec
CONSTANTS
  Publishers = {p1}
  Consumers = {c1, c2}
  Size = 5
  Header = 1
  Lengths = {1, 3}
  PutsEach = 2
  GetsEach = 1
PROPERTIES GetReturnsWhenAvailable
CHECK_DEADLOCK FALSE
