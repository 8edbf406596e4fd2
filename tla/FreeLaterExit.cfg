\* Two workers register one variable each, and the cleaner only exits.
SPECIFICATION Spec
CONSTANTS
  Workers = {w1, w2}
  Registrations = 1
  CleanerCalls = 0
  NULL = NULL
INVARIANTS ReleasedAtExit
CHECK_DEADLOCK FALSE
