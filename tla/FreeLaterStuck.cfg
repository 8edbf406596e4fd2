\* One worker; the cleaner may stage, or run, once before it exits.
SPECIFICATION FairSpec
CONSTANTS
  Workers = {w1}
  Registrations = 1
  CleanerCalls = 1
  NULL = NULL
PROPERTIES CleanerReturns
CHECK_DEADLOCK FALSE
