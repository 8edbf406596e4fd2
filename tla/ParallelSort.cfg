\* Two threads and four elements: the first thread gives its left part to the
\* second, which runs before the part is in its fields.
SPECIFICATION Spec
CONSTANTS
  MaxThreads = 2
  Elements = 4
  ForkElem = 0
  Insertion = 2
  Main = Main
  Nobody = Nobody
INVARIANTS SortedAtReturn
CHECK_DEADLOCK FALSE
