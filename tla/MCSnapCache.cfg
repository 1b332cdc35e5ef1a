CONSTANTS
  t1 = t1
  t2 = t2
  t3 = t3
  a = a
  NoThread = NoThread
  NoSnap = NoSnap
  Threads <- MCThreads
  Paths <- MCPaths
  MaxVersion = 2
SPECIFICATION Spec
SYMMETRY MCSymmetry
INVARIANTS
  UpdateFresh
  NeverOlder
