CONSTANTS
  t1 = t1
  t2 = t2
  outer = outer
  walk = walk
  a = a
  b = b
  main = main
  topic = topic
  old = old
  new = new
  newer = newer
  Absent = Absent
  NotLoaded = NotLoaded
  Main = main
  Threads <- MCThreads
  Handles <- MCHandles
  Paths <- MCPaths
  Branches <- MCBranches
  Contents <- MCContents
  FirstTree <- MCFirstTree
  Edits <- MCEdits
  Ignorable <- MCIgnorable
  MaxCalls = 5
SPECIFICATION Spec
SYMMETRY MCSymmetry
INVARIANTS
  CommitTakesStage
PROPERTIES
  BranchesGrow
  ResetRepairs
CHECK_DEADLOCK FALSE
