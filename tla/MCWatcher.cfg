CONSTANTS
  j1 = j1
  j2 = j2
  j3 = j3
  Jobs <- MCJobs
  Consoles <- MCConsoles
  MaxVersion = 2
SPECIFICATION Spec
INVARIANTS
  LuaHeld
  RunsTwice
PROPERTIES
  LatestRuns
  WatchesStop
CHECK_DEADLOCK FALSE
