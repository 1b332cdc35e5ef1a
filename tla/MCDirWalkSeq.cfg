CONSTANTS
  top = top
  here = here
  sub = sub
  a = a
  f = f
  g = g
  h = h
  k = k
  deep = deep
  Dirs <- MCDirs
  Files <- MCFiles
  Start = here
  Children <- MCChildren
  Hidden <- MCHidden
  Ways <- MCWays
SPECIFICATION SeqSpec
INVARIANTS
  AbortUnwinds
  ParentFirst
  StopIsLocal
  SeqComplete
PROPERTIES
  SeqEnds
