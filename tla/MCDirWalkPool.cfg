CONSTANTS
  top = top
  here = here
  sub = sub
  a = a
  f = f
  g = g
  h = h
  k = k
  deep = deep
  w1 = w1
  w2 = w2
  NoEntry = NoEntry
  Dirs <- MCDirs
  Files <- MCFiles
  Start = here
  Children <- MCChildren
  Hidden <- MCHidden
  Ways <- MCWays
  Workers <- MCWorkers
SPECIFICATION Spec
INVARIANTS
  CallsAfterAbort
  OnceEach
  SteeringObeyed
  WalkComplete
PROPERTIES
  WalkEnds
