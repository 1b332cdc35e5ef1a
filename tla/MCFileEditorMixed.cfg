CONSTANTS
  x = x
  y = y
  sp = sp
  nl = nl
  new = new
  bad = bad
  tag = tag
  Newline = nl
  Blank = sp
  Bad = bad
  NoText = NoText
  Tag = tag
  Text <- MCText
  Candidates <- MixedCandidates
  Finals <- ApplyOnly
  MaxOps = 2
  MaxSteps = 3
  MaxCalls = 2
  MaxBatches = 1
SPECIFICATION Spec
INVARIANT EditsLand
CHECK_DEADLOCK FALSE
