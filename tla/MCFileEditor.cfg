CONSTANTS
  x = x
  y = y
  sp = sp
  nl = nl
  new = new
  bad = bad
  tag = tag
  Newline = nl
  Blank = sp
  Bad = bad
  NoText = NoText
  Tag = tag
  Text <- MCText
  Candidates <- MCCandidates
  Finals <- MCFinals
  MaxOps = 3
  MaxSteps = 4
  MaxCalls = 3
  MaxBatches = 2
SPECIFICATION Spec
INVARIANTS
  TypeOK
  ConflictsExact
  SameKindLands
  SaveTakesEffect
  BackupRecovers
PROPERTIES
  ValidOnlyWritesValid
CHECK_DEADLOCK FALSE
