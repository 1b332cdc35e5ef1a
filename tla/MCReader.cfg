CONSTANTS
  Block = 2
  Blocks = {2, 3}
  Sizes = {0, 5}
  Points = {0, 2, 3, 5}
  MaxVersion = 1
  Junk = Junk
  NoRows = NoRows
SPECIFICATION Spec
INVARIANTS
  AnswersExact
  SnapshotWhole
  IterationKept
CHECK_DEADLOCK FALSE
