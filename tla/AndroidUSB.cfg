SPECIFICATION FairSpec
CONSTANTS
  Totals = {8, 25, 55}
  MaxIfaces = 2
  Lengths = {0, 3, 9}
  Chunk = 4
  Slice = 4
  Deadlines = {0, 1, 7}
  MaxOps = 3
INVARIANTS
  PrinterIsFound
PROPERTIES
  WriteIsComplete
  ReopenRepairs
  ReadEndsInTime
CHECK_DEADLOCK FALSE
