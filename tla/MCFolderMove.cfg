SPECIFICATION Spec
CONSTANTS
  N = 2
  Names = {old, new}
  FirstName = old
  old = old
  new = new
  m1 = m1
  m2 = m2
  NoName = NoName
  Movers = {m1, m2}
  NoMover = NoMover
  MaxRuns = 2
  MaxEdits = 1
CHECK_DEADLOCK FALSE
INVARIANTS
  MovedFileIsNamed
  OneOperation
PROPERTIES
  MovesKeepFiles
