SPECIFICATION Spec
CONSTANTS
  p1 = p1
  p2 = p2
  p3 = p3
  User = User
  Publishers = {p1, p2, p3}
  SizeOf <- MCSizes
  Dedup = {p1}
  MaxAttempts = 2
  MaxBreaks = 1
  MaxEdits = 1
CHECK_DEADLOCK FALSE
INVARIANTS
  FinalIsWhole
  FoundAgain
PROPERTIES
  NothingReplaced
