SPECIFICATION Spec
CONSTANTS
  NoFile = NoFile
  NoRow = NoRow
  NoPath = NoPath
  NoTarget = NoTarget
  t1 = t1
  t2 = t2
  home1 = home1
  home2 = home2
  other1 = other1
  r1 = r1
  r2 = r2
  Targets = {t1, t2}
  Paths = {home1, home2, other1}
  OpenPaths = {home1, other1}
  Home <- MCHome
  SourceOf <- MCSourceOf
  Policies = {"leave", "redownload", "ignore"}
  MaxFiles = 3
  MaxRows = 3
  MaxEvents = 3
  MaxIntents = 3
  Requests = {r1, r2}
SYMMETRY Symmetry
CHECK_DEADLOCK FALSE
INVARIANTS
  QuarantineIsLogged
PROPERTIES
  OnlyConfirmedFilesAreDeleted
  RowsGoWithTheirFile
  CheckKeepsIgnored
