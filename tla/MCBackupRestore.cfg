SPECIFICATION BackupSpec
CONSTANTS
  Files = {1, 2}
  Keys = {"k1", "k2"}
  NoArchive = NoArchive
  MaxVersion = 4
  MaxArchives = 3
CHECK_DEADLOCK FALSE
INVARIANTS
  RestoredIsTheArchive
  LogIsOfTheDatabase
