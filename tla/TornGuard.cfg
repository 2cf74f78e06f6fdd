\* A command is stopped between creating its guard and writing it.
SPECIFICATION FairSpec
CONSTANTS
  Files <- MCFiles
  Contents <- MCContents
  Absent = Absent
  Dependencies = ".dependencies.json"
  Markers <- MCMarkers
  Txns = {t1, t2}
  Writers = {w1}
  InspectFirst = {}
  Readers = {}
  Nobody = Nobody
  Transactions <- TwoTransactions
  Direct <- NoChanges
  Resolvable <- MCResolvable
  InitRoot <- MCInitRoot
  LockFileExists = TRUE
  RacingEdits = FALSE
  MaxEdits = 0
  MaxFaults = 1
PROPERTIES
  AnyGuardResolved
