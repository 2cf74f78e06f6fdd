\* A command is killed between writing and renaming a temporary file.
SPECIFICATION Spec
CONSTANTS
  Files <- MCFiles
  Contents <- MCContents
  Absent = Absent
  Dependencies = ".dependencies.json"
  Markers <- MCMarkers
  Txns = {t1, t2}
  Writers = {w1}
  InspectFirst = {}
  Readers = {}
  Nobody = Nobody
  Transactions <- TwoTransactions
  Direct <- NoChanges
  Resolvable <- MCResolvable
  InitRoot <- MCInitRoot
  LockFileExists = TRUE
  RacingEdits = FALSE
  MaxEdits = 0
  MaxFaults = 1
INVARIANTS
  RecoveredIsReadable
