\* The first command of a root without a lock file, and a reader.
SPECIFICATION Spec
CONSTANTS
  Files <- MCFiles
  Contents <- MCContents
  Absent = Absent
  Dependencies = ".dependencies.json"
  Markers <- MCMarkers
  Txns = {t1, t2}
  Writers = {w1}
  InspectFirst = {}
  Readers = {r1}
  Nobody = Nobody
  Transactions <- TwoTransactions
  Direct <- NoChanges
  Resolvable <- MCResolvable
  InitRoot <- MCInitRoot
  LockFileExists = FALSE
  RacingEdits = FALSE
  MaxEdits = 0
  MaxFaults = 0
INVARIANTS
  SnapshotResolvable
