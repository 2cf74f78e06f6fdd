\* Two commands and a reader, two killed or failed commands, no edits.
SPECIFICATION Spec
CONSTANTS
  Files <- MCFiles
  Contents <- MCContents
  Absent = Absent
  Dependencies = ".dependencies.json"
  Markers <- MCMarkers
  Txns = {t1, t2}
  Writers = {w1, w2}
  InspectFirst = {w1}
  Readers = {r1}
  Nobody = Nobody
  Transactions <- TwoTransactions
  Direct <- MCDirect
  Resolvable <- MCResolvable
  InitRoot <- MCInitRoot
  LockFileExists = TRUE
  RacingEdits = FALSE
  MaxEdits = 0
  MaxFaults = 2
SYMMETRY AnyNames
INVARIANTS
  TypeOK
  AlwaysRecoverable
  RestsResolvable
  SnapshotResolvable
PROPERTIES
  ImplementsAtomicRoot
