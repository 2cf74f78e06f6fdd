\* The first commands of two writers, one of which only runs commands that begin
\* with a snapshot, a reader, two edits at any moment, two faults.
SPECIFICATION FairSpec
CONSTANTS
  Files <- SmallFiles
  Contents <- MCContents
  Absent = Absent
  Dependencies = ".dependencies.json"
  Markers = {}
  Txns = {t1}
  Writers = {w1, w2}
  InspectFirst = {w2}
  Readers = {r1}
  Nobody = Nobody
  Transactions <- SmallTransactions
  Direct <- NoChanges
  Resolvable <- SmallResolvable
  InitRoot <- SmallRoot
  LockFileExists = FALSE
  RacingEdits = TRUE
  MaxEdits = 2
  MaxFaults = 2
PROPERTIES
  SettledUnlessEditedLater
  GuardResolved
