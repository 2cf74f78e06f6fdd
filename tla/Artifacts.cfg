\* Two publishers that are stopped twice, a consumer, and somebody who changes
\* a file; or two processes that build, initialise or generate; or commands on a
\* Plugin Root that are stopped twice, and a person who edits between them; or
\* a process that locks, loads and runs local tools while their files are edited.
SPECIFICATION MCSpec
CONSTANTS
  Publishers = {p1, p2}
  Readers = {r1}
  Nobody = Nobody
  Requests <- MCRequests
  FilesOf <- MCFilesOf
  Conflicting = {"conflict"}
  Absent = Absent
  None = None
  Wrong = "wrong"
  MaxFaults = 2
  MaxTampering = 1
  Processes = {"p", "q"}
  MaxFailures = 1
  Makes <- MCMakes
  Sources = {"a", "b"}
  Kinds <- MCKinds
  AppsThatResolve <- PairsThatResolve
  Releases <- MCReleases
  Mixed = Mixed
  MaxSourceEdits = 2
  MaxMeddlings = 1
  MaxOutputCommands = 2
  Person = "person"
  MaxInits = 4
  MaxKills = 1
  RootFiles = {"a.toml", ".dependencies.json", "dependencies.json"}
  RootContents = {"v1", "v2"}
  DependenciesFile = ".dependencies.json"
  Txns = {"t1"}
  Writers = {"w1"}
  InspectFirst = {}
  RootReaders = {}
  RootChanges <- MCChanges
  DirectChanges = {}
  RootsThatResolve <- MCRoots
  FirstRoot <- MCFirstRoot
  LockFileExists = TRUE
  MaxPersonEdits = 2
  MaxStops = 2
  Contracts = {"rust", "view", "hand"}
  OwnedContracts = {"rust"}
  Uses <- MCUses
  Asks <- MCAsks
  Family <- MCFamily
  TornFile = TornFile
  MaxContractEdits = 2
  ToolUsers = {"p"}
  Workflows = {"engine", "base"}
  Tools = {"t", "u"}
  ToolFiles = {"prog", "lib"}
  Text <- MCText
  Below <- MCBelow
  MaxDepth = 2
  MaxToolEdits = 2
  MaxToolCommands = 3
INVARIANTS
  ArtifactsTypeOK
  ConsumersFindEverything
  OutputsAreWhole
  ToolsAreAsLocked
PROPERTIES
  ImplementsStore
  NeverSelectsDamaged
  NothingIsOverwritten
  ContractsStayInStep
