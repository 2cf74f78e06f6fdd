\* Two clients with edits and Host changes between their commands; or two
\* commands on the files of the Root; or two processes that install or build
\* Bundles; or a catalog consumer.
SPECIFICATION MCSpec
CONSTANTS
  Clients = {c1, c2}
  Nobody = Nobody
  Paths <- MCPaths
  Bytes <- MCBytes
  Absent = Absent
  Meaning <- MCMeaning
  Choices = ".dependencies.json"
  Requests <- MCRequests
  Markers <- MCMarkers
  Hosts = {"h1", "h2"}
  Resolves <- MCResolves
  Materialized <- MCMaterialized
  InitBytes <- MCInitBytes
  InitHost = "h1"
  RacingEdits = FALSE
  RacingHost = FALSE
  MaxEdits = 1
  MaxHosts = 1
  MaxFaults = 1
  None = None
  MaxPersonEdits = 1
  MaxNewHosts = 1
  MaxFailures = 1
  Configurations = {"plain", "wide"}
  Preset = "plain"
  Limit = 4
  Instances <- MCInstances
  RootBundles <- MCRootBundles
  HostNames <- MCHostNames
  HostBuilds <- MCHostBuilds
  InitFiles <- MCInitFiles
  RootRequests <- MCRootRequests
  MaxRootCommands = 2
  Processes = {a1, a2}
  StorePlugins = {"p", "q"}
  StoreVersions = {"v1", "v2"}
  StoreBuilds = {"x", "y"}
  UnmadeBundles <- MCUnmadeBundles
  ForeignBundles <- MCForeignBundles
  Resolvable <- QNeedsFirst
  Torn = Torn
  Damaged = Damaged
  MaxStoreCommands = 3
  Releases = {"r"}
  CatalogArchives = {"A", "B"}
  Holds <- MCHolds
  Identities <- MCIdentities
  Envelopes <- MCEnvelopes
  MaxTime = 2
  MaxValidity = 1
  MaxAccepted = 3
  MaxTampers = 1
  Metadata <- MCMetadata
  PluginCommands = {"pack", "check", "auto", "wasm", "process", "bun", "all"}
  Face <- MCFace
  NamedRelease <- MCNamedRelease
  Broken = {}
  MaxPluginEdits = 2
  MaxPluginCommands = 2
SYMMETRY Symmetry
INVARIANTS
  AuthoringTypeOK
  CommittedIsConfirmed
  RootResolves
  NothingIsLost
  RunsWhatTheHostAdmits
  BundlesAreAsStated
PROPERTIES
  PublishedOntoReviewedRoot
  ResolvesUnderReviewedHost
  CatalogIsOneHistory
  ChoicesChangeAsAsked
