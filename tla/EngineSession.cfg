\* Edits, a cancellation, a fault and a replaced engine; every budget can be hit.
SPECIFICATION FairSpec
CONSTANTS
  Paths <- MCPaths
  Bytes <- MCBytes
  Contents <- MCContents
  Absent = Absent
  Engines = {"all", "flat"}
  Plans <- MCPlans
  Cacheable = {"reader", "index"}
  Broken = {"bad"}
  Weight <- MCWeight
  MaxInput = 3
  MaxOutput = 2
  MaxGeneration = 2
  MaxCacheBytes = 3
  MaxCacheEntries = 3
  InitEngine = "all"
  InitSource <- MCSource
  MaxEdits = 2
  MaxTools = 1
  MaxFaults = 1
  MaxReplacements = 1
INVARIANTS
  TypeOK
  CurrentBelongsToInput
  OutputsAreFresh
  HostIsTold
PROPERTIES
  WatchCatchesUp
