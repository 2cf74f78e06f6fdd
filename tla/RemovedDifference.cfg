\* One Instance with resources of its own, whose difference is removed.
SPECIFICATION Spec
CONSTANTS
  None = None
  Configurations = {"plain", "wide"}
  Preset = "plain"
  Limit = 4
  Instances <- SampleInstances
  Bundles <- SampleBundles
  HostNames = {"first"}
  Builds <- SampleBuilds
  InitFiles <- SampleFiles
  Requests <- SampleRequests
  MaxCommands = 1
  MaxEdits = 1
  MaxHosts = 0
  MaxFaults = 0
INVARIANTS
  RemainingAppLoads
CHECK_DEADLOCK FALSE
