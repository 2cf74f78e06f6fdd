\* app dev or plugin dev, edits at any moment; both return in the end, hence no
\* deadlock check.
SPECIFICATION DevelopmentSpec
CONSTANTS
  App = "app"
  Intent = "intent"
  Deps = {"lib", "sub"}
  Declared <- SubDeclared
  Native = {1}
  Uses <- UsesLater
  Malformed = {1}
  Remembered = {{}, {"lib"}}
  QueueSize = 1
  MaxEdits <- FewEdits
  MaxFaults = 1
  PluginFiles = {"manifest", "source"}
  MaxPluginEdits = 2
  MaxPluginFaults = 2
INVARIANTS
  DevelopmentTypeOK
  BuiltFromOneMoment
  OneHostWithItsFiles
  ServesTheLastBuild
PROPERTIES
  EditsAreBuilt
CHECK_DEADLOCK FALSE
