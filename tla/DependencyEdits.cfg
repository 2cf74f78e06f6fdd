\* A library that the first build to use it discovers; nothing fails otherwise.
SPECIFICATION FairSpec
CONSTANTS
  App = "app"
  Intent = "intent"
  Deps = {"lib"}
  Declared <- NothingDeclared
  Native = {0, 1}
  Uses <- FromTheFirstEdit
  Malformed = {}
  Remembered = {{}}
  QueueSize = 2
  MaxEdits <- OneEdit
  MaxFaults = 0
PROPERTIES
  EditsDuringCompilationAreQueued
CHECK_DEADLOCK FALSE
