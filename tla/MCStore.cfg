CONSTANTS
  None = None
  Legacies <- AnyDirectory
  Settings = {}
  RenameRefused = TRUE
  MaxKeys = 1
  MaxProxies = 2
  MaxProfiles = 1
  MaxCrashes = 1
  MaxFailures = 1
SPECIFICATION Spec
INVARIANTS BindingsResolve IdsNotReused
PROPERTIES ImplementsRegister
CHECK_DEADLOCK FALSE
