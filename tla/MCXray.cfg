CONSTANTS
  main = main
  a1 = a1
  Threads = {main, a1}
  Ticker = main
  Nothing = Nothing
  Whole = Whole
  Torn = Torn
  LegacyBinary = FALSE
  Urls = 1
  MaxFaults = 1
  Procs = {1, 2, 3}
  MaxProfiles = 2
  MaxPort = 1
  MaxChanges = 1
SPECIFICATION Spec
INVARIANTS NoOrphan
PROPERTIES SyncRepairs EnabledServed
CHECK_DEADLOCK FALSE
