CONSTANTS
  h1 = h1
  h2 = h2
  Handlers = {h1, h2}
  Models = {1, 2}
  Listings = {{1, 2}}
  Workers = 1
  HistoryLimit = 2
  MaxReports = 2
  MaxLists = 1
  MaxFaults = 1
SPECIFICATION Spec
INVARIANTS EveryModelReported RestartServesTheSame
PROPERTIES EveryRequestEnds
CHECK_DEADLOCK FALSE
