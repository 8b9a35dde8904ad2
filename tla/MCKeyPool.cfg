CONSTANTS
  Keys = {1}
  NoKey = 0
  Requests = {r1}
  MaxWeight = 1
  WeightsOf <- UnitWeights
  MaxConcurrency = 1
  CoolDurations = {0}
  MaxTime = 2
  Admins = {a1}
  Probers = {p}
  Refresher = main
  Broken = {}
  Healths = {"ok", "limited"}
SPECIFICATION PoolSpec
INVARIANTS PoolInv
PROPERTIES ImplementsScheduler DisabledIsFinal HealthyKeyReturns WithdrawnKeyLeaves LeaseReturned
