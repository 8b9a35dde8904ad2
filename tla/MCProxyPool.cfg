CONSTANTS
  l1 = l1
  r1 = r1
  r2 = r2
  Managed = {1, 2, 3}
  Manual = {4}
  Keys = {1}
  Requests = {r1, r2}
  Loaders = {l1}
  Initially <- OnTheFirst
  System = 2
  MaxChanges = 1
  MaxBroken = 1
  MaxSpurious = 1
SPECIFICATION Spec
INVARIANTS ManualStays
PROPERTIES FaultSurvived BindingTakesEffect
CHECK_DEADLOCK FALSE
