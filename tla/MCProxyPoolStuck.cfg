CONSTANTS
  l1 = l1
  r1 = r1
  r2 = r2
  Managed = {1, 2, 3}
  Manual = {4}
  Keys = {1}
  Requests = {r1, r2}
  Loaders = {l1}
  Initially <- OnTheFirst
  System = 2
  MaxChanges = 0
  MaxBroken = 0
  MaxSpurious = 2
SPECIFICATION Spec
PROPERTIES PromotedTakesOver
CHECK_DEADLOCK FALSE
