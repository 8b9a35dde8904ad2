CONSTANTS
  k1 = k1
  k2 = k2
  k3 = k3
  Keys = {k1, k2, k3}
  NoKey = NoKey
  Requests = {r1, r2}
  MaxWeight = 2
  WeightsOf <- UnequalWeights
  MaxConcurrency = 1
  CoolDurations = {0}
  MaxTime = 2
SPECIFICATION Spec
INVARIANTS TypeOK NoSlotLeaked DebtBounded
PROPERTIES CreditConserved
