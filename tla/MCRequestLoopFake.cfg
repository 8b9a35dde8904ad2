CONSTANTS
  r1 = r1
  r2 = r2
  Requests = {r1}
  Keys = {k1, k2}
  NoKey = NoKey
  Conversations = {c1}
  FlowsOf <- OnlyChat
  MaxRetries = 0
  ExtraAttempts = 1
  TransportRetries = 1
  SilentFallback = TRUE
SPECIFICATION Spec
INVARIANTS CancelledNotFaked
