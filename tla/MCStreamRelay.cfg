CONSTANTS
  Protocols = {"claude", "gemini"}
  Chunks = {"text", "tool", "bare", "other", "role", "bad"}
  SilentFallback = TRUE
  MaxAttempts = 2
  MaxChunks = 4
SPECIFICATION RelaySpec
INVARIANTS WellFormed ChargedForWhole
PROPERTIES RelayEnds
CHECK_DEADLOCK FALSE
