CONSTANTS
  s1 = s1
  b1 = b1
  Streams = {s1}
  Buffers = {b1}
  NoBuffer = NoBuffer
  Length = 4
  Prefetched = 1
  ReadLimit = 2
  Heartbeat = TRUE
  MaxBeats = 1
SPECIFICATION Spec
INVARIANTS BufferHasOneOwner NoReaderLeft PassedOnFaithfully CachedWhole
PROPERTIES DrainEnds
CHECK_DEADLOCK FALSE
