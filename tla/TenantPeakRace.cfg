SPECIFICATION SharingSpec
CONSTANTS
  Workers = {w1, w2}
  Tenants = {a}
  U64 = 64
  PageBytes = 4
  ChunkSizes = {}
  MaxTotal = 2
INVARIANT PeakIsHighWater
