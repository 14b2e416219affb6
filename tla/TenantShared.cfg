SPECIFICATION SharingSpec
CONSTANTS
  Workers = {w1, w2}
  Tenants = {a}
  U64 = 64
  PageBytes = 4
  ChunkSizes = {0, 3}
  MaxTotal = 4
INVARIANTS
  SharingTypeOK
  SharedCountsExact
