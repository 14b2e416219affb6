SPECIFICATION ChunkSpec
CONSTANTS
  Threads = {t1, t2}
  b1 = b1
  b2 = b2
  Bufs = {b1, b2}
  Blocks = {h1, h2}
  Chunks = {c1, c2, c3}
  Base <- MCBase
  Tenants = {a}
  NULL = NULL
  OPEN = OPEN
  U32 = 10
  U64 = 64
  PageBytes = 8
  DefaultAlign = 2
  Sizes = {0, 1, 4, 7, 9}
  Aligns = {1, 8}
  SourceMayFail = TRUE
  MaxChunks = 3
  MaxRefs = 2
SYMMETRY Symmetry
INVARIANTS
  ChunkTypeOK
  RangesDisjoint
  AddressesAligned
  PagesHeldWhileUsed
  ChunkCountersExact
  OpensAtMostOnePage
