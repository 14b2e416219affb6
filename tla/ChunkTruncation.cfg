SPECIFICATION ChunkSpec
CONSTANTS
  Threads = {t1}
  b1 = b1
  b2 = b2
  Bufs = {b1, b2}
  Blocks = {h1}
  Chunks = {c1}
  Base <- MCBase
  Tenants = {a}
  NULL = NULL
  OPEN = OPEN
  U32 = 16
  U64 = 64
  PageBytes = 8
  DefaultAlign = 2
  Sizes = {4, 17}
  Aligns = {1}
  SourceMayFail = FALSE
  MaxChunks = 2
  MaxRefs = 1
INVARIANT NothingOwed
