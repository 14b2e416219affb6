SPECIFICATION ContentSpec
CONSTANTS
  Threads = {t1, t2}
  b1 = b1
  b2 = b2
  Bufs = {b1, b2}
  Blocks = {h1}
  Chunks = {c1, c2}
  Base <- MCBase
  Tenants = {a}
  NULL = NULL
  OPEN = OPEN
  ZERO = ZERO
  LINK = LINK
  Values = {x}
  Lengths = {1, 2}
  U32 = 64
  U64 = 64
  PageBytes = 2
  DefaultAlign = 1
  Sizes = {1, 3}
  Aligns = {1}
  SourceMayFail = FALSE
  MaxChunks = 3
  MaxRefs = 2
SYMMETRY Symmetry
INVARIANTS
  ContentTypeOK
PROPERTIES
  ChunksKeepTheirBytes
