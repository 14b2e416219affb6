SPECIFICATION SourceSpec
CONSTANTS
  Bufs = {b1, b2, b3}
  NULL = NULL
  GARBAGE = GARBAGE
  Kinds = {"heap", "mmap", "huge"}
  PageSizes = {1, 2, 4, 6, 8}
  HugeSizes = {8}
  WordBytes = 2
  FrameBytes = 4
  FallbackBytes = 2
  SysconfResults = {4, 0}
INVARIANTS
  PrewarmedIsCommitted
  FreeListIntact
