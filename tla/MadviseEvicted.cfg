SPECIFICATION SourceSpec
CONSTANTS
  Bufs = {b1, b2}
  NULL = NULL
  GARBAGE = GARBAGE
  Kinds = {"mmap"}
  PageSizes = {4}
  HugeSizes = {8}
  WordBytes = 2
  FrameBytes = 4
  FallbackBytes = 2
  SysconfResults = {4}
INVARIANT NothingStranded
