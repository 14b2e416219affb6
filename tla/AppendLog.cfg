SPECIFICATION LogSpec
CONSTANTS
  Readers = {r1, r2, r3}
  MaxLsn = 3
  Handles = {0, 1, 2, 3}
  Cells = {0, 1, 2, 3}
  NULL = NULL
  MAIN = MAIN
  WRITER = WRITER
INVARIANTS
  PublishedIsThere
  ReadersSeeTheRecord
  CountersReturnToZero
PROPERTIES
  LogEnds
