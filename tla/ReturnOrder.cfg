SPECIFICATION OrderSpec
CONSTANTS
  Threads = {t1, t2, t3}
  Bufs = {b1, b2}
  NULL = NULL
INVARIANTS
  NoRace
