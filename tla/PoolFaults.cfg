SPECIFICATION FairSpec
CONSTANTS
  Threads = {t1, t2}
  Bufs = {b1, b2}
  Scrapers = {s1}
  Tenants = {a, c}
  Data = {d1}
  NULL = NULL
  POOL = POOL
  PageSize = 2
  U64 = 64
  SourceMayFail = TRUE
  MaxAllocs = 1
  MaxRefs = 1
  MaxPrewarm = 2
  MaxHeap = 3
INVARIANTS
  IInv
  NoLeak
  TenantCountersExact
PROPERTIES
  ImplementsLedger
  CallsReturn
  ShutdownReleases
