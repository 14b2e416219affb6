SPECIFICATION Spec
CONSTANTS
  Threads = {t1, t2, t3}
  Bufs = {b1, b2, b3}
  Scrapers = {s1}
  Tenants = {a}
  Data = {d1, d2}
  NULL = NULL
  POOL = POOL
  PageSize = 2
  U64 = 64
  SourceMayFail = FALSE
  MaxAllocs = 3
  MaxRefs = 2
  MaxPrewarm = 2
  MaxHeap = 3
SYMMETRY Symmetry
INVARIANTS
  TypeOK
  ExclusiveOwnership
  ReleaseContract
  NoUseAfterFree
  NoLeak
  PoolCountersExact
  BytesLagPages
  TenantCountersExact
  PeakCoversBytes
PROPERTIES
  RecycleBeforeGrow
  PeakNeverFalls
  SealedImmutable
