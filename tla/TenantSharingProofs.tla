------------------------ MODULE TenantSharingProofs ------------------------
(***************************************************************************)
(* What TenantSharing promises, for any number of workers, tenants and     *)
(* sizes.                                                                  *)
(*                                                                         *)
(* A counter is the number of live allocations plus the calls that have    *)
(* added to it and not delivered, or taken a handle and not subtracted.    *)
(* Every step changes at most one kind of allocation of one tenant and one *)
(* worker's share, and both changes cancel or show in the counter.         *)
(***************************************************************************)
EXTENDS TenantSharing, CounterLemmas

-----------------------------------------------------------------------------
(* The totals.                                                             *)

BytePcs  == {"peak", "store", "rel_bytes"}
CountPcs == {"bytes", "peak", "store", "rel_bytes", "rel_count"}

ByteShare(tn)  == Inside(tn, BytePcs)
PageShare(tn)  == {w \in Pending(tn) : Kind(w).page}
ChunkShare(tn) == {w \in Pending(tn) : ~Kind(w).page}
ChunkKinds     == Kinds \ PageKinds

\* What SharedCountsExact says the counters are, before they wrap.
BytesTotal(tn) ==
  SumFunctionOnSet([k \in Kinds |-> live[tn][k] * k.size], Kinds)
    + SumFunctionOnSet([w \in Workers |-> Kind(w).size], ByteShare(tn))
PagesTotal(tn) == SumFunctionOnSet(live[tn], PageKinds) + Cardinality(PageShare(tn))
ChunksTotal(tn) == SumFunctionOnSet(live[tn], ChunkKinds) + Cardinality(ChunkShare(tn))

ExactFor(tn) ==
  /\ tstats[tn].bytes = BytesTotal(tn) % U64
  /\ tstats[tn].pages = PagesTotal(tn) % U64
  /\ tstats[tn].chunks = ChunksTotal(tn) % U64

\* The property, with its sums named.
LEMMA ExactForIs == (\A tn \in Tenants : ExactFor(tn)) <=> SharedCountsExact
  BY DEF ExactFor, SharedCountsExact, BytesTotal, PagesTotal, ChunksTotal, ByteShare, PageShare,
         ChunkShare, ChunkKinds, BytePcs

\* A kind has a size.
LEMMA KindFacts == ASSUME NEW k \in Kinds PROVE k.size \in Nat
  BY SharingAssumption DEF Kinds

\* There are finitely many.
LEMMA KindsFinite == IsFiniteSet(Kinds) /\ IsFiniteSet(PageKinds) /\ IsFiniteSet(ChunkKinds)
  <1> DEFINE C == {[page |-> FALSE, size |-> n] : n \in ChunkSizes}
             f == [n \in ChunkSizes |-> [page |-> FALSE, size |-> n]]
             p == [page |-> TRUE, size |-> PageBytes]
  <1>1. f \in Surjection(ChunkSizes, C)
    BY DEF Surjection
  <1>2. IsFiniteSet(C)
    <2> HIDE DEF C, f
    <2> QED  BY <1>1, FS_Surjection, SharingAssumption
  <1>3. Kinds = C \cup {p}
    BY DEF Kinds
  <1>4. IsFiniteSet(C \cup {p})
    <2> HIDE DEF C, p
    <2> QED  BY <1>2, FS_AddElement
  <1>5. IsFiniteSet(Kinds)
    BY <1>3, <1>4
  <1>6. PageKinds \subseteq Kinds /\ ChunkKinds \subseteq Kinds
    BY DEF PageKinds, ChunkKinds
  <1> QED  BY <1>5, <1>6, FS_Subset

\* And finitely many workers.
LEMMA SharesFinite ==
  ASSUME NEW tn
  PROVE  IsFiniteSet(ByteShare(tn)) /\ IsFiniteSet(PageShare(tn)) /\ IsFiniteSet(ChunkShare(tn))
  <1>1. /\ ByteShare(tn) \subseteq Workers /\ PageShare(tn) \subseteq Workers
        /\ ChunkShare(tn) \subseteq Workers
    BY DEF ByteShare, PageShare, ChunkShare, Pending, Inside
  <1> QED  BY <1>1, FS_Subset, SharingAssumption

-----------------------------------------------------------------------------
(* The types.                                                              *)

CallType == [ten : Tenants, kind : Kinds, new : Counter]

\* Locals of a worker that has called nothing yet.
LEMMA NoCallType == NoCall \in CallType
  <1>1. PICK tn \in Tenants : TRUE
    BY SharingAssumption
  <1>2. [page |-> TRUE, size |-> PageBytes] \in Kinds
    BY DEF Kinds
  <1>3. [ten |-> tn, kind |-> [page |-> TRUE, size |-> PageBytes], new |-> 0]
          \in [ten : Tenants, kind : Kinds, new : {0}]
    BY <1>1, <1>2
  <1>4. NoCall \in [ten : Tenants, kind : Kinds, new : {0}]
    BY <1>3 DEF NoCall
  <1> QED  BY <1>4, U64Assumption DEF CallType, Counter

\* A call and a drop begin.
LEMMA BeginTypes ==
  ASSUME SharingTypeOK, NEW w \in Workers, NEW tn \in Tenants, NEW k \in Kinds,
         BeginAllocate(w, tn, k) \/ BeginRelease(w, tn, k)
  PROVE  SharingTypeOK'
  <1>1. 0 \in Counter
    BY U64Assumption DEF Counter
  <1>2. wpc' \in [Workers -> WorkerPcs]
    BY DEF BeginAllocate, BeginRelease, Goto, SharingTypeOK, WorkerPcs
  <1>3. wreg' \in [Workers -> [ten : Tenants, kind : Kinds, new : Counter]]
    BY <1>1 DEF BeginAllocate, BeginRelease, SharingTypeOK
  <1>4. live' \in [Tenants -> [Kinds -> Nat]]
    <2>1. live[tn] \in [Kinds -> Nat] /\ live[tn][k] \in Nat
      BY DEF SharingTypeOK
    <2>2. CASE BeginAllocate(w, tn, k)
      BY <2>2 DEF BeginAllocate, SharingTypeOK
    <2>3. CASE BeginRelease(w, tn, k)
      <3>1. live[tn][k] - 1 \in Nat
        BY <2>1, <2>3 DEF BeginRelease
      <3> QED  BY <2>1, <2>3, <3>1 DEF BeginRelease, SharingTypeOK
    <2> QED  BY <2>2, <2>3
  <1>5. TenantTypeOK'
    <2>1. /\ tstats \in [Tenants -> TenantCounters] /\ tstats[tn].total \in Counter
          /\ tstats[tn].total_chunks \in Counter
      BY DEF SharingTypeOK, TenantTypeOK, TenantCounters
    <2>2. /\ FetchAdd(tstats[tn].total, 1) \in Counter
          /\ FetchAdd(tstats[tn].total_chunks, 1) \in Counter
      BY <2>1, FetchType
    <2>3. CASE RecordTotal(tn)
      BY <2>1, <2>2, <2>3 DEF RecordTotal, TenantTypeOK, TenantCounters
    <2>4. CASE RecordTotalChunks(tn)
      BY <2>1, <2>2, <2>4 DEF RecordTotalChunks, TenantTypeOK, TenantCounters
    <2>5. CASE tstats' = tstats
      BY <2>1, <2>5 DEF TenantTypeOK
    <2> QED  BY <2>3, <2>4, <2>5 DEF BeginAllocate, BeginRelease
  <1> QED  BY <1>2, <1>3, <1>4, <1>5 DEF SharingTypeOK

\* The counters that a step changes stay u64s.
LEMMA CounterTypes ==
  ASSUME TenantTypeOK, NEW tn \in Tenants, NEW n \in Nat, NEW new \in Counter,
         \/ RecordPages(tn) \/ RecordChunks(tn) \/ RecordBytes(tn, n) \/ StorePeak(tn, new)
         \/ ReleaseBytes(tn, n) \/ ReleasePages(tn) \/ ReleaseChunks(tn)
  PROVE  TenantTypeOK'
  <1>1. /\ tstats \in [Tenants -> TenantCounters] /\ tstats[tn].bytes \in Counter
        /\ tstats[tn].pages \in Counter /\ tstats[tn].chunks \in Counter
    BY DEF TenantTypeOK, TenantCounters
  <1>2. /\ FetchAdd(tstats[tn].bytes, n) \in Counter /\ FetchSub(tstats[tn].bytes, n) \in Counter
        /\ FetchAdd(tstats[tn].pages, 1) \in Counter /\ FetchSub(tstats[tn].pages, 1) \in Counter
        /\ FetchAdd(tstats[tn].chunks, 1) \in Counter /\ FetchSub(tstats[tn].chunks, 1) \in Counter
    BY <1>1, FetchType
  <1> USE DEF TenantTypeOK, TenantCounters
  <1>3. CASE RecordPages(tn) \/ ReleasePages(tn)
    BY <1>1, <1>2, <1>3 DEF RecordPages, ReleasePages
  <1>4. CASE RecordChunks(tn) \/ ReleaseChunks(tn)
    BY <1>1, <1>2, <1>4 DEF RecordChunks, ReleaseChunks
  <1>5. CASE RecordBytes(tn, n) \/ ReleaseBytes(tn, n)
    BY <1>1, <1>2, <1>5 DEF RecordBytes, ReleaseBytes
  <1>6. CASE StorePeak(tn, new)
    BY <1>1, <1>6 DEF StorePeak
  <1> QED  BY <1>3, <1>4, <1>5, <1>6

\* The steps inside a record_* function.
LEMMA InsideTypes ==
  ASSUME SharingTypeOK, NEW w \in Workers,
         \/ CountOne(w) \/ AddBytes(w) \/ NewPeak(w) \/ NoNewPeak(w) \/ RecordPeak(w)
         \/ SubtractBytes(w) \/ UncountOne(w)
  PROVE  SharingTypeOK'
  <1>1. /\ wreg[w] \in CallType /\ Ten(w) \in Tenants /\ Kind(w) \in Kinds
        /\ wreg[w].new \in Counter
        /\ wpc \in [Workers -> WorkerPcs] /\ wreg \in [Workers -> CallType]
        /\ live \in [Tenants -> [Kinds -> Nat]] /\ TenantTypeOK
    BY DEF SharingTypeOK, CallType, Ten, Kind
  <1>2. Kind(w).size \in Nat
    BY <1>1, KindFacts
  <1>3. wpc' \in [Workers -> WorkerPcs]
    BY <1>1 DEF CountOne, AddBytes, NewPeak, NoNewPeak, RecordPeak, SubtractBytes, UncountOne,
                Goto, WorkerPcs
  <1>4. wreg' \in [Workers -> CallType]
    <2>1. NewBytes(Ten(w), Kind(w).size) \in Counter
      BY <1>1, <1>2, FetchType DEF NewBytes, TenantTypeOK, TenantCounters
    <2>2. CASE AddBytes(w)
      BY <1>1, <2>1, <2>2 DEF AddBytes, CallType
    <2>3. CASE ~ AddBytes(w)
      BY <1>1, <2>3 DEF CountOne, NewPeak, NoNewPeak, RecordPeak, SubtractBytes, UncountOne
    <2> QED  BY <2>2, <2>3
  <1>5. live' \in [Tenants -> [Kinds -> Nat]]
    <2>1. live[Ten(w)] \in [Kinds -> Nat] /\ live[Ten(w)][Kind(w)] + 1 \in Nat
      BY <1>1
    <2>2. CASE Deliver(w)
      BY <1>1, <2>1, <2>2 DEF Deliver
    <2>3. CASE live' = live
      BY <1>1, <2>3
    <2> QED  BY <2>2, <2>3 DEF CountOne, AddBytes, NewPeak, NoNewPeak, RecordPeak, SubtractBytes,
                               UncountOne
  <1>6. TenantTypeOK'
    <2>1. CASE tstats' = tstats
      BY <1>1, <2>1 DEF TenantTypeOK
    <2>2. CASE tstats' # tstats
      <3>1. \/ RecordPages(Ten(w)) \/ RecordChunks(Ten(w)) \/ RecordBytes(Ten(w), Kind(w).size)
            \/ StorePeak(Ten(w), wreg[w].new) \/ ReleaseBytes(Ten(w), Kind(w).size)
            \/ ReleasePages(Ten(w)) \/ ReleaseChunks(Ten(w))
        BY <2>2 DEF CountOne, AddBytes, NewPeak, NoNewPeak, RecordPeak, SubtractBytes, UncountOne
      <3> QED  BY <1>1, <1>2, <3>1, CounterTypes
    <2> QED  BY <2>1, <2>2
  <1> QED  BY <1>3, <1>4, <1>5, <1>6 DEF SharingTypeOK, CallType

\* Every step keeps the types.
LEMMA SharingTypesNext == ASSUME SharingTypeOK, [SharingNext]_svars PROVE SharingTypeOK'
  <1>1. CASE UNCHANGED svars
    BY <1>1 DEF svars, SharingTypeOK, TenantTypeOK
  <1>2. ASSUME NEW w \in Workers, WorkerStep(w) PROVE SharingTypeOK'
    BY <1>2, BeginTypes, InsideTypes DEF WorkerStep
  <1> QED  BY <1>1, <1>2 DEF SharingNext, Stopped

\* The types hold; in particular no tenant ever has fewer than no allocations,
\* whichever worker drops the handle.
THEOREM SharingTypes == SharingSpec => []SharingTypeOK
  <1>1. SharingInit => SharingTypeOK
    <2> SUFFICES ASSUME SharingInit PROVE SharingTypeOK
      OBVIOUS
    <2>1. wpc \in [Workers -> WorkerPcs] /\ live \in [Tenants -> [Kinds -> Nat]]
      BY DEF SharingInit, WorkerPcs
    <2>2. wreg \in [Workers -> CallType]
      BY NoCallType DEF SharingInit
    <2>3. TenantTypeOK
      BY U64Assumption DEF SharingInit, TenantInit, TenantTypeOK, TenantCounters, Counter
    <2> QED  BY <2>1, <2>2, <2>3 DEF SharingTypeOK, CallType
  <1> QED  BY <1>1, SharingTypesNext, PTL DEF SharingSpec

-----------------------------------------------------------------------------
(* One step changes one kind of one tenant and one worker.                 *)

\* Nobody but w moves, and no kind but k of tenant tn changes its number.
OnlyMoves(w, tn, k) ==
  /\ \A v \in Workers \ {w} : wpc'[v] = wpc[v] /\ wreg'[v] = wreg[v]
  /\ \A q \in Kinds \ {k} : live'[tn][q] = live[tn][q]

\* The bytes.
LEMMA BytesStep ==
  ASSUME SharingTypeOK, SharingTypeOK', NEW w \in Workers, NEW tn \in Tenants, NEW k \in Kinds,
         OnlyMoves(w, tn, k)
  PROVE  /\ BytesTotal(tn) \in Int
         /\ BytesTotal(tn)' = BytesTotal(tn) + live'[tn][k] * k.size - live[tn][k] * k.size
              + Part(w, ByteShare(tn)', wreg'[w].kind.size)
              - Part(w, ByteShare(tn), wreg[w].kind.size)
  <1> DEFINE f == [q \in Kinds |-> live[tn][q] * q.size]
             e == [q \in Kinds |-> live'[tn][q] * q.size]
             g == [v \in Workers |-> Kind(v).size]
             h == [v \in Workers |-> Kind(v)'.size]
             S == ByteShare(tn)
             T == ByteShare(tn)'
  <1>1. /\ \A q \in Kinds \ {k} : e[q] = f[q]
        /\ \A q \in Kinds : f[q] \in Int /\ e[q] \in Int
        /\ e[k] = live'[tn][k] * k.size /\ f[k] = live[tn][k] * k.size
    <2>1. \A q \in Kinds : q.size \in Int
      BY KindFacts
    <2>2. \A q \in Kinds : live[tn][q] \in Int /\ live'[tn][q] \in Int
      BY DEF SharingTypeOK
    <2> QED  BY <2>1, <2>2 DEF OnlyMoves
  <1>2. /\ \A v : v # w => (v \in S <=> v \in T)
        /\ \A v \in S \ {w} : h[v] = g[v]
        /\ \A v \in Workers : g[v] \in Int /\ h[v] \in Int
        /\ h[w] = wreg'[w].kind.size /\ g[w] = wreg[w].kind.size
        /\ S \subseteq Workers /\ T \subseteq Workers
    <2>1. \A v \in Workers : Kind(v) \in Kinds /\ Kind(v)' \in Kinds
      BY DEF SharingTypeOK, Kind
    <2>2. \A v \in Workers : g[v] \in Int /\ h[v] \in Int
      BY <2>1, KindFacts
    <2>3. \A v : v # w => (v \in S <=> v \in T)
      BY DEF OnlyMoves, ByteShare, Inside, Ten
    <2>4. \A v \in S \ {w} : h[v] = g[v]
      BY DEF OnlyMoves, ByteShare, Inside, Kind
    <2>5. /\ h[w] = wreg'[w].kind.size /\ g[w] = wreg[w].kind.size
          /\ S \subseteq Workers /\ T \subseteq Workers
      BY DEF Kind, ByteShare, Inside
    <2> QED  BY <2>2, <2>3, <2>4, <2>5
  <1>3. IsFiniteSet(Kinds) /\ IsFiniteSet(S)
    BY KindsFinite, SharesFinite
  <1>4. BytesTotal(tn) = SumFunctionOnSet(f, Kinds) + SumFunctionOnSet(g, S)
    BY DEF BytesTotal
  <1>5. BytesTotal(tn)' = SumFunctionOnSet(e, Kinds) + SumFunctionOnSet(h, T)
    BY DEF BytesTotal
  <1> HIDE DEF f, e, g, h, S, T
  <1>6. /\ SumFunctionOnSet(f, Kinds) \in Int /\ SumFunctionOnSet(e, Kinds) \in Int
        /\ SumFunctionOnSet(e, Kinds) = SumFunctionOnSet(f, Kinds) + e[k] - f[k]
    BY <1>1, <1>3, SumOneChange
  <1>7. /\ SumFunctionOnSet(g, S) \in Int /\ SumFunctionOnSet(h, T) \in Int
        /\ SumFunctionOnSet(h, T) = SumFunctionOnSet(g, S) + Part(w, T, h[w]) - Part(w, S, g[w])
    <2>1. (\A v \in S : g[v] \in Int) /\ (w \in T => h[w] \in Int)
      BY <1>2
    <2> QED  BY <1>2, <1>3, <2>1, SumOneChange DEF Part
  <1>8. /\ Part(w, T, h[w]) \in Int /\ Part(w, S, g[w]) \in Int /\ e[k] \in Int /\ f[k] \in Int
    BY <1>1, <1>2 DEF Part
  <1>9. /\ BytesTotal(tn) \in Int
        /\ BytesTotal(tn)' = BytesTotal(tn) + e[k] - f[k] + Part(w, T, h[w]) - Part(w, S, g[w])
    BY <1>4, <1>5, <1>6, <1>7, <1>8
  <1> QED  BY <1>1, <1>2, <1>9 DEF S, T

\* A number of allocations of some of the kinds, and of calls.
LEMMA NumberStep ==
  ASSUME SharingTypeOK, SharingTypeOK', NEW w \in Workers, NEW tn \in Tenants, NEW k \in Kinds,
         OnlyMoves(w, tn, k),
         NEW K \in SUBSET Kinds, NEW S, NEW T, IsFiniteSet(S),
         \A v : v # w => (v \in S <=> v \in T)
  PROVE  /\ SumFunctionOnSet(live[tn], K) + Cardinality(S) \in Int
         /\ SumFunctionOnSet(live'[tn], K) + Cardinality(T)
              = SumFunctionOnSet(live[tn], K) + Cardinality(S)
                  + Part(k, K, live'[tn][k]) - Part(k, K, live[tn][k])
                  + Part(w, T, 1) - Part(w, S, 1)
  <1> DEFINE f == live[tn]
             e == live'[tn]
  <1>1. /\ \A q \in K \ {k} : e[q] = f[q]
        /\ \A q \in K : f[q] \in Int
        /\ k \in K => e[k] \in Int
        /\ f[k] \in Int /\ e[k] \in Int
    BY DEF SharingTypeOK, OnlyMoves
  <1>2. IsFiniteSet(K)
    BY KindsFinite, FS_Subset
  <1> HIDE DEF f, e
  <1>3. /\ SumFunctionOnSet(f, K) \in Int /\ SumFunctionOnSet(e, K) \in Int
        /\ SumFunctionOnSet(e, K) = SumFunctionOnSet(f, K) + Part(k, K, e[k]) - Part(k, K, f[k])
    BY <1>1, <1>2, SumOneChange DEF Part
  <1>4. /\ Cardinality(S) \in Int /\ Cardinality(T) \in Int
        /\ Cardinality(T) = Cardinality(S) + Part(w, T, 1) - Part(w, S, 1)
    BY OneChange DEF Part
  <1>5. /\ Part(k, K, e[k]) \in Int /\ Part(k, K, f[k]) \in Int
        /\ Part(w, T, 1) \in Int /\ Part(w, S, 1) \in Int
    BY <1>1 DEF Part
  <1>6. /\ SumFunctionOnSet(f, K) + Cardinality(S) \in Int
        /\ SumFunctionOnSet(e, K) + Cardinality(T) = SumFunctionOnSet(f, K) + Cardinality(S)
             + Part(k, K, e[k]) - Part(k, K, f[k]) + Part(w, T, 1) - Part(w, S, 1)
    BY <1>3, <1>4, <1>5
  <1> QED  BY <1>6 DEF f, e

\* The pages.
LEMMA PagesStep ==
  ASSUME SharingTypeOK, SharingTypeOK', NEW w \in Workers, NEW tn \in Tenants, NEW k \in Kinds,
         OnlyMoves(w, tn, k)
  PROVE  /\ PagesTotal(tn) \in Int
         /\ PagesTotal(tn)' = PagesTotal(tn)
              + Part(k, PageKinds, live'[tn][k]) - Part(k, PageKinds, live[tn][k])
              + Part(w, PageShare(tn)', 1) - Part(w, PageShare(tn), 1)
  <1>1. \A v : v # w => (v \in PageShare(tn) <=> v \in PageShare(tn)')
    BY DEF OnlyMoves, PageShare, Pending, Inside, Ten, Kind
  <1>2. PageKinds \in SUBSET Kinds /\ IsFiniteSet(PageShare(tn))
    BY SharesFinite DEF PageKinds
  <1>3. /\ PagesTotal(tn) = SumFunctionOnSet(live[tn], PageKinds) + Cardinality(PageShare(tn))
        /\ PagesTotal(tn)' = SumFunctionOnSet(live'[tn], PageKinds) + Cardinality(PageShare(tn)')
    BY DEF PagesTotal, PageKinds
  <1> DEFINE K == PageKinds
             S == PageShare(tn)
             T == PageShare(tn)'
  <1>4. K \in SUBSET Kinds /\ IsFiniteSet(S) /\ \A v : v # w => (v \in S <=> v \in T)
    BY <1>1, <1>2
  <1>5. /\ PagesTotal(tn) = SumFunctionOnSet(live[tn], K) + Cardinality(S)
        /\ PagesTotal(tn)' = SumFunctionOnSet(live'[tn], K) + Cardinality(T)
    BY <1>3
  <1> HIDE DEF K, S, T
  <1>6. /\ SumFunctionOnSet(live[tn], K) + Cardinality(S) \in Int
        /\ SumFunctionOnSet(live'[tn], K) + Cardinality(T)
             = SumFunctionOnSet(live[tn], K) + Cardinality(S)
                 + Part(k, K, live'[tn][k]) - Part(k, K, live[tn][k])
                 + Part(w, T, 1) - Part(w, S, 1)
    BY <1>4, NumberStep
  <1>7. /\ PagesTotal(tn) \in Int
        /\ PagesTotal(tn)' = PagesTotal(tn)
             + Part(k, K, live'[tn][k]) - Part(k, K, live[tn][k])
             + Part(w, T, 1) - Part(w, S, 1)
    BY <1>5, <1>6
  <1> QED  BY <1>7 DEF K, S, T

\* The chunks.
LEMMA ChunksStep ==
  ASSUME SharingTypeOK, SharingTypeOK', NEW w \in Workers, NEW tn \in Tenants, NEW k \in Kinds,
         OnlyMoves(w, tn, k)
  PROVE  /\ ChunksTotal(tn) \in Int
         /\ ChunksTotal(tn)' = ChunksTotal(tn)
              + Part(k, ChunkKinds, live'[tn][k]) - Part(k, ChunkKinds, live[tn][k])
              + Part(w, ChunkShare(tn)', 1) - Part(w, ChunkShare(tn), 1)
  <1>1. \A v : v # w => (v \in ChunkShare(tn) <=> v \in ChunkShare(tn)')
    BY DEF OnlyMoves, ChunkShare, Pending, Inside, Ten, Kind
  <1>2. ChunkKinds \in SUBSET Kinds /\ IsFiniteSet(ChunkShare(tn))
    BY SharesFinite DEF ChunkKinds
  <1>3. /\ ChunksTotal(tn) = SumFunctionOnSet(live[tn], ChunkKinds) + Cardinality(ChunkShare(tn))
        /\ ChunksTotal(tn)' = SumFunctionOnSet(live'[tn], ChunkKinds) + Cardinality(ChunkShare(tn)')
    BY DEF ChunksTotal, ChunkKinds
  <1> DEFINE K == ChunkKinds
             S == ChunkShare(tn)
             T == ChunkShare(tn)'
  <1>4. K \in SUBSET Kinds /\ IsFiniteSet(S) /\ \A v : v # w => (v \in S <=> v \in T)
    BY <1>1, <1>2
  <1>5. /\ ChunksTotal(tn) = SumFunctionOnSet(live[tn], K) + Cardinality(S)
        /\ ChunksTotal(tn)' = SumFunctionOnSet(live'[tn], K) + Cardinality(T)
    BY <1>3
  <1> HIDE DEF K, S, T
  <1>6. /\ SumFunctionOnSet(live[tn], K) + Cardinality(S) \in Int
        /\ SumFunctionOnSet(live'[tn], K) + Cardinality(T)
             = SumFunctionOnSet(live[tn], K) + Cardinality(S)
                 + Part(k, K, live'[tn][k]) - Part(k, K, live[tn][k])
                 + Part(w, T, 1) - Part(w, S, 1)
    BY <1>4, NumberStep
  <1>7. /\ ChunksTotal(tn) \in Int
        /\ ChunksTotal(tn)' = ChunksTotal(tn)
             + Part(k, K, live'[tn][k]) - Part(k, K, live[tn][k])
             + Part(w, T, 1) - Part(w, S, 1)
    BY <1>5, <1>6
  <1> QED  BY <1>7 DEF K, S, T

\* Whose share is what.
LEMMA SharesAre ==
  ASSUME NEW w \in Workers, NEW tn
  PROVE  /\ w \in ByteShare(tn) <=> wpc[w] \in BytePcs /\ wreg[w].ten = tn
         /\ w \in PageShare(tn) <=> wpc[w] \in CountPcs /\ wreg[w].ten = tn /\ wreg[w].kind.page
         /\ w \in ChunkShare(tn) <=> wpc[w] \in CountPcs /\ wreg[w].ten = tn /\ ~wreg[w].kind.page
         /\ w \in ByteShare(tn)' <=> wpc'[w] \in BytePcs /\ wreg'[w].ten = tn
         /\ w \in PageShare(tn)' <=> /\ wpc'[w] \in CountPcs /\ wreg'[w].ten = tn
                                     /\ wreg'[w].kind.page
         /\ w \in ChunkShare(tn)' <=> /\ wpc'[w] \in CountPcs /\ wreg'[w].ten = tn
                                      /\ ~wreg'[w].kind.page
  BY DEF ByteShare, PageShare, ChunkShare, Pending, Inside, Ten, Kind, BytePcs, CountPcs

\* A step that leaves the counters and the shares of tn alone.
LEMMA Elsewhere ==
  ASSUME SharingTypeOK, SharingTypeOK', NEW w \in Workers, NEW tn \in Tenants, NEW k \in Kinds,
         OnlyMoves(w, tn, k), ExactFor(tn), live'[tn][k] = live[tn][k],
         tstats'[tn].bytes = tstats[tn].bytes, tstats'[tn].pages = tstats[tn].pages,
         tstats'[tn].chunks = tstats[tn].chunks,
         \/ w \notin ByteShare(tn) /\ w \notin ByteShare(tn)'
         \/ w \in ByteShare(tn) /\ w \in ByteShare(tn)' /\ wreg'[w].kind = wreg[w].kind,
         w \in PageShare(tn) <=> w \in PageShare(tn)',
         w \in ChunkShare(tn) <=> w \in ChunkShare(tn)'
  PROVE  ExactFor(tn)'
  <1>1. live[tn][k] * k.size \in Int /\ live[tn][k] \in Int
    BY KindFacts DEF SharingTypeOK
  <1>2. wreg[w].kind.size \in Int /\ wreg'[w].kind.size \in Int
    <2>1. wreg[w].kind \in Kinds /\ wreg'[w].kind \in Kinds
      BY DEF SharingTypeOK
    <2> QED  BY <2>1, KindFacts
  <1>3. BytesTotal(tn)' = BytesTotal(tn)
    <2>1. Part(w, ByteShare(tn)', wreg'[w].kind.size) = Part(w, ByteShare(tn), wreg[w].kind.size)
      BY DEF Part
    <2>2. Part(w, ByteShare(tn), wreg[w].kind.size) \in Int
      BY <1>2 DEF Part
    <2> QED  BY <1>1, <2>1, <2>2, BytesStep
  <1>4. PagesTotal(tn)' = PagesTotal(tn)
    <2>1. /\ Part(w, PageShare(tn)', 1) = Part(w, PageShare(tn), 1)
          /\ Part(w, PageShare(tn), 1) \in Int
          /\ Part(k, PageKinds, live[tn][k]) \in Int
      BY <1>1 DEF Part
    <2> QED  BY <2>1, PagesStep
  <1>5. ChunksTotal(tn)' = ChunksTotal(tn)
    <2>1. /\ Part(w, ChunkShare(tn)', 1) = Part(w, ChunkShare(tn), 1)
          /\ Part(w, ChunkShare(tn), 1) \in Int
          /\ Part(k, ChunkKinds, live[tn][k]) \in Int
      BY <1>1 DEF Part
    <2> QED  BY <2>1, ChunksStep
  <1> QED  BY <1>3, <1>4, <1>5 DEF ExactFor

\* A call delivers, or a drop takes a handle: an allocation and a share of w
\* replace each other.
LEMMA Exchange ==
  ASSUME SharingTypeOK, SharingTypeOK', NEW w \in Workers, NEW tn \in Tenants, NEW k \in Kinds,
         OnlyMoves(w, tn, k), ExactFor(tn), tstats'[tn].bytes = tstats[tn].bytes,
         tstats'[tn].pages = tstats[tn].pages, tstats'[tn].chunks = tstats[tn].chunks,
         \/ /\ live'[tn][k] = live[tn][k] + 1
            /\ wreg[w].kind = k /\ wreg[w].ten = tn
            /\ wpc[w] \in {"peak", "store"} /\ wpc'[w] = "idle"
         \/ /\ live'[tn][k] = live[tn][k] - 1
            /\ wreg'[w].kind = k /\ wreg'[w].ten = tn
            /\ wpc[w] = "idle" /\ wpc'[w] = "rel_bytes"
  PROVE  ExactFor(tn)'
  <1> DEFINE n == live[tn][k]
             m == live'[tn][k]
             s == k.size
  <1>1. n \in Int /\ m \in Int /\ s \in Int
    BY KindFacts DEF SharingTypeOK
  <1>2. (n + 1) * s = n * s + s /\ (n - 1) * s = n * s - s /\ n * s \in Int /\ m * s \in Int
    <2> HIDE DEF n, m, s
    <2> QED  BY <1>1
  <1>3. k \in PageKinds <=> k.page
    BY DEF PageKinds
  <1>4. k \in ChunkKinds <=> ~k.page
    BY DEF PageKinds, ChunkKinds
  <1>5. /\ BytesTotal(tn) \in Int
        /\ BytesTotal(tn)' = BytesTotal(tn) + m * s - n * s
             + Part(w, ByteShare(tn)', wreg'[w].kind.size)
             - Part(w, ByteShare(tn), wreg[w].kind.size)
    BY BytesStep
  <1>6. /\ PagesTotal(tn) \in Int
        /\ PagesTotal(tn)' = PagesTotal(tn) + Part(k, PageKinds, m) - Part(k, PageKinds, n)
             + Part(w, PageShare(tn)', 1) - Part(w, PageShare(tn), 1)
    BY PagesStep
  <1>7. /\ ChunksTotal(tn) \in Int
        /\ ChunksTotal(tn)' = ChunksTotal(tn) + Part(k, ChunkKinds, m) - Part(k, ChunkKinds, n)
             + Part(w, ChunkShare(tn)', 1) - Part(w, ChunkShare(tn), 1)
    BY ChunksStep
  <1>8. ASSUME m = n + 1, wreg[w].kind = k, wreg[w].ten = tn, wpc[w] \in {"peak", "store"},
               wpc'[w] = "idle"
        PROVE  /\ BytesTotal(tn)' = BytesTotal(tn) /\ PagesTotal(tn)' = PagesTotal(tn)
               /\ ChunksTotal(tn)' = ChunksTotal(tn)
    <2>1. /\ w \in ByteShare(tn) /\ w \notin ByteShare(tn)'
          /\ w \in PageShare(tn) <=> k.page
          /\ w \in ChunkShare(tn) <=> ~k.page
          /\ w \notin PageShare(tn)' /\ w \notin ChunkShare(tn)'
      BY <1>8, SharesAre DEF BytePcs, CountPcs
    <2>2. /\ Part(w, ByteShare(tn)', wreg'[w].kind.size) = 0
          /\ Part(w, ByteShare(tn), wreg[w].kind.size) = s
      BY <1>8, <2>1 DEF Part
    <2>3. BytesTotal(tn)' = BytesTotal(tn)
      <3> HIDE DEF n, m, s
      <3> QED  BY <1>1, <1>2, <1>5, <1>8, <2>2
    <2>4. CASE k.page
      <3>1. /\ k \in PageKinds /\ k \notin ChunkKinds
            /\ w \in PageShare(tn) /\ w \notin ChunkShare(tn)
        BY <1>3, <1>4, <2>1, <2>4
      <3> HIDE DEF n, m, s
      <3> QED  BY <1>1, <1>6, <1>7, <1>8, <2>1, <2>3, <3>1 DEF Part
    <2>5. CASE ~k.page
      <3>1. /\ k \notin PageKinds /\ k \in ChunkKinds
            /\ w \notin PageShare(tn) /\ w \in ChunkShare(tn)
        BY <1>3, <1>4, <2>1, <2>5
      <3> HIDE DEF n, m, s
      <3> QED  BY <1>1, <1>6, <1>7, <1>8, <2>1, <2>3, <3>1 DEF Part
    <2> QED  BY <2>4, <2>5
  <1>9. ASSUME m = n - 1, wreg'[w].kind = k, wreg'[w].ten = tn, wpc[w] = "idle",
               wpc'[w] = "rel_bytes"
        PROVE  /\ BytesTotal(tn)' = BytesTotal(tn) /\ PagesTotal(tn)' = PagesTotal(tn)
               /\ ChunksTotal(tn)' = ChunksTotal(tn)
    <2>1. /\ w \notin ByteShare(tn) /\ w \in ByteShare(tn)'
          /\ w \in PageShare(tn)' <=> k.page
          /\ w \in ChunkShare(tn)' <=> ~k.page
          /\ w \notin PageShare(tn) /\ w \notin ChunkShare(tn)
      BY <1>9, SharesAre DEF BytePcs, CountPcs
    <2>2. /\ Part(w, ByteShare(tn)', wreg'[w].kind.size) = s
          /\ Part(w, ByteShare(tn), wreg[w].kind.size) = 0
      BY <1>9, <2>1 DEF Part
    <2>3. BytesTotal(tn)' = BytesTotal(tn)
      <3> HIDE DEF n, m, s
      <3> QED  BY <1>1, <1>2, <1>5, <1>9, <2>2
    <2>4. CASE k.page
      <3>1. /\ k \in PageKinds /\ k \notin ChunkKinds
            /\ w \in PageShare(tn)' /\ w \notin ChunkShare(tn)'
        BY <1>3, <1>4, <2>1, <2>4
      <3> HIDE DEF n, m, s
      <3> QED  BY <1>1, <1>6, <1>7, <1>9, <2>1, <2>3, <3>1 DEF Part
    <2>5. CASE ~k.page
      <3>1. /\ k \notin PageKinds /\ k \in ChunkKinds
            /\ w \notin PageShare(tn)' /\ w \in ChunkShare(tn)'
        BY <1>3, <1>4, <2>1, <2>5
      <3> HIDE DEF n, m, s
      <3> QED  BY <1>1, <1>6, <1>7, <1>9, <2>1, <2>3, <3>1 DEF Part
    <2> QED  BY <2>4, <2>5
  <1>10. /\ BytesTotal(tn)' = BytesTotal(tn) /\ PagesTotal(tn)' = PagesTotal(tn)
         /\ ChunksTotal(tn)' = ChunksTotal(tn)
    BY <1>8, <1>9
  <1> QED  BY <1>10 DEF ExactFor

-----------------------------------------------------------------------------
(* Every action.                                                           *)

\* What every step inside a record_* function leaves alone.
LEMMA InsideFrame ==
  ASSUME SharingTypeOK, NEW w \in Workers,
         \/ CountOne(w) \/ AddBytes(w) \/ NewPeak(w) \/ NoNewPeak(w) \/ RecordPeak(w)
         \/ SubtractBytes(w) \/ UncountOne(w)
  PROVE  /\ Ten(w) \in Tenants /\ Kind(w) \in Kinds
         /\ wreg'[w].ten = Ten(w) /\ wreg'[w].kind = Kind(w)
         /\ \A tn \in Tenants : OnlyMoves(w, tn, Kind(w))
         /\ \A tn \in Tenants \ {Ten(w)} : live'[tn] = live[tn] /\ tstats'[tn] = tstats[tn]
  <1>1. /\ wreg \in [Workers -> CallType] /\ wpc \in [Workers -> WorkerPcs]
        /\ live \in [Tenants -> [Kinds -> Nat]] /\ tstats \in [Tenants -> TenantCounters]
        /\ Ten(w) \in Tenants /\ Kind(w) \in Kinds
    BY DEF SharingTypeOK, TenantTypeOK, CallType, Ten, Kind
  <1>2. /\ wreg'[w].ten = Ten(w) /\ wreg'[w].kind = Kind(w)
        /\ \A v \in Workers \ {w} : wreg'[v] = wreg[v]
    <2>1. CASE AddBytes(w)
      BY <1>1, <2>1 DEF AddBytes, CallType, Ten, Kind
    <2>2. CASE ~ AddBytes(w)
      BY <1>1, <2>2 DEF CountOne, NewPeak, NoNewPeak, RecordPeak, SubtractBytes, UncountOne,
                        Ten, Kind
    <2> QED  BY <2>1, <2>2
  <1>3. \A v \in Workers \ {w} : wpc'[v] = wpc[v]
    BY <1>1 DEF CountOne, AddBytes, NewPeak, NoNewPeak, RecordPeak, SubtractBytes, UncountOne,
                Goto
  <1>4. live' = live \/ Deliver(w)
    BY DEF CountOne, AddBytes, NewPeak, NoNewPeak, RecordPeak, SubtractBytes, UncountOne
  <1>5. \A tn \in Tenants : \A q \in Kinds \ {Kind(w)} : live'[tn][q] = live[tn][q]
    BY <1>1, <1>4 DEF Deliver
  <1>6. \A tn \in Tenants \ {Ten(w)} : live'[tn] = live[tn]
    BY <1>1, <1>4 DEF Deliver
  <1>7. \A tn \in Tenants \ {Ten(w)} : tstats'[tn] = tstats[tn]
    BY <1>1 DEF CountOne, AddBytes, NewPeak, NoNewPeak, RecordPeak, SubtractBytes, UncountOne,
                RecordPages, RecordChunks, RecordBytes, StorePeak, ReleaseBytes, ReleasePages,
                ReleaseChunks
  <1> QED  BY <1>1, <1>2, <1>3, <1>5, <1>6, <1>7 DEF OnlyMoves

\* Steps for one tenant leave the others alone.
LEMMA OtherTenant ==
  ASSUME SharingTypeOK, SharingTypeOK', NEW w \in Workers, NEW tn \in Tenants, tn # Ten(w),
         ExactFor(tn),
         \/ CountOne(w) \/ AddBytes(w) \/ NewPeak(w) \/ NoNewPeak(w) \/ RecordPeak(w)
         \/ SubtractBytes(w) \/ UncountOne(w)
  PROVE  ExactFor(tn)'
  <1>1. /\ Kind(w) \in Kinds /\ wreg'[w].ten = Ten(w) /\ OnlyMoves(w, tn, Kind(w))
        /\ live'[tn] = live[tn] /\ tstats'[tn] = tstats[tn]
    BY InsideFrame
  <1>2. /\ w \notin ByteShare(tn) /\ w \notin ByteShare(tn)'
        /\ w \notin PageShare(tn) /\ w \notin PageShare(tn)'
        /\ w \notin ChunkShare(tn) /\ w \notin ChunkShare(tn)'
    BY <1>1, SharesAre DEF Ten
  <1> QED  BY <1>1, <1>2, Elsewhere

\* pages_in_use or chunks_in_use changes by one, with the share of the call.
LEMMA CountOneExact ==
  ASSUME SharingTypeOK, SharingTypeOK', NEW w \in Workers, ExactFor(Ten(w)),
         CountOne(w) \/ UncountOne(w)
  PROVE  \A tn \in Tenants : tn = Ten(w) => ExactFor(tn)'
  <1> SUFFICES ASSUME NEW tn \in Tenants, tn = Ten(w) PROVE ExactFor(tn)'
    OBVIOUS
  <1> DEFINE k == Kind(w)
  <1>1. k \in Kinds /\ wreg'[w].ten = tn /\ wreg'[w].kind = k /\ OnlyMoves(w, tn, k)
    BY InsideFrame
  <1>2. live' = live /\ wreg[w].ten = tn /\ wreg[w].kind = k
    BY DEF CountOne, UncountOne, Ten, Kind
  <1>3. k.size \in Int /\ live[tn][k] \in Int /\ live[tn][k] * k.size \in Int
    BY <1>1, KindFacts DEF SharingTypeOK
  <1>4. wpc \in [Workers -> WorkerPcs] /\ tstats \in [Tenants -> TenantCounters]
    BY DEF SharingTypeOK, TenantTypeOK
  <1>5. w \notin ByteShare(tn) /\ w \notin ByteShare(tn)'
    BY <1>4, SharesAre DEF CountOne, UncountOne, Goto, BytePcs
  <1>6. BytesTotal(tn)' = BytesTotal(tn)
    <2>1. /\ BytesTotal(tn) \in Int
          /\ BytesTotal(tn)' = BytesTotal(tn) + live'[tn][k] * k.size - live[tn][k] * k.size
               + Part(w, ByteShare(tn)', wreg'[w].kind.size)
               - Part(w, ByteShare(tn), wreg[w].kind.size)
      BY <1>1, BytesStep
    <2>2. /\ Part(w, ByteShare(tn)', wreg'[w].kind.size) = 0
          /\ Part(w, ByteShare(tn), wreg[w].kind.size) = 0
      BY <1>5 DEF Part
    <2> HIDE DEF k
    <2> QED  BY <1>2, <1>3, <2>1, <2>2
  <1>7. /\ PagesTotal(tn) \in Int
        /\ PagesTotal(tn)' = PagesTotal(tn) + Part(w, PageShare(tn)', 1) - Part(w, PageShare(tn), 1)
    <2>1. Part(k, PageKinds, live[tn][k]) \in Int
      BY <1>3 DEF Part
    <2>2. Part(w, PageShare(tn)', 1) \in Int /\ Part(w, PageShare(tn), 1) \in Int
      BY DEF Part
    <2> HIDE DEF k
    <2> QED  BY <1>1, <1>2, <2>1, <2>2, PagesStep
  <1>8. /\ ChunksTotal(tn) \in Int
        /\ ChunksTotal(tn)' = ChunksTotal(tn) + Part(w, ChunkShare(tn)', 1) - Part(w, ChunkShare(tn), 1)
    <2>1. Part(k, ChunkKinds, live[tn][k]) \in Int
      BY <1>3 DEF Part
    <2>2. Part(w, ChunkShare(tn)', 1) \in Int /\ Part(w, ChunkShare(tn), 1) \in Int
      BY DEF Part
    <2> HIDE DEF k
    <2> QED  BY <1>1, <1>2, <2>1, <2>2, ChunksStep
  <1>9. tstats'[tn].bytes = tstats[tn].bytes
    BY <1>4 DEF CountOne, UncountOne, RecordPages, RecordChunks, ReleasePages, ReleaseChunks,
                TenantCounters
  <1>10. CASE CountOne(w)
    <2>1. /\ w \notin PageShare(tn) /\ w \notin ChunkShare(tn)
          /\ w \in PageShare(tn)' <=> k.page
          /\ w \in ChunkShare(tn)' <=> ~k.page
      BY <1>1, <1>2, <1>4, <1>10, SharesAre DEF CountOne, Goto, CountPcs
    <2>2. CASE k.page
      <3>1. /\ tstats'[tn].pages = FetchAdd(tstats[tn].pages, 1)
            /\ tstats'[tn].chunks = tstats[tn].chunks
        BY <1>4, <1>10, <2>2 DEF CountOne, RecordPages, TenantCounters
      <3>2. PagesTotal(tn)' = PagesTotal(tn) + 1 /\ ChunksTotal(tn)' = ChunksTotal(tn)
        BY <1>7, <1>8, <2>1, <2>2 DEF Part
      <3>3. FetchAdd(PagesTotal(tn) % U64, 1) = (PagesTotal(tn) + 1) % U64
        BY <1>7, FetchMod
      <3> QED  BY <1>6, <1>9, <3>1, <3>2, <3>3 DEF ExactFor
    <2>3. CASE ~k.page
      <3>1. /\ tstats'[tn].chunks = FetchAdd(tstats[tn].chunks, 1)
            /\ tstats'[tn].pages = tstats[tn].pages
        BY <1>4, <1>10, <2>3 DEF CountOne, RecordChunks, TenantCounters
      <3>2. ChunksTotal(tn)' = ChunksTotal(tn) + 1 /\ PagesTotal(tn)' = PagesTotal(tn)
        BY <1>7, <1>8, <2>1, <2>3 DEF Part
      <3>3. FetchAdd(ChunksTotal(tn) % U64, 1) = (ChunksTotal(tn) + 1) % U64
        BY <1>8, FetchMod
      <3> QED  BY <1>6, <1>9, <3>1, <3>2, <3>3 DEF ExactFor
    <2> QED  BY <2>2, <2>3
  <1>11. CASE UncountOne(w)
    <2>1. /\ w \notin PageShare(tn)' /\ w \notin ChunkShare(tn)'
          /\ w \in PageShare(tn) <=> k.page
          /\ w \in ChunkShare(tn) <=> ~k.page
      BY <1>1, <1>2, <1>4, <1>11, SharesAre DEF UncountOne, Goto, CountPcs
    <2>2. CASE k.page
      <3>1. /\ tstats'[tn].pages = FetchSub(tstats[tn].pages, 1)
            /\ tstats'[tn].chunks = tstats[tn].chunks
        BY <1>4, <1>11, <2>2 DEF UncountOne, ReleasePages, TenantCounters
      <3>2. PagesTotal(tn)' = PagesTotal(tn) - 1 /\ ChunksTotal(tn)' = ChunksTotal(tn)
        BY <1>7, <1>8, <2>1, <2>2 DEF Part
      <3>3. FetchSub(PagesTotal(tn) % U64, 1) = (PagesTotal(tn) - 1) % U64
        BY <1>7, FetchMod
      <3> QED  BY <1>6, <1>9, <3>1, <3>2, <3>3 DEF ExactFor
    <2>3. CASE ~k.page
      <3>1. /\ tstats'[tn].chunks = FetchSub(tstats[tn].chunks, 1)
            /\ tstats'[tn].pages = tstats[tn].pages
        BY <1>4, <1>11, <2>3 DEF UncountOne, ReleaseChunks, TenantCounters
      <3>2. ChunksTotal(tn)' = ChunksTotal(tn) - 1 /\ PagesTotal(tn)' = PagesTotal(tn)
        BY <1>7, <1>8, <2>1, <2>3 DEF Part
      <3>3. FetchSub(ChunksTotal(tn) % U64, 1) = (ChunksTotal(tn) - 1) % U64
        BY <1>8, FetchMod
      <3> QED  BY <1>6, <1>9, <3>1, <3>2, <3>3 DEF ExactFor
    <2> QED  BY <2>2, <2>3
  <1> QED  BY <1>10, <1>11

\* bytes_in_use changes by the size, with the share of the call.
LEMMA BytesExact ==
  ASSUME SharingTypeOK, SharingTypeOK', NEW w \in Workers, ExactFor(Ten(w)),
         AddBytes(w) \/ SubtractBytes(w)
  PROVE  \A tn \in Tenants : tn = Ten(w) => ExactFor(tn)'
  <1> SUFFICES ASSUME NEW tn \in Tenants, tn = Ten(w) PROVE ExactFor(tn)'
    OBVIOUS
  <1> DEFINE k == Kind(w)
  <1>1. k \in Kinds /\ wreg'[w].ten = tn /\ wreg'[w].kind = k /\ OnlyMoves(w, tn, k)
    BY InsideFrame
  <1>2. live' = live /\ wreg[w].ten = tn /\ wreg[w].kind = k
    BY DEF AddBytes, SubtractBytes, Ten, Kind
  <1>3. k.size \in Int /\ live[tn][k] \in Int /\ live[tn][k] * k.size \in Int
    BY <1>1, KindFacts DEF SharingTypeOK
  <1>4. wpc \in [Workers -> WorkerPcs] /\ tstats \in [Tenants -> TenantCounters]
    BY DEF SharingTypeOK, TenantTypeOK
  <1>5. /\ w \in PageShare(tn) <=> w \in PageShare(tn)'
        /\ w \in ChunkShare(tn) <=> w \in ChunkShare(tn)'
    BY <1>1, <1>2, <1>4, SharesAre DEF AddBytes, SubtractBytes, Goto, CountPcs
  <1>6. PagesTotal(tn)' = PagesTotal(tn)
    <2>1. /\ Part(w, PageShare(tn)', 1) = Part(w, PageShare(tn), 1)
          /\ Part(w, PageShare(tn), 1) \in Int
          /\ Part(k, PageKinds, live[tn][k]) \in Int
      BY <1>3, <1>5 DEF Part
    <2> HIDE DEF k
    <2> QED  BY <1>1, <1>2, <2>1, PagesStep
  <1>7. ChunksTotal(tn)' = ChunksTotal(tn)
    <2>1. /\ Part(w, ChunkShare(tn)', 1) = Part(w, ChunkShare(tn), 1)
          /\ Part(w, ChunkShare(tn), 1) \in Int
          /\ Part(k, ChunkKinds, live[tn][k]) \in Int
      BY <1>3, <1>5 DEF Part
    <2> HIDE DEF k
    <2> QED  BY <1>1, <1>2, <2>1, ChunksStep
  <1>8. tstats'[tn].pages = tstats[tn].pages /\ tstats'[tn].chunks = tstats[tn].chunks
    BY <1>4 DEF AddBytes, SubtractBytes, RecordBytes, ReleaseBytes, TenantCounters
  <1>9. /\ BytesTotal(tn) \in Int
        /\ BytesTotal(tn)' = BytesTotal(tn) + live'[tn][k] * k.size - live[tn][k] * k.size
             + Part(w, ByteShare(tn)', wreg'[w].kind.size)
             - Part(w, ByteShare(tn), wreg[w].kind.size)
    BY <1>1, BytesStep
  <1>10. CASE AddBytes(w)
    <2>1. w \notin ByteShare(tn) /\ w \in ByteShare(tn)'
      BY <1>1, <1>4, <1>10, SharesAre DEF AddBytes, Goto, BytePcs
    <2>2. /\ Part(w, ByteShare(tn)', wreg'[w].kind.size) = k.size
          /\ Part(w, ByteShare(tn), wreg[w].kind.size) = 0
      BY <1>1, <2>1 DEF Part
    <2>3. BytesTotal(tn)' = BytesTotal(tn) + k.size
      <3> HIDE DEF k
      <3> QED  BY <1>2, <1>3, <1>9, <2>2
    <2>4. tstats'[tn].bytes = FetchAdd(tstats[tn].bytes, k.size)
      BY <1>4, <1>10 DEF AddBytes, RecordBytes, TenantCounters
    <2>5. FetchAdd(BytesTotal(tn) % U64, k.size) = (BytesTotal(tn) + k.size) % U64
      BY <1>3, <1>9, FetchMod
    <2> QED  BY <1>6, <1>7, <1>8, <2>3, <2>4, <2>5 DEF ExactFor
  <1>11. CASE SubtractBytes(w)
    <2>1. w \in ByteShare(tn) /\ w \notin ByteShare(tn)'
      BY <1>2, <1>4, <1>11, SharesAre DEF SubtractBytes, Goto, BytePcs
    <2>2. /\ Part(w, ByteShare(tn)', wreg'[w].kind.size) = 0
          /\ Part(w, ByteShare(tn), wreg[w].kind.size) = k.size
      BY <1>2, <2>1 DEF Part
    <2>3. BytesTotal(tn)' = BytesTotal(tn) - k.size
      <3> HIDE DEF k
      <3> QED  BY <1>2, <1>3, <1>9, <2>2
    <2>4. tstats'[tn].bytes = FetchSub(tstats[tn].bytes, k.size)
      BY <1>4, <1>11 DEF SubtractBytes, ReleaseBytes, TenantCounters
    <2>5. FetchSub(BytesTotal(tn) % U64, k.size) = (BytesTotal(tn) - k.size) % U64
      BY <1>3, <1>9, FetchMod
    <2> QED  BY <1>6, <1>7, <1>8, <2>3, <2>4, <2>5 DEF ExactFor
  <1> QED  BY <1>10, <1>11

\* The peak is not one of these counters; the end of the call hands over.
LEMMA PeakExact ==
  ASSUME SharingTypeOK, SharingTypeOK', NEW w \in Workers, ExactFor(Ten(w)),
         NewPeak(w) \/ NoNewPeak(w) \/ RecordPeak(w)
  PROVE  \A tn \in Tenants : tn = Ten(w) => ExactFor(tn)'
  <1> SUFFICES ASSUME NEW tn \in Tenants, tn = Ten(w) PROVE ExactFor(tn)'
    OBVIOUS
  <1> DEFINE k == Kind(w)
  <1>1. k \in Kinds /\ wreg'[w].ten = tn /\ wreg'[w].kind = k /\ OnlyMoves(w, tn, k)
    BY InsideFrame
  <1>2. wreg[w].ten = tn /\ wreg[w].kind = k /\ ExactFor(tn)
    BY DEF Ten, Kind
  <1>3. /\ wpc \in [Workers -> WorkerPcs] /\ tstats \in [Tenants -> TenantCounters]
        /\ live \in [Tenants -> [Kinds -> Nat]]
    BY DEF SharingTypeOK, TenantTypeOK
  <1>4. /\ tstats'[tn].bytes = tstats[tn].bytes /\ tstats'[tn].pages = tstats[tn].pages
        /\ tstats'[tn].chunks = tstats[tn].chunks
    BY <1>3 DEF NewPeak, NoNewPeak, RecordPeak, StorePeak, TenantCounters
  <1>5. CASE NewPeak(w)
    <2>1. live'[tn][k] = live[tn][k] /\ wpc[w] = "peak" /\ wpc'[w] = "store"
      BY <1>3, <1>5 DEF NewPeak, Goto
    <2>2. /\ w \in ByteShare(tn) /\ w \in ByteShare(tn)' /\ wreg'[w].kind = wreg[w].kind
          /\ w \in PageShare(tn) <=> w \in PageShare(tn)'
          /\ w \in ChunkShare(tn) <=> w \in ChunkShare(tn)'
      BY <1>1, <1>2, <2>1, SharesAre DEF BytePcs, CountPcs
    <2> HIDE DEF k
    <2> QED  BY <1>1, <1>2, <1>4, <2>1, <2>2, Elsewhere
  <1>6. CASE NoNewPeak(w) \/ RecordPeak(w)
    <2>1. live'[tn][k] = live[tn][k] + 1
      BY <1>1, <1>3, <1>6 DEF NoNewPeak, RecordPeak, Deliver
    <2>2. wpc[w] \in {"peak", "store"} /\ wpc'[w] = "idle"
      BY <1>3, <1>6 DEF NoNewPeak, RecordPeak, Goto
    <2> HIDE DEF k
    <2> QED  BY <1>1, <1>2, <1>4, <2>1, <2>2, Exchange
  <1> QED  BY <1>5, <1>6

\* A call begins: so far it counts only towards the lifetime counters.
LEMMA BeginAllocateExact ==
  ASSUME SharingTypeOK, SharingTypeOK', NEW w \in Workers, NEW own \in Tenants, NEW k \in Kinds,
         BeginAllocate(w, own, k), NEW tn \in Tenants, ExactFor(tn)
  PROVE  ExactFor(tn)'
  <1>1. /\ wpc \in [Workers -> WorkerPcs] /\ tstats \in [Tenants -> TenantCounters]
        /\ wreg \in [Workers -> CallType]
    BY DEF SharingTypeOK, TenantTypeOK, CallType
  <1>2. OnlyMoves(w, tn, k) /\ live'[tn][k] = live[tn][k]
    BY <1>1 DEF BeginAllocate, Goto, OnlyMoves
  <1>3. /\ tstats'[tn].bytes = tstats[tn].bytes /\ tstats'[tn].pages = tstats[tn].pages
        /\ tstats'[tn].chunks = tstats[tn].chunks
    BY <1>1 DEF BeginAllocate, RecordTotal, RecordTotalChunks, TenantCounters
  <1>4. /\ w \notin ByteShare(tn) /\ w \notin ByteShare(tn)'
        /\ w \notin PageShare(tn) /\ w \notin PageShare(tn)'
        /\ w \notin ChunkShare(tn) /\ w \notin ChunkShare(tn)'
    BY <1>1, SharesAre DEF BeginAllocate, Goto, BytePcs, CountPcs
  <1> QED  BY <1>2, <1>3, <1>4, Elsewhere

\* A drop begins: it takes a handle.
LEMMA BeginReleaseExact ==
  ASSUME SharingTypeOK, SharingTypeOK', NEW w \in Workers, NEW own \in Tenants, NEW k \in Kinds,
         BeginRelease(w, own, k), NEW tn \in Tenants, ExactFor(tn)
  PROVE  ExactFor(tn)'
  <1>1. /\ wpc \in [Workers -> WorkerPcs] /\ live \in [Tenants -> [Kinds -> Nat]]
        /\ wreg \in [Workers -> CallType]
    BY DEF SharingTypeOK, CallType
  <1>2. /\ OnlyMoves(w, tn, k) /\ tstats' = tstats
        /\ wpc[w] = "idle" /\ wpc'[w] = "rel_bytes" /\ wreg'[w].ten = own /\ wreg'[w].kind = k
    BY <1>1 DEF BeginRelease, Goto, OnlyMoves
  <1>3. CASE tn = own
    <2>1. live'[tn][k] = live[tn][k] - 1
      BY <1>1, <1>3 DEF BeginRelease
    <2> QED  BY <1>2, <1>3, <2>1, Exchange
  <1>4. CASE tn # own
    <2>1. live'[tn][k] = live[tn][k]
      BY <1>1, <1>4 DEF BeginRelease
    <2>2. /\ w \notin ByteShare(tn) /\ w \notin ByteShare(tn)'
          /\ w \notin PageShare(tn) /\ w \notin PageShare(tn)'
          /\ w \notin ChunkShare(tn) /\ w \notin ChunkShare(tn)'
      BY <1>2, <1>4, SharesAre DEF BytePcs, CountPcs
    <2> QED  BY <1>2, <2>1, <2>2, Elsewhere
  <1> QED  BY <1>3, <1>4

\* Every step keeps the counters exact.
LEMMA ExactForNext ==
  ASSUME SharingTypeOK, SharingTypeOK', \A tn \in Tenants : ExactFor(tn), [SharingNext]_svars
  PROVE  \A tn \in Tenants : ExactFor(tn)'
  <1> SUFFICES ASSUME NEW tn \in Tenants PROVE ExactFor(tn)'
    OBVIOUS
  <1>1. CASE UNCHANGED svars
    BY <1>1 DEF svars, ExactFor, BytesTotal, PagesTotal, ChunksTotal, ByteShare, PageShare,
                ChunkShare, Pending, Inside, Ten, Kind
  <1>2. ASSUME NEW w \in Workers, NEW own \in Tenants, NEW k \in Kinds,
               BeginAllocate(w, own, k) \/ BeginRelease(w, own, k)
        PROVE  ExactFor(tn)'
    BY <1>2, BeginAllocateExact, BeginReleaseExact
  <1>3. ASSUME NEW w \in Workers,
               \/ CountOne(w) \/ AddBytes(w) \/ NewPeak(w) \/ NoNewPeak(w) \/ RecordPeak(w)
               \/ SubtractBytes(w) \/ UncountOne(w)
        PROVE  ExactFor(tn)'
    <2>1. CASE tn # Ten(w)
      BY <1>3, <2>1, OtherTenant
    <2>2. CASE tn = Ten(w)
      <3>1. ExactFor(Ten(w))
        BY <2>2
      <3> QED  BY <1>3, <2>2, <3>1, CountOneExact, BytesExact, PeakExact
    <2> QED  BY <2>1, <2>2
  <1>4. ASSUME NEW w \in Workers, WorkerStep(w) PROVE ExactFor(tn)'
    BY <1>2, <1>3, <1>4 DEF WorkerStep
  <1> QED  BY <1>1, <1>4 DEF SharingNext, Stopped

\* Nothing live, nobody inside a call.
LEMMA ExactForInit == ASSUME SharingInit, NEW tn \in Tenants PROVE ExactFor(tn)
  <1>1. ByteShare(tn) = {} /\ PageShare(tn) = {} /\ ChunkShare(tn) = {}
    BY DEF SharingInit, ByteShare, PageShare, ChunkShare, Pending, Inside, BytePcs
  <1>2. Cardinality({}) = 0
    BY FS_EmptySet
  <1>3. SumFunctionOnSet([w \in Workers |-> Kind(w).size], {}) = 0
    BY SumEmpty
  <1>4. SumFunctionOnSet([k \in Kinds |-> live[tn][k] * k.size], Kinds) = 0
    <2> DEFINE f == [k \in Kinds |-> live[tn][k] * k.size]
    <2>1. IsFiniteSet(Kinds)
      BY KindsFinite
    <2>2. \A k \in Kinds : f[k] = 0
      <3>1. \A k \in Kinds : live[tn][k] = 0 /\ k.size \in Int
        BY KindFacts DEF SharingInit
      <3> QED  BY <3>1
    <2> HIDE DEF f
    <2>3. SumFunctionOnSet(f, Kinds) = 0
      BY <2>1, <2>2, SumZero
    <2> QED  BY <2>3 DEF f
  <1>5. SumFunctionOnSet(live[tn], PageKinds) = 0 /\ SumFunctionOnSet(live[tn], ChunkKinds) = 0
    <2>1. (\A k \in PageKinds : live[tn][k] = 0) /\ (\A k \in ChunkKinds : live[tn][k] = 0)
      BY DEF SharingInit, PageKinds, ChunkKinds
    <2>2. IsFiniteSet(PageKinds) /\ IsFiniteSet(ChunkKinds)
      BY KindsFinite
    <2> QED  BY <2>1, <2>2, SumZero
  <1>6. tstats[tn].bytes = 0 /\ tstats[tn].pages = 0 /\ tstats[tn].chunks = 0
    BY DEF SharingInit, TenantInit
  <1>7. 0 % U64 = 0
    BY U64Assumption
  <1>8. BytesTotal(tn) = 0
    BY <1>1, <1>3, <1>4 DEF BytesTotal
  <1>9. PagesTotal(tn) = 0 /\ ChunksTotal(tn) = 0
    BY <1>1, <1>2, <1>5 DEF PagesTotal, ChunksTotal
  <1> QED  BY <1>6, <1>7, <1>8, <1>9 DEF ExactFor

\* However many workers allocate and drop for a tenant at the same time, in
\* whatever order their atomic accesses interleave, bytes_in_use, pages_in_use
\* and chunks_in_use count what is alive and what the calls in progress have
\* added already or not subtracted yet.
THEOREM SharedExact == SharingSpec => []SharedCountsExact
  <1> DEFINE I == \A tn \in Tenants : ExactFor(tn)
  <1>1. SharingInit => I
    BY ExactForInit
  <1>2. SharingTypeOK /\ SharingTypeOK' /\ I /\ [SharingNext]_svars => I'
    BY ExactForNext
  <1>3. I => SharedCountsExact
    BY ExactForIs
  <1> HIDE DEF I
  <1> QED  BY <1>1, <1>2, <1>3, SharingTypes, PTL DEF SharingSpec
=============================================================================
