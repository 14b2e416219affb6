--------------------------- MODULE TenantSharing ---------------------------
(***************************************************************************)
(* Clones of one Tenant used by several workers, each with a pool of its   *)
(* own: the record_* functions of TenantStats run concurrently, one atomic *)
(* access per step.  The pools themselves are left out; what is allocated  *)
(* is only counted.                                                        *)
(***************************************************************************)
EXTENDS TenantStats, FiniteSetsExt

CONSTANTS
  Workers,     \* threads that allocate or drop
  PageBytes,   \* page_size of the pools
  ChunkSizes,  \* sizes of chunks
  MaxTotal     \* bound: lifetime allocations of a tenant

ASSUME SharingAssumption ==
  /\ PageBytes \in Nat \ {0}
  /\ ChunkSizes \subseteq Nat /\ IsFiniteSet(ChunkSizes)   \* sizes are usize values
  /\ IsFiniteSet(Workers) /\ Tenants # {}   \* there is a Tenant that they share
  /\ MaxTotal \in Nat

\* What can be allocated: a page, or a chunk of some size.
Kinds == {[page |-> TRUE, size |-> PageBytes]} \cup {[page |-> FALSE, size |-> n] : n \in ChunkSizes}

VARIABLES
  wpc,    \* [Workers -> place inside a record_* function, or "idle"]
  wreg,   \* [Workers -> tenant, kind and new_bytes of that call]
  live    \* [Tenants -> [Kinds -> number of live allocations]]

svars == <<wpc, wreg, live, tstats>>

WorkerPcs == {"idle", "count", "bytes", "peak", "store", "rel_bytes", "rel_count"}

\* Every variable has its type; in particular no tenant has fewer than no
\* allocations, since a handle is dropped once.
SharingTypeOK ==
  /\ wpc \in [Workers -> WorkerPcs]
  /\ wreg \in [Workers -> [ten : Tenants, kind : Kinds, new : Counter]]
  /\ live \in [Tenants -> [Kinds -> Nat]]
  /\ TenantTypeOK

NoCall == CHOOSE r \in [ten : Tenants, kind : Kinds, new : {0}] : TRUE

SharingInit ==
  /\ wpc = [w \in Workers |-> "idle"]
  /\ wreg = [w \in Workers |-> NoCall]
  /\ live = [tn \in Tenants |-> [k \in Kinds |-> 0]]
  /\ TenantInit

Goto(w, from, to) == wpc[w] = from /\ wpc' = [wpc EXCEPT ![w] = to]
Ten(w)  == wreg[w].ten
Kind(w) == wreg[w].kind

\* record_allocate or record_chunk_allocate: the lifetime counter.
BeginAllocate(w, tn, k) ==
  /\ Goto(w, "idle", "count")
  /\ tstats[tn].total + tstats[tn].total_chunks < MaxTotal
  /\ wreg' = [wreg EXCEPT ![w] = [ten |-> tn, kind |-> k, new |-> 0]]
  /\ IF k.page THEN RecordTotal(tn) ELSE RecordTotalChunks(tn)
  /\ UNCHANGED live

CountOne(w) ==
  /\ Goto(w, "count", "bytes")
  /\ IF Kind(w).page THEN RecordPages(Ten(w)) ELSE RecordChunks(Ten(w))
  /\ UNCHANGED <<wreg, live>>

AddBytes(w) ==
  /\ Goto(w, "bytes", "peak")
  /\ RecordBytes(Ten(w), Kind(w).size)
  /\ wreg' = [wreg EXCEPT ![w].new = NewBytes(Ten(w), Kind(w).size)]
  /\ UNCHANGED live

\* The allocation is handed to the caller.
Deliver(w) == live' = [live EXCEPT ![Ten(w)][Kind(w)] = @ + 1]

NewPeak(w) ==
  /\ Goto(w, "peak", "store")
  /\ AbovePeak(Ten(w), wreg[w].new)
  /\ UNCHANGED <<wreg, live, tstats>>

NoNewPeak(w) ==
  /\ Goto(w, "peak", "idle")
  /\ ~AbovePeak(Ten(w), wreg[w].new)
  /\ Deliver(w)
  /\ UNCHANGED <<wreg, tstats>>

RecordPeak(w) ==
  /\ Goto(w, "store", "idle")
  /\ StorePeak(Ten(w), wreg[w].new)
  /\ Deliver(w)
  /\ UNCHANGED wreg

\* Mutant: a handle can be dropped twice.
BeginReleaseTwice(w, tn, k) ==
  /\ Goto(w, "idle", "rel_bytes")
  /\ live' = [live EXCEPT ![tn][k] = @ - 1]
  /\ wreg' = [wreg EXCEPT ![w] = [ten |-> tn, kind |-> k, new |-> 0]]
  /\ UNCHANGED tstats

\* record_release or record_chunk_release, on whichever worker drops.
BeginRelease(w, tn, k) ==
  /\ Goto(w, "idle", "rel_bytes")
  /\ live[tn][k] > 0
  /\ live' = [live EXCEPT ![tn][k] = @ - 1]
  /\ wreg' = [wreg EXCEPT ![w] = [ten |-> tn, kind |-> k, new |-> 0]]
  /\ UNCHANGED tstats

SubtractBytes(w) ==
  /\ Goto(w, "rel_bytes", "rel_count")
  /\ ReleaseBytes(Ten(w), Kind(w).size)
  /\ UNCHANGED <<wreg, live>>

\* Mutant: record_chunk_release decrements pages_in_use.
UncountAsPage(w) ==
  /\ Goto(w, "rel_count", "idle")
  /\ ReleasePages(Ten(w))
  /\ UNCHANGED <<wreg, live>>

UncountOne(w) ==
  /\ Goto(w, "rel_count", "idle")
  /\ IF Kind(w).page THEN ReleasePages(Ten(w)) ELSE ReleaseChunks(Ten(w))
  /\ UNCHANGED <<wreg, live>>

WorkerStep(w) ==
  \/ \E tn \in Tenants, k \in Kinds : BeginAllocate(w, tn, k) \/ BeginRelease(w, tn, k)
  \/ CountOne(w) \/ AddBytes(w) \/ NewPeak(w) \/ NoNewPeak(w) \/ RecordPeak(w)
  \/ SubtractBytes(w) \/ UncountOne(w)

\* No worker has anything more to do.
Stopped == (\A w \in Workers : wpc[w] = "idle") /\ UNCHANGED svars

SharingNext == (\E w \in Workers : WorkerStep(w)) \/ Stopped

SharingSpec == SharingInit /\ [][SharingNext]_svars

-----------------------------------------------------------------------------
\* Workers inside a call for tn that the counter in question already, or
\* still, includes.
Inside(tn, S) == {w \in Workers : wpc[w] \in S /\ Ten(w) = tn}

PageKinds == {k \in Kinds : k.page}
Pending(tn) == Inside(tn, {"bytes", "peak", "store", "rel_bytes", "rel_count"})

\* Every update of the in-use counters is one atomic addition, so however
\* many pools a tenant is used with, they count exactly what is alive.
SharedCountsExact ==
  \A tn \in Tenants :
    /\ tstats[tn].bytes =
         (SumFunctionOnSet([k \in Kinds |-> live[tn][k] * k.size], Kinds)
           + SumFunctionOnSet([w \in Workers |-> Kind(w).size],
                              Inside(tn, {"peak", "store", "rel_bytes"}))) % U64
    /\ tstats[tn].pages =
         (SumFunctionOnSet(live[tn], PageKinds)
           + Cardinality({w \in Pending(tn) : Kind(w).page})) % U64
    /\ tstats[tn].chunks =
         (SumFunctionOnSet(live[tn], Kinds \ PageKinds)
           + Cardinality({w \in Pending(tn) : ~Kind(w).page})) % U64

\* "high-water mark of bytes_in_use" (docs/design.md:513): when no call is in
\* progress the peak is at least the bytes in use.
PeakIsHighWater ==
  (\A w \in Workers : wpc[w] = "idle") =>
    \A tn \in Tenants : tstats[tn].peak >= tstats[tn].bytes
=============================================================================
