---------------------------- MODULE TenantStats ----------------------------
(***************************************************************************)
(* TenantStats of src/src/tenant.rs: the per-tenant counters, and one      *)
(* operator per atomic access of the four record_* functions.              *)
(*                                                                         *)
(* Every access in the code is a separate relaxed atomic operation, so the *)
(* modules that call record_* take one of these operators per step and     *)
(* other threads run in between.  The counters are u64: they wrap at U64.  *)
(***************************************************************************)
EXTENDS Integers

CONSTANTS
  Tenants,   \* the Tenant handles; clones of a Tenant share one TenantStats
  U64        \* modulus of the counters: 2^64 in the code

ASSUME U64Assumption == U64 \in Nat \ {0}

VARIABLE tstats   \* [Tenants -> the six counters of TenantStats]

Counter == 0 .. U64 - 1

TenantCounters ==
  [bytes : Counter, pages : Counter, total : Counter,
   peak : Counter, chunks : Counter, total_chunks : Counter]

TenantTypeOK == tstats \in [Tenants -> TenantCounters]

\* AtomicU64::fetch_add and fetch_sub, which wrap on overflow.
FetchAdd(x, n) == (x + n) % U64
FetchSub(x, n) == (x - n) % U64

TenantInit ==
  tstats = [tn \in Tenants |-> [bytes |-> 0, pages |-> 0, total |-> 0,
                                peak |-> 0, chunks |-> 0, total_chunks |-> 0]]

-----------------------------------------------------------------------------
(* record_allocate(page_bytes)                                             *)
RecordTotal(tn) == tstats' = [tstats EXCEPT ![tn].total = FetchAdd(@, 1)]
RecordPages(tn) == tstats' = [tstats EXCEPT ![tn].pages = FetchAdd(@, 1)]

\* Both record_allocate and record_chunk_allocate: the bytes are added, the
\* value after the addition is new_bytes ...
RecordBytes(tn, n) == tstats' = [tstats EXCEPT ![tn].bytes = FetchAdd(@, n)]

\* Mutant: new_bytes is the value fetch_add returns, without "+ page_bytes".
NewBytesOld(tn, n) == tstats[tn].bytes
NewBytes(tn, n)    == FetchAdd(tstats[tn].bytes, n)

\* ... and the peak is raised by a load, a comparison and a later store.
\* Mutant: the peak follows every change.
PeakDiffers(tn, new) == new # tstats[tn].peak
AbovePeak(tn, new) == new > tstats[tn].peak
StorePeak(tn, new) == tstats' = [tstats EXCEPT ![tn].peak = new]

(* record_release(page_bytes), and the first step of record_chunk_release  *)
ReleaseBytes(tn, n) == tstats' = [tstats EXCEPT ![tn].bytes = FetchSub(@, n)]
ReleasePages(tn)    == tstats' = [tstats EXCEPT ![tn].pages = FetchSub(@, 1)]

(* record_chunk_allocate(chunk_bytes) and record_chunk_release             *)
RecordTotalChunks(tn) ==
  tstats' = [tstats EXCEPT ![tn].total_chunks = FetchAdd(@, 1)]
RecordChunks(tn)  == tstats' = [tstats EXCEPT ![tn].chunks = FetchAdd(@, 1)]
ReleaseChunks(tn) == tstats' = [tstats EXCEPT ![tn].chunks = FetchSub(@, 1)]
=============================================================================
