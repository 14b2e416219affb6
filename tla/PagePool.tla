------------------------------ MODULE PagePool ------------------------------
(***************************************************************************)
(* One PagePool (src/src/pool.rs) together with the Page / PageBuilder     *)
(* handles it gives out (src/src/page.rs) and the tenants it records       *)
(* (src/src/tenant.rs), at the grain of the code's atomic operations.      *)
(*                                                                         *)
(* The pool is used through &mut self, so one thread at a time is inside a *)
(* pool operation, but it is Send: which thread may change between         *)
(* operations.  Page handles are dropped by any thread, at any time.       *)
(*                                                                         *)
(* A buffer's first word holds user data while a page owns it and the next *)
(* pointer of an intrusive list while the pool owns it.  A zeroed word is  *)
(* the null pointer.                                                       *)
(***************************************************************************)
EXTENDS TenantStats, FiniteSets

CONSTANTS
  Threads,        \* threads of the program
  Bufs,           \* addresses of the buffers the source can produce
  Scrapers,       \* clones of Arc<PoolShared> taken through PagePool::shared
  Data,           \* values user code writes into a buffer's first word
  NULL,           \* the null pointer, and a zeroed first word
  POOL,           \* the Arc<PoolShared> held by the PagePool itself
  PageSize,       \* page_size, the bytes a page is accounted for
  SourceMayFail,  \* TRUE: source.allocate may panic (mmap); FALSE: it aborts
  MaxAllocs,      \* bound: allocate calls per tenant
  MaxRefs,        \* bound: clones of one sealed page
  MaxPrewarm,     \* bound: num_pages of one prewarm call
  MaxHeap         \* bound: allocate and prewarm start only below it

ASSUME PoolAssumption ==
  /\ IsFiniteSet(Bufs) /\ IsFiniteSet(Threads)
  /\ NULL \notin Bufs \cup Data \cup Tenants
  /\ Data \cap Bufs = {}
  /\ POOL \notin Bufs \cup Threads \cup Scrapers
  /\ Bufs \cap (Threads \cup Scrapers) = {} /\ Threads \cap Scrapers = {}
  /\ PageSize \in Nat \ {0}
  /\ SourceMayFail \in BOOLEAN
  /\ MaxAllocs \in Nat /\ MaxRefs \in Nat /\ MaxPrewarm \in Nat /\ MaxHeap \in Nat

VARIABLES
  pc,           \* [Threads -> where in the code the thread is]
  reg,          \* [Threads -> the locals of the function it is in]
  local_head,   \* PagePool::local_head
  return_head,  \* PoolShared::return_head
  word,         \* [Bufs -> first word of the buffer]
  mapped,       \* buffers the source has allocated and not yet released
  page,         \* [Bufs -> the PageBuilder or PageInner owning the buffer]
  strong,       \* the live Arc<PoolShared> handles, by who holds them
  pstats        \* PoolStats

lists == <<local_head, return_head, word, mapped>>
vars  == <<pc, reg, lists, page, strong, pstats, tstats>>

-----------------------------------------------------------------------------
(* Program locations, by the operation they belong to.                     *)

AcquirePcs == {"pop_local", "drained", "fresh", "source"}   \* no buffer yet
RecordPcs  == {"ra_total", "ra_pages", "ra_bytes", "ra_peak", "ra_store"}
PrewarmPcs == {"prewarm", "pw_heap", "pw_free", "pw_count"}
PushPcs    == {"rr_bytes", "rr_pages", "push", "cas"}       \* buffer still ours
PushedPcs  == {"push_in_use", "push_free", "arc_drop"}      \* buffer handed over
SharedDropPcs == {"shared_swap", "shared_drop"}

\* Locations inside an &mut self operation (or the drop) of the PagePool.
PoolPcs == AcquirePcs \cup {"in_use"} \cup RecordPcs \cup PrewarmPcs \cup {"pool_drop"}
\* Locations inside PageBuilder::drop or PageInner::drop.
DropPcs == PushPcs \cup PushedPcs
\* Locations where reg[t].buf is owned by the thread alone.
HoldPcs == {"in_use"} \cup RecordPcs \cup PushPcs

Pcs == {"idle"} \cup PoolPcs \cup DropPcs \cup SharedDropPcs

Ptr     == Bufs \cup {NULL}
Handles == {POOL} \cup Bufs \cup Threads \cup Scrapers
NoReg   == [buf |-> NULL, head |-> NULL, ten |-> NULL, n |-> 0, i |-> 0]
NoPage  == [st |-> "none", refs |-> 0, ten |-> NULL]

Regs       == [buf : Ptr, head : Ptr, ten : Tenants \cup {NULL}, n : Nat, i : Nat]
PageStates == [st : {"none", "builder", "sealed"}, refs : Nat,
               ten : Tenants \cup {NULL}]
PoolStats  == [heap : Counter, in_use : Counter, free : Counter,
               drains : Counter, prewarmed : Counter]

\* Every variable has its type.  A buffer's first word may hold user data, and
\* the heads never do: the pool reads no data as a pointer.
TypeOK ==
  /\ pc \in [Threads -> Pcs]
  /\ reg \in [Threads -> Regs]
  /\ local_head \in Ptr
  /\ return_head \in Ptr
  /\ word \in [Bufs -> Ptr \cup Data]
  /\ mapped \in SUBSET Bufs
  /\ page \in [Bufs -> PageStates]
  /\ strong \in SUBSET Handles
  /\ pstats \in PoolStats
  /\ TenantTypeOK

\* PagePool::with_source: a pool with no buffer, and the only strong handle.
Init ==
  /\ pc = [t \in Threads |-> "idle"]
  /\ reg = [t \in Threads |-> NoReg]
  /\ local_head = NULL
  /\ return_head = NULL
  /\ word = [b \in Bufs |-> NULL]
  /\ mapped = {}
  /\ page = [b \in Bufs |-> NoPage]
  /\ strong = {POOL}
  /\ pstats = [heap |-> 0, in_use |-> 0, free |-> 0, drains |-> 0, prewarmed |-> 0]
  /\ TenantInit

-----------------------------------------------------------------------------
(* Helpers.                                                                *)

Transition(t, from, to) == pc[t] = from /\ pc' = [pc EXCEPT ![t] = to]

\* &mut self: the pool exists and no thread is inside one of its operations.
PoolFree == POOL \in strong /\ \A t \in Threads : pc[t] \notin PoolPcs

\* source.allocate(): an address not in use, zero-filled.
SourceAllocate(b) == b \in Bufs \ mapped /\ mapped' = mapped \cup {b}

\* source.release(b)
SourceRelease(b) == mapped' = mapped \ {b}

\* Mutant: PoolShared has no Drop impl, the return queue is never released.
DropArcNoDrop(t, from, h) ==
  /\ strong' = strong \ {h}
  /\ Transition(t, from, "idle")
  /\ reg' = [reg EXCEPT ![t] = NoReg]

\* Thread t drops the Arc<PoolShared> handle h; the last one runs
\* PoolShared::drop on the same thread.
DropArc(t, from, h) ==
  /\ Transition(t, from, IF strong \ {h} = {} THEN "shared_swap" ELSE "idle")
  /\ strong' = strong \ {h}
  /\ reg' = [reg EXCEPT ![t] = NoReg]

\* Bounds of the model: counters, and the finite set of addresses.
AllocBound(tn) ==
  /\ tstats[tn].total < MaxAllocs
  /\ pstats.heap < MaxHeap
  /\ local_head # NULL \/ return_head # NULL \/ mapped # Bufs
PrewarmBound(n) ==
  /\ pstats.heap + n <= MaxHeap
  /\ n <= Cardinality(Bufs \ mapped)

-----------------------------------------------------------------------------
(* PagePool::allocate(tenant): allocate_raw_page, then record_allocate.    *)

\* Mutant: a Sync pool, allocate through &self from several threads.
AllocateShared(t, tn) ==
  /\ POOL \in strong
  /\ AllocBound(tn)
  /\ Transition(t, "idle", "pop_local")
  /\ reg' = [reg EXCEPT ![t].ten = tn]
  /\ UNCHANGED <<lists, page, strong, pstats, tstats>>

Allocate(t, tn) ==
  /\ PoolFree
  /\ AllocBound(tn)
  /\ Transition(t, "idle", "pop_local")
  /\ reg' = [reg EXCEPT ![t].ten = tn]
  /\ UNCHANGED <<lists, page, strong, pstats, tstats>>

\* Mutant: pop_local forgets free_pages -= 1.
PopLocalUncounted(t) ==
  /\ Transition(t, "pop_local", "in_use")
  /\ local_head # NULL
  /\ reg' = [reg EXCEPT ![t].buf = local_head]
  /\ local_head' = word[local_head]
  /\ UNCHANGED <<return_head, word, mapped, page, strong, pstats, tstats>>

\* pop_local finds a buffer: unlink it, then free_pages -= 1.
PopLocal(t) ==
  /\ Transition(t, "pop_local", "in_use")
  /\ local_head # NULL
  /\ reg' = [reg EXCEPT ![t].buf = local_head]
  /\ local_head' = word[local_head]
  /\ pstats' = [pstats EXCEPT !.free = FetchSub(@, 1)]
  /\ UNCHANGED <<return_head, word, mapped, page, strong, tstats>>

\* Mutant: the queue is read with a load instead of swapped out.
DrainByLoad(t) ==
  /\ Transition(t, "pop_local", IF return_head = NULL THEN "fresh" ELSE "drained")
  /\ local_head = NULL
  /\ local_head' = return_head
  /\ UNCHANGED <<return_head, reg, word, mapped, page, strong, pstats, tstats>>

\* Mutant: an empty local list goes straight to the source.
DrainSkipped(t) ==
  /\ Transition(t, "pop_local", "fresh")
  /\ local_head = NULL
  /\ UNCHANGED <<local_head, return_head, reg, word, mapped, page, strong, pstats, tstats>>

\* pop_local finds nothing; drain_return_queue swaps the whole queue out.
DrainReturnQueue(t) ==
  /\ Transition(t, "pop_local", IF return_head = NULL THEN "fresh" ELSE "drained")
  /\ local_head = NULL
  /\ local_head' = return_head
  /\ return_head' = NULL
  /\ UNCHANGED <<reg, word, mapped, page, strong, pstats, tstats>>

CountDrain(t) ==
  /\ Transition(t, "drained", "pop_local")
  /\ pstats' = [pstats EXCEPT !.drains = FetchAdd(@, 1)]
  /\ UNCHANGED <<reg, lists, page, strong, tstats>>

\* allocate_fresh counts first and calls the source afterwards.
CountFresh(t) ==
  /\ Transition(t, "fresh", "source")
  /\ pstats' = [pstats EXCEPT !.heap = FetchAdd(@, 1)]
  /\ UNCHANGED <<reg, lists, page, strong, tstats>>

AllocateFresh(t, b) ==
  /\ Transition(t, "source", "in_use")
  /\ SourceAllocate(b)
  /\ reg' = [reg EXCEPT ![t].buf = b]
  /\ word' = [word EXCEPT ![b] = NULL]
  /\ UNCHANGED <<local_head, return_head, page, strong, pstats, tstats>>

\* The source panics: allocate unwinds, the pool stays usable.
AllocatePanics(t) ==
  /\ Transition(t, "source", "idle")
  /\ SourceMayFail
  /\ reg' = [reg EXCEPT ![t] = NoReg]
  /\ UNCHANGED <<lists, page, strong, pstats, tstats>>

\* pages_in_use += 1, and the clone of Arc<PoolShared> for the new handle.
CountInUse(t) ==
  /\ Transition(t, "in_use", "ra_total")
  /\ pstats' = [pstats EXCEPT !.in_use = FetchAdd(@, 1)]
  /\ strong' = strong \cup {reg[t].buf}
  /\ UNCHANGED <<reg, lists, page, tstats>>

CountTotal(t) ==
  /\ Transition(t, "ra_total", "ra_pages")
  /\ RecordTotal(reg[t].ten)
  /\ UNCHANGED <<reg, lists, page, strong, pstats>>

CountPages(t) ==
  /\ Transition(t, "ra_pages", "ra_bytes")
  /\ RecordPages(reg[t].ten)
  /\ UNCHANGED <<reg, lists, page, strong, pstats>>

CountBytes(t) ==
  /\ Transition(t, "ra_bytes", "ra_peak")
  /\ RecordBytes(reg[t].ten, PageSize)
  /\ reg' = [reg EXCEPT ![t].n = NewBytes(reg[t].ten, PageSize)]
  /\ UNCHANGED <<lists, page, strong, pstats>>

\* PageBuilder::new: the caller now owns the buffer through a builder.
GiveBuilder(t) ==
  /\ page' = [page EXCEPT ![reg[t].buf] =
                [st |-> "builder", refs |-> 0, ten |-> reg[t].ten]]
  /\ reg' = [reg EXCEPT ![t] = NoReg]

RaisePeak(t) ==
  /\ Transition(t, "ra_peak", "ra_store")
  /\ AbovePeak(reg[t].ten, reg[t].n)
  /\ UNCHANGED <<reg, lists, page, strong, pstats, tstats>>

KeepPeak(t) ==
  /\ Transition(t, "ra_peak", "idle")
  /\ ~AbovePeak(reg[t].ten, reg[t].n)
  /\ GiveBuilder(t)
  /\ UNCHANGED <<lists, strong, pstats, tstats>>

WritePeak(t) ==
  /\ Transition(t, "ra_store", "idle")
  /\ StorePeak(reg[t].ten, reg[t].n)
  /\ GiveBuilder(t)
  /\ UNCHANGED <<lists, strong, pstats>>

-----------------------------------------------------------------------------
(* PageBuilder and Page.  A handle is Send: any thread may be the caller.   *)

\* Mutant: a sealed page can still be written through.
WriteSealed(b, d) ==
  /\ page[b].st # "none"
  /\ word' = [word EXCEPT ![b] = d]
  /\ UNCHANGED <<pc, reg, local_head, return_head, mapped, page, strong, pstats, tstats>>

\* append, as_mut_slice: user code writes into the buffer.
Write(b, d) ==
  /\ page[b].st = "builder"
  /\ word' = [word EXCEPT ![b] = d]
  /\ UNCHANGED <<pc, reg, local_head, return_head, mapped, page, strong, pstats, tstats>>

\* seal moves the buffer into an Arc<PageInner> with one strong reference.
Seal(b) ==
  /\ page[b].st = "builder"
  /\ page' = [page EXCEPT ![b].st = "sealed", ![b].refs = 1]
  /\ UNCHANGED <<pc, reg, lists, strong, pstats, tstats>>

ClonePage(b) ==
  /\ page[b].st = "sealed"
  /\ page[b].refs < MaxRefs
  /\ page' = [page EXCEPT ![b].refs = @ + 1]
  /\ UNCHANGED <<pc, reg, lists, strong, pstats, tstats>>

DropClone(b) ==
  /\ page[b].st = "sealed"
  /\ page[b].refs > 1
  /\ page' = [page EXCEPT ![b].refs = @ - 1]
  /\ UNCHANGED <<pc, reg, lists, strong, pstats, tstats>>

\* Mutant: the drop gives up its Arc<PoolShared> before push_return.
DropPageArcFirst(t, b) ==
  /\ Transition(t, "idle", "rr_bytes")
  /\ page[b].st = "builder" \/ (page[b].st = "sealed" /\ page[b].refs = 1)
  /\ reg' = [reg EXCEPT ![t].buf = b, ![t].ten = page[b].ten]
  /\ page' = [page EXCEPT ![b] = NoPage]
  /\ strong' = strong \ {b}
  /\ UNCHANGED <<lists, pstats, tstats>>

\* PageBuilder::drop of an unsealed builder, or PageInner::drop after the
\* last clone went away.  The handle on PoolShared is now held by the drop.
DropPage(t, b) ==
  /\ Transition(t, "idle", "rr_bytes")
  /\ page[b].st = "builder" \/ (page[b].st = "sealed" /\ page[b].refs = 1)
  /\ reg' = [reg EXCEPT ![t].buf = b, ![t].ten = page[b].ten]
  /\ page' = [page EXCEPT ![b] = NoPage]
  /\ strong' = (strong \ {b}) \cup {t}
  /\ UNCHANGED <<lists, pstats, tstats>>

\* Mutants of record_release: pages first; the page count forgotten.
UncountPagesFirst(t) ==
  /\ Transition(t, "rr_bytes", "rr_pages")
  /\ ReleasePages(reg[t].ten)
  /\ UNCHANGED <<reg, lists, page, strong, pstats>>
UncountPagesNever(t) ==
  /\ Transition(t, "rr_pages", "push")
  /\ UNCHANGED <<reg, lists, page, strong, pstats, tstats>>

UncountBytes(t) ==
  /\ Transition(t, "rr_bytes", "rr_pages")
  /\ ReleaseBytes(reg[t].ten, PageSize)
  /\ UNCHANGED <<reg, lists, page, strong, pstats>>

UncountPages(t) ==
  /\ Transition(t, "rr_pages", "push")
  /\ ReleasePages(reg[t].ten)
  /\ UNCHANGED <<reg, lists, page, strong, pstats>>

-----------------------------------------------------------------------------
(* PoolShared::push_return: load the head, link, compare-exchange.         *)

\* Mutant: the next pointer is not written into the buffer.
LoadHeadNoLink(t) ==
  /\ Transition(t, "push", "cas")
  /\ reg' = [reg EXCEPT ![t].head = return_head]
  /\ UNCHANGED <<local_head, word, return_head, mapped, page, strong, pstats, tstats>>

LoadHead(t) ==
  /\ Transition(t, "push", "cas")
  /\ reg' = [reg EXCEPT ![t].head = return_head]
  /\ word' = [word EXCEPT ![reg[t].buf] = return_head]
  /\ UNCHANGED <<local_head, return_head, mapped, page, strong, pstats, tstats>>

CasOk(t) ==
  /\ Transition(t, "cas", "push_in_use")
  /\ return_head = reg[t].head
  /\ return_head' = reg[t].buf
  /\ reg' = [reg EXCEPT ![t] = NoReg]
  /\ UNCHANGED <<local_head, word, mapped, page, strong, pstats, tstats>>

\* Mutant: the load is hoisted out of the retry loop.
CasRetryStale(t) ==
  /\ Transition(t, "cas", "cas")
  /\ UNCHANGED <<reg, lists, page, strong, pstats, tstats>>

\* compare_exchange_weak: fails when the head moved, and may fail spuriously.
CasFail(t) ==
  /\ Transition(t, "cas", "push")
  /\ reg' = [reg EXCEPT ![t].head = NULL]
  /\ UNCHANGED <<lists, page, strong, pstats, tstats>>

UncountInUse(t) ==
  /\ Transition(t, "push_in_use", "push_free")
  /\ pstats' = [pstats EXCEPT !.in_use = FetchSub(@, 1)]
  /\ UNCHANGED <<reg, lists, page, strong, tstats>>

CountFree(t) ==
  /\ Transition(t, "push_free", "arc_drop")
  /\ pstats' = [pstats EXCEPT !.free = FetchAdd(@, 1)]
  /\ UNCHANGED <<reg, lists, page, strong, tstats>>

\* The fields of the dropped handle go last: its Arc<PoolShared> among them.
DropPageArc(t) ==
  /\ DropArc(t, "arc_drop", t)
  /\ UNCHANGED <<lists, page, pstats, tstats>>

-----------------------------------------------------------------------------
(* PagePool::prewarm(num_pages): all the pages first, then the counters.   *)

Prewarm(t, n) ==
  /\ PoolFree
  /\ PrewarmBound(n)
  /\ Transition(t, "idle", "prewarm")
  /\ reg' = [reg EXCEPT ![t].n = n]
  /\ UNCHANGED <<lists, page, strong, pstats, tstats>>

\* One iteration: allocate, prefault (it writes zeros into a zeroed page),
\* push onto the local list.
PrewarmPage(t, b) ==
  /\ Transition(t, "prewarm", "prewarm")
  /\ reg[t].i < reg[t].n
  /\ SourceAllocate(b)
  /\ word' = [word EXCEPT ![b] = local_head]
  /\ local_head' = b
  /\ reg' = [reg EXCEPT ![t].i = @ + 1]
  /\ UNCHANGED <<return_head, page, strong, pstats, tstats>>

\* The source panics in the loop: the counters after it are never reached.
PrewarmPanics(t) ==
  /\ Transition(t, "prewarm", "idle")
  /\ SourceMayFail
  /\ reg[t].i < reg[t].n
  /\ reg' = [reg EXCEPT ![t] = NoReg]
  /\ UNCHANGED <<lists, page, strong, pstats, tstats>>

PrewarmDone(t) ==
  /\ Transition(t, "prewarm", "pw_heap")
  /\ reg[t].i = reg[t].n
  /\ UNCHANGED <<reg, lists, page, strong, pstats, tstats>>

PrewarmHeap(t) ==
  /\ Transition(t, "pw_heap", "pw_free")
  /\ pstats' = [pstats EXCEPT !.heap = FetchAdd(@, reg[t].n)]
  /\ UNCHANGED <<reg, lists, page, strong, tstats>>

PrewarmFree(t) ==
  /\ Transition(t, "pw_free", "pw_count")
  /\ pstats' = [pstats EXCEPT !.free = FetchAdd(@, reg[t].n)]
  /\ UNCHANGED <<reg, lists, page, strong, tstats>>

PrewarmCount(t) ==
  /\ Transition(t, "pw_count", "idle")
  /\ pstats' = [pstats EXCEPT !.prewarmed = FetchAdd(@, reg[t].n)]
  /\ reg' = [reg EXCEPT ![t] = NoReg]
  /\ UNCHANGED <<lists, page, strong, tstats>>

-----------------------------------------------------------------------------
(* Shutdown: PagePool::drop, PoolShared::drop, and the scrapers' clones.   *)

DropPool(t) ==
  /\ PoolFree
  /\ Transition(t, "idle", "pool_drop")
  /\ UNCHANGED <<reg, lists, page, strong, pstats, tstats>>

\* The owner-local list is walked: read next, unlink, release.
ReleaseLocal(t) ==
  /\ Transition(t, "pool_drop", "pool_drop")
  /\ local_head # NULL
  /\ local_head' = word[local_head]
  /\ SourceRelease(local_head)
  /\ UNCHANGED <<reg, return_head, word, page, strong, pstats, tstats>>

DropPoolArc(t) ==
  /\ local_head = NULL
  /\ DropArc(t, "pool_drop", POOL)
  /\ UNCHANGED <<lists, page, pstats, tstats>>

\* PoolShared::drop takes the whole return queue ...
SwapReturnQueue(t) ==
  /\ Transition(t, "shared_swap", "shared_drop")
  /\ reg' = [reg EXCEPT ![t].head = return_head]
  /\ return_head' = NULL
  /\ UNCHANGED <<local_head, word, mapped, page, strong, pstats, tstats>>

\* Mutant: the walk of PoolShared::drop does not advance.
ReleaseReturnedTwice(t) ==
  /\ Transition(t, "shared_drop", "shared_drop")
  /\ reg[t].head # NULL
  /\ SourceRelease(reg[t].head)
  /\ UNCHANGED <<reg, local_head, return_head, word, page, strong, pstats, tstats>>

\* ... and releases it buffer by buffer.
ReleaseReturned(t) ==
  /\ Transition(t, "shared_drop", "shared_drop")
  /\ reg[t].head # NULL
  /\ SourceRelease(reg[t].head)
  /\ reg' = [reg EXCEPT ![t].head = word[reg[t].head]]
  /\ UNCHANGED <<local_head, return_head, word, page, strong, pstats, tstats>>

SharedDropped(t) ==
  /\ Transition(t, "shared_drop", "idle")
  /\ reg[t].head = NULL
  /\ UNCHANGED <<reg, lists, page, strong, pstats, tstats>>

\* PagePool::shared().clone(), for a metrics scraper; a scraper may clone its
\* handle again, even when the pool is gone.
CloneShared(s) ==
  /\ PoolFree \/ Scrapers \cap strong # {}
  /\ s \notin strong
  /\ strong' = strong \cup {s}
  /\ UNCHANGED <<pc, reg, lists, page, pstats, tstats>>

DropShared(t, s) ==
  /\ s \in strong
  /\ DropArc(t, "idle", s)
  /\ UNCHANGED <<lists, page, pstats, tstats>>

-----------------------------------------------------------------------------
\* What a thread that is inside a call does next.
AllocateStep(t) ==
  \/ PopLocal(t) \/ DrainReturnQueue(t) \/ CountDrain(t) \/ CountFresh(t)
  \/ \E b \in Bufs : AllocateFresh(t, b)
  \/ AllocatePanics(t)
  \/ CountInUse(t) \/ CountTotal(t) \/ CountPages(t) \/ CountBytes(t)
  \/ RaisePeak(t) \/ KeepPeak(t) \/ WritePeak(t)

DropPageStep(t) ==
  \/ UncountBytes(t) \/ UncountPages(t)
  \/ LoadHead(t) \/ CasOk(t) \/ CasFail(t)
  \/ UncountInUse(t) \/ CountFree(t) \/ DropPageArc(t)

PrewarmStep(t) ==
  \/ \E b \in Bufs : PrewarmPage(t, b)
  \/ PrewarmPanics(t) \/ PrewarmDone(t)
  \/ PrewarmHeap(t) \/ PrewarmFree(t) \/ PrewarmCount(t)

ShutdownStep(t) ==
  \/ ReleaseLocal(t) \/ DropPoolArc(t)
  \/ SwapReturnQueue(t) \/ ReleaseReturned(t) \/ SharedDropped(t)

Step(t) == AllocateStep(t) \/ DropPageStep(t) \/ PrewarmStep(t) \/ ShutdownStep(t)

\* What user code may start, or do with a handle it has.
Call(t) ==
  \/ \E tn \in Tenants : Allocate(t, tn)
  \/ \E n \in 0 .. MaxPrewarm : Prewarm(t, n)
  \/ \E b \in Bufs : DropPage(t, b)
  \/ \E s \in Scrapers : DropShared(t, s)
  \/ DropPool(t)

UserStep(b) ==
  \/ \E d \in Data : Write(b, d)
  \/ Seal(b) \/ ClonePage(b) \/ DropClone(b)

\* The program has dropped the pool and every handle: nothing is left to do.
Finished ==
  /\ strong = {}
  /\ \A t \in Threads : pc[t] = "idle"
  /\ UNCHANGED vars

Next ==
  \/ \E t \in Threads : Step(t) \/ Call(t)
  \/ \E b \in Bufs : UserStep(b)
  \/ \E s \in Scrapers : CloneShared(s)
  \/ Finished

Spec == Init /\ [][Next]_vars

\* A thread inside a call keeps running.  compare_exchange_weak does not fail
\* for ever when the head keeps still in between: it succeeds if it could
\* succeed again and again.  Nothing forces user code to make a call.
Fairness == \A t \in Threads : WF_vars(Step(t)) /\ SF_vars(CasOk(t))
FairSpec == Spec /\ Fairness

-----------------------------------------------------------------------------
(* Derived state.                                                          *)

At(S)     == {t \in Threads : pc[t] \in S}
Held      == {reg[t].buf : t \in At(HoldPcs)}
Live      == {b \in Bufs : page[b].st # "none"}
\* The buffers the pool owns: on the local list or on the return queue.
FreeBufs  == mapped \ (Live \cup Held)
PoolOpen  == POOL \in strong /\ At({"pool_drop"}) = {}
\* PoolShared has been deallocated, the source with it.
Freed     == strong = {} /\ At(SharedDropPcs) = {}

-----------------------------------------------------------------------------
(* Safety.                                                                 *)

\* A buffer has one owner: two threads inside allocate or a page drop, two
\* live pages, or a live page and a free list, never share it, and whoever
\* owns it owns memory the source has not taken back.  This is the promise
\* of the unsafe blocks of pop_local, push_return and PageBuilder.
ExclusiveOwnership ==
  /\ \A t \in At(HoldPcs) : reg[t].buf \in mapped \ Live
  /\ \A t, u \in At(HoldPcs) : reg[t].buf = reg[u].buf => t = u
  /\ Live \subseteq mapped
  /\ {local_head, return_head} \subseteq FreeBufs \cup {NULL}
  /\ local_head = return_head => local_head = NULL

\* The contract of PageSource::release: what PagePool::drop and
\* PoolShared::drop hand to the source is a buffer it produced, not yet
\* released and not in use.
ReleaseContract ==
  /\ At({"pool_drop"}) # {} => local_head \in FreeBufs \cup {NULL}
  /\ \A t \in At({"shared_drop"}) : reg[t].head \in FreeBufs \cup {NULL}

\* No thread is inside pool code, and no page is live, once PoolShared is
\* deallocated; PoolShared::drop runs once and alone.
NoUseAfterFree ==
  /\ strong = {} => Live = {} /\ At(Pcs \ (SharedDropPcs \cup {"idle"})) = {}
  /\ At(SharedDropPcs) # {} => strong = {}
  /\ \A t, u \in At(SharedDropPcs) : t = u

\* When the last handle is gone and its drop is over, every buffer is back
\* with the source, whichever thread returned it and whenever.
NoLeak == Freed => mapped = {}

\* allocate turns to the source only at a moment when no buffer is free, on
\* either list: the pool recycles before it grows.
RecycleStep ==
  \A t \in Threads : pc[t] = "pop_local" /\ pc'[t] = "fresh" => FreeBufs = {}
RecycleBeforeGrow == [][RecycleStep]_vars

\* The bytes of a sealed page never change and its buffer is never released,
\* as long as one clone lives.
SealedStep ==
  \A b \in Bufs : page[b].st = "sealed" /\ page'[b].st = "sealed"
    => word'[b] = word[b] /\ b \in mapped'
SealedImmutable == [][SealedStep]_vars

-----------------------------------------------------------------------------
(* Accounting.                                                             *)

\* Pages a prewarm call has put on the local list and not counted yet.
Uncounted(S) ==
  LET T == At(S) IN IF T = {} THEN 0 ELSE reg[CHOOSE t \in T : TRUE].i

\* The pool counters are exact up to the operations in progress: a counter
\* is off by the threads that are between a list operation and its count.
\* free_pages counts a push after it and a pop with it, so that it wraps below
\* zero when an allocate takes the buffer in between.
PoolCountersExact ==
  LET Dropping == Cardinality(At({"push_in_use", "push_free"}))
  IN  /\ pstats.in_use = (Cardinality(Live)
            + Cardinality(At(RecordPcs \cup PushPcs \cup {"push_in_use"}))) % U64
      /\ PoolOpen =>
           /\ pstats.free = (Cardinality(FreeBufs) - Dropping
                               - Uncounted({"prewarm", "pw_heap", "pw_free"})) % U64
           /\ pstats.heap = (Cardinality(mapped) + Cardinality(At({"source"}))
                               - Uncounted({"prewarm", "pw_heap"})) % U64

OfTenant(tn)   == {b \in Live : page[b].ten = tn}
Within(tn, S)  == {t \in At(S) : reg[t].ten = tn}

\* So are the tenant's: each live page counts once, a page in the middle of
\* record_allocate or record_release counts from, or until, the atomic
\* operation that concerns it.
TenantCountersExact ==
  \A tn \in Tenants :
    LET L == Cardinality(OfTenant(tn))
        B == Cardinality(Within(tn, {"ra_peak", "ra_store", "rr_bytes"}))
        P == Cardinality(Within(tn, {"ra_bytes", "ra_peak", "ra_store",
                                        "rr_bytes", "rr_pages"}))
    IN  /\ tstats[tn].bytes = (PageSize * (L + B)) % U64
        /\ tstats[tn].pages = (L + P) % U64

\* bytes_in_use may lag pages_in_use * page_size and never leads it: pages
\* are counted before bytes on the way in and after them on the way out.
BytesLagPages ==
  \A tn \in Tenants : tstats[tn].bytes <= tstats[tn].pages * PageSize

\* With one pool recording, the peak covers every value of bytes_in_use
\* outside the window between the addition and the store ...
PeakCoversBytes ==
  \A tn \in Tenants :
    Within(tn, {"ra_peak", "ra_store"}) = {} => tstats[tn].bytes <= tstats[tn].peak

\* ... and it is a high-water mark: no step lowers it.
PeakNeverFalls ==
  [][ \A tn \in Tenants : tstats'[tn].peak >= tstats[tn].peak ]_vars

-----------------------------------------------------------------------------
(* Liveness.                                                               *)

\* Every call returns: the push loop ends, both drop walks end.
CallsReturn == \A t \in Threads : pc[t] # "idle" ~> pc[t] = "idle"

\* Once user code has dropped the pool, every page and every scraper's
\* clone, the source gets everything back.
ShutdownReleases == strong \subseteq Threads ~> mapped = {}

-----------------------------------------------------------------------------
(* The pool implements the ledger: pages in the hands of a thread inside   *)
(* allocate or a drop already, or still, belong to the user.               *)

Ledger == INSTANCE PageLedger WITH
  owner <- [b \in Bufs |-> IF b \notin mapped THEN "source"
                           ELSE IF b \in FreeBufs THEN "pool" ELSE "user"],
  open  <- PoolOpen

\* Every step of the pool is a step of the ledger, or none: no buffer moves
\* between owners except by Obtain, Grant, Return, ..., one at a time.
ImplementsLedger == Ledger!LedgerSpec
=============================================================================
