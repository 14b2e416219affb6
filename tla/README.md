# paged-alloc: TLA+ models, TLC runs and TLAPS proofs

This directory holds a verification development for the `paged-alloc` crate: a
tenant-aware page allocator (`PagePool`), and a variable-size allocator on top
of it (`ChunkPool`). Source references are to the crate's files under `src/`.

## 1. The system

| Part | State it keeps | Operations | Interacts with |
|---|---|---|---|
| `PagePool` (`pool.rs`) | `local_head`, an intrusive list only the owner touches; one `Arc<PoolShared>` | `allocate`, `alloc_from`, `alloc_with`, `alloc_with_len`, `prewarm`, `shared`, drop | swaps the return queue out, calls the source, records on the tenant |
| `PoolShared` (`pool.rs`) | `return_head`, an intrusive multi-producer stack; `PoolStats`; the source | `push_return` from any thread; drop by whoever holds the last `Arc` | pages, pool and metrics scrapers each hold an `Arc` |
| `PageBuilder`, `Page` (`page.rs`) | the buffer, `Arc<PoolShared>`, `Arc<TenantStats>`; `Page` is reference counted | `append`, `as_mut_slice`, `set_len`, `seal`, `clone`, drop on any thread | drop runs `record_release`, then `push_return` |
| `TenantStats`, `Tenant` (`tenant.rs`) | six relaxed `AtomicU64` | `record_allocate`, `record_release`, `record_chunk_allocate`, `record_chunk_release` | shared by all clones of the tenant, possibly over several pools |
| `PageSource` (`source.rs`, `mmap.rs`) | the allocator or the kernel | `allocate`, `release`, `prefault`; `madvise_dontneed` beside it | may abort (heap) or panic (mmap); `prewarm` calls `prefault` |
| `ChunkPool` (`chunk.rs`) | a `PagePool`, the open page and its `write_offset`, `ChunkPoolStats` | `allocate_aligned` (zero, packed, dedicated, oversized), `prewarm`, drop | `allocate_raw_page`, `push_return` |
| `PackedPage` (`chunk.rs`) | page or heap block behind an `Arc` | drop: `push_return` or `dealloc` | held by the pool and by each chunk on the page |
| `ChunkBuilder`, `Chunk` (`chunk.rs`) | range on a packed page, `u32` capacity, tenant | `append`, `as_mut_slice`, `set_len`, `seal`, `clone`, drop on any thread | tenant and pool counters |
| `append_log` (`examples/`) | a map of chunks behind an `RwLock`, a high-water mark, a stop flag | one writer, readers, shutdown | the crate's intended use: chunks cross threads and are dropped anywhere |

What is hard about it:

* **Concurrency.** Allocation takes `&mut self`, so there is one allocating
  thread at a time, but it races with any number of threads dropping pages: a
  Treiber-style push against a whole-list swap, with list links stored in memory
  that was user data a moment before.
* **Lifetime.** Pool, pages, chunks and scrapers' clones are dropped in any
  order, on any thread. Somebody is last and has to release what is left, once.
* **Counters.** Every counter update is separate from the list operation it
  counts. Counters are `u64` that wrap.
* **Failure.** An mmap source panics; the pool survives and is used again. A
  closure passed to `alloc_with` panics with the builder half written.
* **Bytes.** Memory is recycled without being cleared, several chunks share a
  page, links and user data share the first word, and `prefault` and
  `madvise_dontneed` write into it as well.
* **Memory ordering.** The links are plain memory; one Release/Acquire pair on
  `return_head` has to order all of it.
* **Arithmetic.** Packing aligns absolute addresses; capacities are `u32`.

What makes each part correct is in section 4, property by property. The hazards
with the lines where they bite are in `PROJECT.json`.

## 2. Modules

| Module | Models | Notes |
|---|---|---|
| `TenantStats` | `TenantStats` | the counters and one operator per atomic access |
| `PagePool` | `PagePool`, `PoolShared`, `PoolStats`, `Page`, `PageBuilder`, the source | extends `TenantStats`; one action per atomic access or list operation |
| `PageLedger` | what a page pool promises | abstract: who owns each buffer, and whether the pool is open |
| `TenantSharing` | one tenant used by several workers | extends `TenantStats`; the pools are left out |
| `ChunkLayout` | size classes and packing arithmetic | pure operators |
| `ChunkPool` | `ChunkPool`, `PackedPage`, `ChunkBuilder`, `Chunk` | extends `ChunkLayout`, `TenantStats` and `PageLedger` as the pool below |
| `HandleStore` | what builders and sealed handles promise | abstract: each handle has bytes of its own, only its builder edits them, seal freezes them |
| `PageContent` | bytes and lengths of `PageBuilder`, `Page`; `alloc_*` of `PagePool` | extends `PageLedger`; implements `HandleStore` |
| `ChunkContent` | bytes and lengths of `ChunkBuilder`, `Chunk`; `alloc_*` of `ChunkPool` | extends `ChunkPool`; implements `HandleStore` |
| `ReturnOrder` | the memory orderings of the return queue | happens-before instead of sequential consistency |
| `PageSources` | `HeapSource`, `MmapSource`, `HugePageSource`, `madvise_dontneed` | which frames of a buffer are committed; the free list in that memory |
| `AppendLog` | `examples/append_log.rs` | extends `HandleStore` as the chunks below |
| `PagePoolInv` | | the inductive invariant `IInv` |
| `CounterLemmas` | | what the proofs about counters need: wrapping arithmetic, sizes of sets, sums over sets |
| `PagePoolProofs` | | proof that `IInv` is inductive, and what follows from it: safety, the ledger, the counters |
| `ChunkProofs` | | invariants and theorems of `ChunkPool` and `ChunkContent` |
| `ReturnOrderProofs`, `PageSourcesProofs`, `PageContentProofs`, `TenantSharingProofs`, `AppendLogProofs` | | invariant and theorems of the module each is named after |
| `MCPagePool`, `MCChunkPool`, `MCChunkContent` | | symmetry sets and buffer addresses for TLC |

### PagePool

`pc[t]` is the place of thread `t` in the code and `reg[t]` its locals. The
operations that user code may start (`Call`) are `Allocate`, `Prewarm`,
`DropPage`, `DropShared`, `DropPool`; `Step` is what a thread inside a call does
next. The names of the actions follow the code:

* `allocate` = `Allocate`, then `PopLocal`, or `DrainReturnQueue` `CountDrain`
  `PopLocal`, or `DrainReturnQueue` `CountFresh` `AllocateFresh`; then
  `CountInUse`, and `record_allocate` as `CountTotal`, `CountPages`,
  `CountBytes`, `RaisePeak`/`KeepPeak`, `WritePeak`.
* drop of the last handle of a page = `DropPage`, `UncountBytes`,
  `UncountPages`, `LoadHead`, `CasOk` or `CasFail` and again, `UncountInUse`,
  `CountFree`, `DropPageArc`.
* `prewarm` = `Prewarm`, `PrewarmPage`..., `PrewarmDone`, the three counters.
* drop of the pool = `DropPool`, `ReleaseLocal`..., `DropPoolArc`; the last
  `Arc` goes on with `SwapReturnQueue`, `ReleaseReturned`..., `SharedDropped`.

`alloc_from`, `alloc_with` and `alloc_with_len` are `Allocate`, `Write`, `Seal`
in sequence, and `DropPage` when the closure panics; `PageContent` has what they
write and the length they set.

`word[b]` is the first word of buffer `b`: user data, or the next pointer. There
is no sequence anywhere in the model: the lists are what the pointers say.
`strong` is the set of live `Arc<PoolShared>` handles, named by their holder (the
pool, the page on a buffer, a thread in the middle of a drop, a scraper).
`PoolFree` is `&mut self`: the borrow checker lets one thread at a time into a
pool operation, and the pool is `Send`, so which thread may change.
`compare_exchange_weak` may fail at any time.

A local operation and the atomic access next to it are one step where no other
thread can tell: the link of a buffer that is still private with the load of the
head, and the unlink of the owner-local list with its count.

### ChunkPool

The page pool below is `PageLedger`, so a recycled or a fresh buffer is any
buffer the ledger may hand out; run `pool_faults` checks, and `LedgerImplemented`
proves, that `PagePool` implements that ledger. `arcs[m]` is the set of `Arc<PackedPage>` holders of a
page or heap block; `Base` gives each buffer an address, so that alignment is a
question about addresses, as in the code. `Account` is the common tail of the
four paths.

The counters of one call are one step: nothing in `chunk.rs` branches on them,
and `TenantSharing` interleaves the tenant's.

### PageContent, ChunkContent, HandleStore

`HandleStore` is the promise of the `unsafe` slices: a function from handles to
state, reference count, length and bytes, in which a step changes one handle.
`PageContent` adds memory, lengths and the builders' operations to `PageLedger`;
`ChunkContent` adds them to the whole of `ChunkPool`, whose actions it takes
unchanged (`PoolSide`), with what they do to memory beside them (`FollowPool`:
zeros from the source or `alloc_zeroed`, a link when a page enters a free list,
nothing when it leaves). The refinement mapping reads each handle's bytes out of
memory, through its offset and capacity, so a step that writes, links, recycles or
releases memory under a live handle is a step `HandleStore` does not have.

`append` is one action with both outcomes, `PageFull`/`ChunkFull` changing
nothing. The write, `set_len` and `seal` at the end of an `alloc_*` call are one
step: the builder is private, and the pool is held by `&mut self` (`call`) from the
allocation to that step or to the drop that a panic of the closure or of `set_len`
causes. A `u32` length equals the `usize` one because it is at most the
capacity, which is a `u32`.

### ReturnOrder

`PagePool` interleaves atomic steps; this module asks what the orderings of these
steps guarantee about the plain ones. `seen[b]` is the set of threads that
the latest access to `b` happened before. A Release exchange puts what its thread
knows into `head_msg`, and as a read-modify-write it keeps what was there; an
Acquire swap learns it; a Relaxed load learns nothing. `Arc` drops are
Release with an Acquire for the last one (external: `std::sync::Arc`); sending
a page or the pool to another thread synchronizes, as every safe way of doing it
does. That a page is read by several clones at once is left to `Arc`.

### PageSources

A buffer is a set of frames, each unmapped, lazy or committed; touching a byte
commits its frame. `alloc_zeroed` may deliver either kind of zeros, `mmap` is lazy.
`prefault` touches the offsets that the loop visits, with `os_page_size` equal
to the frame size or, when `sysconf` fails, to the fallback. `word` is the first
word of a buffer, where links live, so `prefault` and `madvise_dontneed` are seen to
destroy one when they meet it. `madvise_dontneed` takes any run of frames of a live
mapping whose address its caller has seen (`known`), in a page that it holds or has
already dropped: the function cannot tell them apart, and its documentation has both in
mind. `cut` is a history variable: the buffers to which erased links led. No
action reads it. The two free lists are one here, and a source that panics
is left to `PagePool`.

### AppendLog

Threads with a program counter over `HandleStore`. An access to the map is one
step, as the `RwLock` makes it. The Relaxed `high_water` is a plain variable: a
reader that entered the lock before an insert loaded `high_water` before that, and
so cannot have seen the store that follows the insert.

## 3. Runs

| Run | Instance | Shows |
|---|---|---|
| `pool_safety` | 3 threads, 3 buffers, 1 scraper, 3 allocations, page clones, 2 data values, prewarm of 2 | ownership, release contract, lifetime, no leak, recycling, immutability, exact counters, peak |
| `pool_faults` | 2 threads, 2 buffers, 1 scraper, 2 tenants with 1 allocation each, a panicking source, prewarm of 2, fairness | `IInv`; no leak and no charge after a panic; refinement of `PageLedger`; calls return; shutdown releases everything |
| `tenant_shared` | 2 workers, pages and chunks of 0 and 3 bytes | exact counters under sharing |
| `chunk_safety` | 2 threads, 2 pages, 2 blocks, 3 chunks, sizes 0 1 4 7 9 on pages of 8, aligns 1 and 8 | disjoint, aligned ranges; page lifetime; counters |
| `chunk_bytes` | 2 threads, 2 pages of 2 bytes, sizes 1 (packed) and 3 (oversized), 3 chunks, writes and lengths 1 and 2 | refinement of `HandleStore` by chunks |
| `page_bytes` | 2 buffers of 2 bytes, 2 pages, 2 byte values, writes and lengths 0 to 3 | refinement of `HandleStore` by pages |
| `return_order` | 3 threads, 2 buffers, no bound on steps | no data race |
| `sources` | heap, mmap and huge pages, 3 buffers, frames of 4, fallback 2, page sizes 1 to 8, huge size 8, `madvise_dontneed` on any frames of held and dropped pages | committed frames; a list that loses only what is cut off |
| `append_log` | 3 readers, 4 records, fairness | publication, content, shutdown |
| `tenant_peak_race`, `chunk_truncation`, `madvise_evicted` | minimal | see section 6 |

Bounds are constants whose names start with `Max`, and appear only in guards of
the actions that start a call. Three threads give two concurrent drops against
an allocation; three buffers give a list with a middle; a buffer is used again
after it was returned, which is what an ABA needs; three allocations let a tenant
climb to a peak, fall and climb again below it; two tenants tell a release charged
to the wrong one from a right one. Two buffers are enough for the
chunk pool, because a page is open or retired. The sizes hit every class and
both sides of each limit, and the first buffer is aligned to the default only, so
that padding happens on a fresh page. `U64` and `U32` stand for 2^64 and 2^32 and
are small, so that wrapping would be seen; no counter reaches them by counting
up, and in `chunk_safety` the largest offset and capacity just fit. The threads and the buffers of `PagePool` are interchangeable, and so are
the threads and the chunk slots of `ChunkPool`; symmetry is not used for
liveness.

In `chunk_bytes` a page of two bytes holds two packed chunks, so that a chunk has
a neighbour, and three chunks make the first page retire and come back; a
link takes the first byte, the second keeps stale data. Writes of 1 and 2 bytes and
capacities 1 and 3 give appends that fit, that fill and that fail. The dedicated
and the zero-size path, which give a chunk memory of its own or none, are in
`chunk_safety`. In `page_bytes` a length of 3 exceeds the capacity and one of 0 is
the empty-data path. `return_order` needs three threads for a chain of two pushers
and an owner, and two buffers for a link that is followed. The page sizes of
`sources` are below a word, no multiple of a frame, a multiple of the fallback
only, one frame and two. In `append_log` three readers on four records include
two clones of one record and a record that outlives the map.

**Deadlock** is checked everywhere. A program that has dropped everything stops
(`Finished`, `ChunkFinished`, `Stopped`, `PageContentFinished`, `OrderFinished`,
`SourceFinished` and `Exited` are the only stuttering steps).

**Fairness.** `WF(Step(t))`: a thread inside a call is scheduled again; nothing
forces user code to start a call or to drop a handle. `SF(CasOk(t))`: the push
loop is lock-free, not wait-free, so that one thread's push ends only if its
exchange succeeds when it is possible again and again; the instance has finitely
many allocations, so the other threads move the head finitely often, and what
the assumption adds is that `compare_exchange_weak` does not fail spuriously for
ever. `AppendLog` has weak fairness for each thread of the program: the writer and the
readers are running OS threads, and main's sleep is finite.

## 4. Properties

*PagePool.* `ExclusiveOwnership`: the `unsafe` blocks' premise. `ReleaseContract`:
contract 3 of `PageSource`. `NoUseAfterFree`: `PoolShared` outlives its users.
`NoLeak`: everything is released. `RecycleBeforeGrow`: the source is asked only
when both lists are empty at the moment of the swap. `SealedImmutable`: what
`Sync for PageInner` needs. `PoolCountersExact`, `TenantCountersExact`: each
counter equals what is alive, up to the threads between the two steps.
`BytesLagPages`: the documented direction of the skew. `PeakCoversBytes`,
`PeakNeverFalls`: the load-then-store peak is right for one writer.
`ImplementsLedger`: buffers change owner one at a time and only as the ledger
allows. `CallsReturn`, `ShutdownReleases`: liveness.

*TenantSharing.* `SharedCountsExact`: a tenant's bytes, pages and chunks are what is
alive plus the share of the calls in progress, one atomic access at a time.

*ChunkPool.* `RangesDisjoint`: the module's safety argument, the cursor being
past every range included. `AddressesAligned`. `PagesHeldWhileUsed`: a page is
with the user exactly while an `Arc` on it exists or its last holder is
returning it. `ChunkCountersExact`: the pool's and each tenant's numbers and bytes are
those of the chunks that are alive or about to be accounted for by their drop.
`OpensAtMostOnePage`: a packed request fits
on a fresh page wherever that page lies, so the loop of `allocate_packed` ends.

*PageContent, ChunkContent.* `PagesKeepTheirBytes`, `ChunksKeepTheirBytes`: the
refinement of `HandleStore`. Neighbours on a page, recycling, links, prewarming, a
failed append, an unwound `alloc_*` call and a late drop on another thread leave
a handle's bytes alone, and nothing changes a sealed one. The type invariants
carry the bounds: lengths within capacities, ranges within memory.

*ReturnOrder.* `NoRace`: a thread that may touch a buffer (its own page, the
owner's local list, the queue that `PoolShared::drop` walks) is ordered after the
latest access to it.

*PageSources.* `PrewarmedIsCommitted`: what `prewarm` promises for lazily backed
sources. `FreeListIntact`: links lead from free buffer to free buffer, each of which is
entered by one pointer, and there is no cycle; a buffer that the head does not lead to is
behind a link that `madvise_dontneed` erased. So the worst a misplaced call does is
lose memory: no buffer is handed out or released twice. `NothingStranded`: nothing
is lost, which is what `madvise_evicted` refutes.

*AppendLog.* `PublishedIsThere`: the high-water mark never runs ahead of the map, and a
reader finds what it looks for below a mark it loaded earlier.
`ReadersSeeTheRecord`: through its clone a reader sees the bytes of the record it asked
for until it drops the clone. `CountersReturnToZero`: no chunk outlives the drop of the
log. `LogEnds`: the program ends, also when it is stopped before anything is
published.

Each property has a mutant: a variant of one definition, kept next to it and
marked as such, under which the property fails.

## 5. Proofs

Every theorem holds for all values of the constants: any number of threads,
buffers, tenants, chunks and readers, any page size, any bounds. What is assumed is
the named `ASSUME` of each module, which TLC evaluates in the runs, and where a
theorem needs more, a hypothesis in its own statement; all are below.

| Module | Invariant | Theorems |
|---|---|---|
| `PagePoolProofs` | `IInv` | `InvariantHolds`, `TypeCorrect`, `OwnershipSafe`, `ReleaseSafe`, `SharedOutlivesUsers`, `NothingLeaks`, `RecyclesFirst`, `SealedSafe`, `LedgerImplemented` |
| `PagePoolProofs` | `IInv` and counters | `TenantsExact`, `BytesNeverLead`, `PeakMonotone`, `PeakCovered`, `PoolCounted` |
| `ReturnOrderProofs` | `OrderInv` | `RaceFree` |
| `PageSourcesProofs` | `SourceInv` | `SourcesSound`, `PrewarmedStaysCommitted`, `FreeListSurvives`, `HeldPagesStrandNothing` |
| `PageContentProofs` | `PageContentInv` | `PageContentSound`, `PagesImplementStore` |
| `TenantSharingProofs` | `SharingTypeOK` and totals | `SharingTypes`, `SharedExact` |
| `ChunkProofs` | `ChunkInv` | `ChunkTypesHold`, `PagesHeld`, `OpensOnce`, `ChunksDisjoint`, `ChunksAligned` |
| `ChunkProofs` | `OwnershipInv` and totals | `ChunksCounted`, `NothingOwedBelow` |
| `ChunkProofs` | `ContentInv` | `ContentSound`, `ChunksImplementStore` |
| `AppendLogProofs` | `LogInv` | `LogSound`, `PublishedRecordsAreThere`, `ReadersSeeRecords`, `NothingIsLeft` |

Each proof has one lemma per action or group of actions, and under it one
step per conjunct that the action can disturb.

### The lists of the page pool

None of the safety properties is inductive: after a pop the new head has to be a
free buffer again, which is a statement about the word of the old head. `IInv`
therefore says what the pointers look like:

* `LocalsOK`, `HoldersOK`: a thread inside allocate or a drop owns its buffer
  alone; live pages own theirs;
* `ChainsOK`: heads and next pointers lead to free buffers, no two pointers lead
  to the same one, and every nonempty set of free buffers is entered from outside
  it, by a head or by a next pointer. The last conjunct is reachability without
  induction or sequences: it excludes both a lost buffer and a cycle, and gives
  `FreeBufs = {}` when both heads are null, hence `NoLeak` and
  `RecycleBeforeGrow`;
* `HeadsOK`: a thread at its compare-exchange has linked its buffer to the head
  it expects. The exchange succeeds only if the head is that value *now*, so the
  link is right whatever happened in between: the push is immune to ABA;
* `ArcOK`: who holds an `Arc<PoolShared>`, and which pointers are null when
  nobody does.

`LedgerImplemented` maps each step to a step of `PageLedger` or to a stutter. It is
what makes the ledger below `ChunkPool` and `PageContent` more than an assumption.

### The counters of the page pool

The threads between a list operation and its count are the difference between a
counter and what it counts, so that each proof follows two sets, the counted
buffers and the threads on their way, and how one step moves one element between
them; the arithmetic is modulo `U64` throughout (`AddMod`, `FetchMod`).

* `TenantsExact` needs no hypothesis.
* `BytesNeverLead` and `PeakCovered` compare two counters, which says something only
  if neither has wrapped: they assume `PageSize * Cardinality(Bufs) < U64`. The
  buffers are disjoint parts of one address space, so the code meets that. What is
  charged is bounded by an injection of the threads on their way into the
  buffers (`ChargedFits`).
* `PeakMonotone` rests on `PeakPending`: between the load of the peak and its store
  no other thread can raise it, because only the one thread inside the pool
  records allocations. `PeakCovered` needs besides that the value in hand still
  covers the bytes, which other threads can only have lowered.
* `PoolCounted` assumes `~SourceMayFail`; see section 6 for why.

### Sums

Chunks differ in size, so the counters of `ChunkPool` and `TenantSharing` equal sums
over sets (`SumFunctionOnSet` of the community modules), and a sum is a fold:
a function that is defined by recursion over the subsets of a finite set, taking one
chosen element at a time. `CounterLemmas` proves what such a sum does when one element
changes, from the definition:

* the recursion has a solution (`FoldsExist`) and only one (`FoldsAgree`), so the sum
  obeys its equation for the chosen element (`SumIsFold`, `FoldStep`);
* it obeys it for every element, whatever the choice was (`FoldAny`), since addition
  commutes;
* hence `SumRemove`, `SumAgree` and `SumOneChange`, which the proofs of the actions cite.

The induction is first-order: the subsets for which a claim fails form a set, and a
nonempty collection of subsets of a finite set has a minimal member
(`MinimalSubset`, from the library's well-foundedness of strict inclusion). No
induction theorem with an operator parameter is used, which the installed provers could
not instantiate. This is what `IsFiniteSet` of threads, chunks, workers and sizes in the
assumptions is for.

`ChunksCounted`: three actions change what is counted. `Account` adds a chunk and counts it,
`DropChunk` moves it from the live chunks to the dropping thread, `ReleaseChunk`
uncounts it; the other steps leave both sets and their values alone. The
theorem assumes that every size is below `U32`, and is false without it, as
`chunk_truncation` shows: the capacity is `size as u32` (`chunk.rs:549`), so the drop
gives back less than the call recorded. `NothingOwedBelow` says that this is
the only way to get there: below 2^32, the property that run violates holds.

`SharedExact`: for every tenant, a worker between two accesses of `record_*` has a share
in each counter, and a step changes one kind of allocation, one share, or both so that
they cancel (`Exchange`). It needs no hypothesis, and no counter is assumed not
to wrap. `SharingAssumption` asks for at least one tenant.

### The order of memory accesses

`OrderInv` says who may touch each buffer, that the pointers stay within the list they
belong to, and `KnownOK`: the thread that has a page, and the owner for the local
list, are ordered after the latest access, and every buffer on the queue is in
what the Release exchanges have published, so that the Acquire swap learns it.

### The sources

`SourceInv` is inductive nearly as the properties are stated. The work is in
`prefault`: the loop's offsets meet every frame because the stride divides the frame
size (a frame of 4096 bytes or more and a power of two, against a fallback of
4096), and in the list, where reachability is stated as in `ChainsOK`, with the erased
links of `cut` beside the head and the links that are there (`ListCut`). The
theorems do not restrict the callers of `madvise_dontneed`, with one exception:
`HeldPagesStrandNothing` has the hypothesis that every call is on a page
that is still held (`AdvisesHeldPages`), under which `cut` stays empty; without it
`NothingStranded` is false, as `madvise_evicted` shows.

### Pages and chunks

`PageContentInv` is the type invariant with `LiveOK`: a live page has a buffer of
its own that the ledger gives to the user.

`ChunkInv` has two halves. `OwnershipInv` gives the holders of every
`Arc<PackedPage>` exactly (`ArcsExact`), so that one thread sees the last one go, and
a page that the ledger hands out carries no range. `LayoutInv` says that the ranges
on one page are disjoint, inside it, aligned, and behind the cursor if the page is
open; a range counts from the moment `allocate` has chosen it. The arithmetic of
`align_up` is a handful of lemmas on divisors (`ModZero`, `ModTrans`, `ModUnique`),
from the assumption that the smaller of an alignment and `DEFAULT_ALIGN` divides
the larger, as powers of two do.

`ContentInv` adds the bytes, lengths and calls. `ChunksImplementStore` then shows
that a builder writes inside its own range, and that everything else that writes
(links, zeros of fresh memory) writes where no `Arc<PackedPage>` points.

`ChunksDisjoint`, `ChunksAligned`, `ContentSound` and `ChunksImplementStore` assume
`PageBytes <= U32`, and are false without it: the offset of a packed chunk is stored
`as u32` (`chunk.rs:489`), while nothing in the constructors limits the page size.
With `U32 = 4` and pages of 8, three requests of 2 bytes give offsets 0, 2 and
4 % 4 = 0. On a real system that takes pages of more than 4 GiB.

### The example

`LogInv` follows the writer, main and the readers through the map: which records
are published, who has a clone of what, and `ChunksCounted`: the references of a
record are its place in the map and the readers that hold a clone. That count is a
cardinality, and is where `IsFiniteSet(Readers)` is needed.

### Only model-checked

* Liveness (`CallsReturn`, `ShutdownReleases`, `LogEnds`), which is outside the
  prover's reach.
* The three runs of section 6, which are counterexamples; for two of them a theorem
  shows that the property holds when their cause is excluded (`NothingOwedBelow`,
  `HeldPagesStrandNothing`).

Every invariant, action property and refinement that a passing run checks is proved.

## 6. Where documentation and code differ

* `peak_bytes_in_use` as a high-water mark, and accounting "unified regardless
  of how many clones exist" (`docs/design.md:513`, `tenant.rs:129`): two pools
  allocating for clones of one tenant can lose an update (`tenant_peak_race`).
  `docs/design.md:501` intends one `Tenant` per worker, where
  `PeakCoversBytes` holds.
* "a chunk of exactly `size` bytes" (`chunk.rs:289`): sizes of 2^32 and more are
  truncated, and the tenant's bytes do not return to zero (`chunk_truncation`).
* "so a higher-level cache layer can call it on evicted pages without borrowing the
  pool" (`mmap.rs:139`, and `docs/design.md:250`): when the last handle of the evicted
  page is gone, its buffer is on a free list, and `madvise_dontneed` erases the link in
  it. What is behind the link is never recycled and never released
  (`madvise_evicted`); nothing worse happens (`FreeListSurvives`). The safety section
  asks for "a live mmap-backed region", which such a buffer is. A cache that advises
  a page before it drops it is safe (`HeldPagesStrandNothing`).

Five remarks that no run of its own is about. `PoolStats::free_pages`, "the combined
count" (`pool.rs:256`), is added to after the push and subtracted from at the pop,
so that it wraps below zero while a drop is in progress; `PoolCountersExact` says by how
much it is off. The counters are documented as advisory (`pool.rs:10`), but
2^64 - 1 is more than a little off. `prewarm` counts its pages after its loop, so
a source that panics inside it leaves `free_pages` and the heap count short for good;
`PoolCountersExact` is therefore checked and proved for a source that does not fail.
The offsets of packed chunks are cast to `u32`, so that the ranges which
`chunk.rs:32` calls "always disjoint" overlap on pages of more than 4 GiB
(section 5, Pages and chunks). The comment of `examples/file_cache.rs:178`
expects the pool's counters back at zero when the cache is dropped; by
`PagesHeldWhileUsed` the open page of a `ChunkPool` is in use for as long as the pool
holds its `Arc`. Last, `source.rs:100` calls the empty `prefault` right for the heap
because `alloc_zeroed` "already touches every page"; `alloc_zeroed` promises zeros,
which may be memory that nobody touched, so `PrewarmedIsCommitted` is stated for
the mmap sources only.

## 7. Not modelled

* Memory orderings of the statistics, which are Relaxed and which nothing
  branches on, and the insides of `Arc`, `RwLock` and thread join.
* The kernel beyond which frames of a mapping are committed: flags of `mmap`,
  failure of `munmap` (only a debug assertion looks at it), and
  `MADV_FREE_REUSABLE`, whose zeros may come late.
* The other examples: `file_cache` and `share_across_threads` share chunks as
  `append_log` does, over a map that no longer changes; the rest are sequential.
* `local_free_pages`, a walk of the owner's list that only reads it.
* `Debug` output, accessors, error texts, benchmarks, scripts.

## 8. Plan

In order, done up to here: the page pool and its ledger; its invariant and
safety theorems; the tenants; the chunk pool; the bytes of pages and chunks; the
memory ordering of the return queue; the sources; the `append_log` program; the
theorems of all of these. Next:

1. `ChunkPool` at the grain of single counter updates: `TenantSharing` has the tenant's,
   the pool's own are still one step per call.
2. `AlignUp` against the bit-mask reference.
3. The map of `file_cache`, if it ever changes while readers use it.
