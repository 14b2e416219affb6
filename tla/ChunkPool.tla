----------------------------- MODULE ChunkPool -----------------------------
(***************************************************************************)
(* One ChunkPool (src/src/chunk.rs): the packed, dedicated, oversized and  *)
(* zero-size paths, PackedPage reference counts, and the chunks it gives   *)
(* out.  The underlying PagePool is its abstract specification PageLedger, *)
(* which PagePool is shown to implement.                                   *)
(*                                                                         *)
(* allocate takes &mut self, so one thread at a time is inside it; chunks  *)
(* are dropped by any thread.  The counters of one call are updated in one *)
(* step: nothing branches on them and TenantSharing interleaves them.      *)
(***************************************************************************)
EXTENDS TenantStats, ChunkLayout, PageLedger, FiniteSetsExt

CONSTANTS
  Threads,        \* threads of the program
  Blocks,         \* heap blocks of the oversized path
  Chunks,         \* slots for live ChunkBuilder or ChunkInner values
  Base,           \* [Bufs -> address of the buffer]
  NULL,
  OPEN,           \* the Arc<PackedPage> inside ChunkPool::current
  U32,            \* modulus of offset and capacity: 2^32 in the code
  Sizes, Aligns,  \* requests user code makes
  SourceMayFail,  \* the page source may panic
  MaxChunks,      \* bound: chunks allocated per tenant
  MaxRefs         \* bound: clones of one chunk

ASSUME ChunkAssumption ==
  /\ IsFiniteSet(Threads) /\ IsFiniteSet(Chunks)
  /\ Base \in [Bufs -> Nat]
  /\ \A b \in Bufs : Base[b] % DefaultAlign = 0    \* PageSource contract, 1
  /\ \A b, c \in Bufs : Base[b] < Base[c] => Base[b] + PageBytes <= Base[c]
  \* align is a power of two, as DEFAULT_ALIGN is: the smaller divides the larger.
  /\ Sizes \subseteq Nat /\ Aligns \subseteq Nat \ {0}
  /\ \A a \in Aligns : a <= DefaultAlign => DefaultAlign % a = 0
  /\ U32 \in Nat \ {0} /\ MaxChunks \in Nat /\ MaxRefs \in Nat
  /\ SourceMayFail \in BOOLEAN
  /\ NULL \notin Bufs \cup Blocks \cup Tenants /\ Bufs \cap Blocks = {}
  /\ OPEN \notin Chunks \cup Threads /\ Chunks \cap Threads = {}

VARIABLES
  pc, reg,   \* [Threads -> location and locals]
  current,   \* ChunkPool::current: NULL or the open page and write_offset
  arcs,      \* [Bufs \cup Blocks -> holders of an Arc<PackedPage> on it]
  chunk,     \* [Chunks -> the builder or sealed chunk in the slot]
  cstats     \* ChunkPoolStats

cvars == <<pc, reg, current, arcs, chunk, cstats, tstats, owner, open>>

Memory == Bufs \cup Blocks

\* Inside an &mut self operation of the ChunkPool, or its drop.
AllocPcs == {"zero", "packed", "retired", "open", "dedicated", "oversized", "account"}
DropPoolPcs == {"drop_current"}
PoolPcs == AllocPcs \cup DropPoolPcs
DropPcs == {"release", "arc_drop", "free"}

NoReg   == [mem |-> NULL, off |-> 0, size |-> 0, align |-> 1, ten |-> NULL, over |-> 0,
            class |-> "zero"]
NoChunk == [st |-> "none", refs |-> 0, mem |-> NULL, off |-> 0, cap |-> 0,
            align |-> 1, ten |-> NULL, over |-> 0]
NoOpen  == [mem |-> NULL, off |-> 0]

\* Every variable has its type; in particular write_offset never passes the
\* end of the open page.
ChunkTypeOK ==
  /\ pc \in [Threads -> {"idle"} \cup PoolPcs \cup DropPcs]
  /\ reg \in [Threads -> [mem : Memory \cup {NULL}, off : Nat, size : Nat, align : Nat,
                          ten : Tenants \cup {NULL}, over : Nat,
                          class : {"zero", "packed", "dedicated", "oversized"}]]
  /\ current \in [mem : Bufs \cup {NULL}, off : 0 .. PageBytes]
  /\ arcs \in [Memory -> SUBSET ({OPEN} \cup Chunks \cup Threads)]
  /\ chunk \in [Chunks -> [st : {"none", "builder", "sealed"}, refs : Nat,
                           mem : Memory \cup {NULL}, off : Nat, cap : 0 .. U32 - 1,
                           align : Nat, ten : Tenants \cup {NULL}, over : Nat]]
  /\ cstats \in [total : Counter, in_use : Counter, packed : Counter,
                 dedicated : Counter, oversized : Counter, over_bytes : Counter]
  /\ TenantTypeOK
  /\ LedgerTypeOK

ChunkInit ==
  /\ pc = [t \in Threads |-> "idle"]
  /\ reg = [t \in Threads |-> NoReg]
  /\ current = NoOpen
  /\ arcs = [m \in Memory |-> {}]
  /\ chunk = [c \in Chunks |-> NoChunk]
  /\ cstats = [total |-> 0, in_use |-> 0, packed |-> 0, dedicated |-> 0,
               oversized |-> 0, over_bytes |-> 0]
  /\ TenantInit
  /\ LedgerInit

-----------------------------------------------------------------------------
Goto(t, from, to) == pc[t] = from /\ pc' = [pc EXCEPT ![t] = to]

PoolFree == open /\ \A t \in Threads : pc[t] \notin PoolPcs

\* PagePool::allocate_raw_page, as the ledger allows it: a recycled buffer or
\* one from the source.
RawPage(b) == Grant(b) \/ Obtain(b)

\* Bounds: chunk slots, addresses, and the lifetime counter.
RequestBound(tn) ==
  /\ tstats[tn].total_chunks < MaxChunks
  /\ \E c \in Chunks : chunk[c].st = "none"
  /\ \E b \in Bufs : owner[b] # "user"
  /\ \E m \in Blocks : arcs[m] = {}

-----------------------------------------------------------------------------
(* ChunkPool::allocate_aligned.                                            *)

AllocateAligned(t, tn, size, align) ==
  /\ PoolFree
  /\ RequestBound(tn)
  /\ Goto(t, "idle", Class(size, align))
  /\ reg' = [reg EXCEPT ![t] = [NoReg EXCEPT !.size = size, !.align = align, !.ten = tn,
                                              !.class = Class(size, align)]]
  /\ UNCHANGED <<current, arcs, chunk, cstats, tstats, ledger>>

\* Where the next packed chunk of t starts in the open page.
NextOffset(t) == PackedOffset(Base[current.mem], current.off, reg[t].align)
HasRoom(t) ==
  /\ current.mem # NULL
  /\ Fits(Base[current.mem], current.off, reg[t].size, reg[t].align)

\* Mutant: the cursor advances by the size without the padding.
PackNoPadding(t) ==
  /\ Goto(t, "packed", "account")
  /\ HasRoom(t)
  /\ current' = [current EXCEPT !.off = @ + reg[t].size]
  /\ arcs' = [arcs EXCEPT ![current.mem] = @ \cup {t}]
  /\ reg' = [reg EXCEPT ![t].mem = current.mem, ![t].off = NextOffset(t)]
  /\ UNCHANGED <<chunk, cstats, tstats, ledger>>

\* allocate_packed: the open page has room behind its write_offset.
Pack(t) ==
  /\ Goto(t, "packed", "account")
  /\ HasRoom(t)
  /\ current' = [current EXCEPT !.off = NextOffset(t) + reg[t].size]
  /\ arcs' = [arcs EXCEPT ![current.mem] = @ \cup {t}]
  /\ reg' = [reg EXCEPT ![t].mem = current.mem, ![t].off = NextOffset(t)]
  /\ UNCHANGED <<chunk, cstats, tstats, ledger>>

\* Mutant: the retired page is returned although chunks still use it.
RetireReturns(t) ==
  /\ Goto(t, "packed", "retired")
  /\ current.mem # NULL
  /\ ~HasRoom(t)
  /\ arcs' = [arcs EXCEPT ![current.mem] = @ \ {OPEN}]
  /\ reg' = [reg EXCEPT ![t].mem = current.mem]
  /\ current' = NoOpen
  /\ UNCHANGED <<chunk, cstats, tstats, ledger>>

\* It has not: self.current = None drops the pool's Arc<PackedPage>.
Retire(t) ==
  /\ pc[t] = "packed"
  /\ current.mem # NULL
  /\ ~HasRoom(t)
  /\ arcs' = [arcs EXCEPT ![current.mem] = @ \ {OPEN}]
  /\ pc' = [pc EXCEPT ![t] = IF arcs'[current.mem] = {} THEN "retired" ELSE "open"]
  /\ reg' = [reg EXCEPT ![t].mem = current.mem]
  /\ current' = NoOpen
  /\ UNCHANGED <<chunk, cstats, tstats, ledger>>

\* The last Arc was the pool's: PackedPage::drop, push_return.
ReturnRetired(t) ==
  /\ Goto(t, "retired", "open")
  /\ Return(reg[t].mem)
  /\ UNCHANGED <<reg, current, arcs, chunk, cstats, tstats>>

NothingOpen(t) ==
  /\ Goto(t, "packed", "open")
  /\ current.mem = NULL
  /\ UNCHANGED <<reg, current, arcs, chunk, cstats, tstats, ledger>>

OpenNewPage(t, b) ==
  /\ Goto(t, "open", "packed")
  /\ RawPage(b)
  /\ current' = [mem |-> b, off |-> 0]
  /\ arcs' = [arcs EXCEPT ![b] = {OPEN}]
  /\ reg' = [reg EXCEPT ![t].mem = NULL]
  /\ UNCHANGED <<chunk, cstats, tstats>>

AllocateDedicated(t, b) ==
  /\ Goto(t, "dedicated", "account")
  /\ RawPage(b)
  /\ arcs' = [arcs EXCEPT ![b] = {t}]
  /\ reg' = [reg EXCEPT ![t].mem = b]
  /\ UNCHANGED <<current, chunk, cstats, tstats>>

\* alloc_zeroed with an exact layout; it aborts the process on failure.  A size
\* that no Layout can have panics before anything has changed.
AllocateOversized(t, m) ==
  /\ Goto(t, "oversized", "account")
  /\ arcs[m] = {}
  /\ arcs' = [arcs EXCEPT ![m] = {t}]
  /\ reg' = [reg EXCEPT ![t].mem = m, ![t].over = reg[t].size]
  /\ UNCHANGED <<current, chunk, cstats, tstats, ledger>>

AllocateZero(t) ==
  /\ Goto(t, "zero", "account")
  /\ UNCHANGED <<reg, current, arcs, chunk, cstats, tstats, ledger>>

\* The source panics in allocate_raw_page: the call unwinds, current stays
\* as it is, None.
RawPagePanics(t) ==
  /\ SourceMayFail
  /\ pc[t] \in {"open", "dedicated"}
  /\ pc' = [pc EXCEPT ![t] = "idle"]
  /\ reg' = [reg EXCEPT ![t] = NoReg]
  /\ UNCHANGED <<current, arcs, chunk, cstats, tstats, ledger>>

\* How many of the calls that are counted as class k this one is: one or none.
OfClass(t, k) == IF reg[t].class = k THEN 1 ELSE 0

\* The end of each of the four paths: record_chunk_allocate(size), the pool's
\* counters, and the builder, whose offset and capacity are cast to u32.
Account(t, c) ==
  LET r == reg[t]
      s == tstats[r.ten]
      new == NewBytes(r.ten, r.size)
  IN  /\ Goto(t, "account", "idle")
      /\ chunk[c].st = "none"
      /\ tstats' = [tstats EXCEPT ![r.ten] =
           [s EXCEPT !.total_chunks = FetchAdd(@, 1), !.chunks = FetchAdd(@, 1),
                     !.bytes = new, !.peak = IF AbovePeak(r.ten, new) THEN new ELSE @]]
      /\ cstats' = [cstats EXCEPT !.total = FetchAdd(@, 1), !.in_use = FetchAdd(@, 1),
                                  !.packed = FetchAdd(@, OfClass(t, "packed")),
                                  !.dedicated = FetchAdd(@, OfClass(t, "dedicated")),
                                  !.oversized = FetchAdd(@, OfClass(t, "oversized")),
                                  !.over_bytes = FetchAdd(@, r.over)]
      /\ chunk' = [chunk EXCEPT ![c] =
           [st |-> "builder", refs |-> 1, mem |-> r.mem, off |-> r.off % U32,
            cap |-> r.size % U32, align |-> r.align, ten |-> r.ten, over |-> r.over]]
      /\ arcs' = [m \in Memory |-> IF m = r.mem THEN (arcs[m] \ {t}) \cup {c} ELSE arcs[m]]
      /\ reg' = [reg EXCEPT ![t] = NoReg]
      /\ UNCHANGED <<current, ledger>>

-----------------------------------------------------------------------------
(* ChunkBuilder and Chunk.                                                 *)

\* seal moves the tenant, so that the builder's drop does not account.
Seal(c) ==
  /\ chunk[c].st = "builder"
  /\ chunk' = [chunk EXCEPT ![c].st = "sealed"]
  /\ UNCHANGED <<pc, reg, current, arcs, cstats, tstats, ledger>>

CloneChunk(c) ==
  /\ chunk[c].st = "sealed"
  /\ chunk[c].refs < MaxRefs
  /\ chunk' = [chunk EXCEPT ![c].refs = @ + 1]
  /\ UNCHANGED <<pc, reg, current, arcs, cstats, tstats, ledger>>

DropClone(c) ==
  /\ chunk[c].refs > 1
  /\ chunk' = [chunk EXCEPT ![c].refs = @ - 1]
  /\ UNCHANGED <<pc, reg, current, arcs, cstats, tstats, ledger>>

\* ChunkBuilder::drop of an unsealed builder, ChunkInner::drop of the last
\* clone: the Arc<PackedPage> is a field and is dropped at the end.
DropChunk(t, c) ==
  /\ Goto(t, "idle", "release")
  /\ chunk[c].refs = 1
  /\ reg' = [reg EXCEPT ![t] = [NoReg EXCEPT !.mem = chunk[c].mem, !.size = chunk[c].cap,
                                              !.ten = chunk[c].ten, !.over = chunk[c].over]]
  /\ arcs' = [m \in Memory |->
                IF m = chunk[c].mem THEN (arcs[m] \ {c}) \cup {t} ELSE arcs[m]]
  /\ chunk' = [chunk EXCEPT ![c] = NoChunk]
  /\ UNCHANGED <<current, cstats, tstats, ledger>>

\* Mutant: oversized_bytes_in_use is left alone.
ReleaseChunkNotOversized(t) ==
  /\ Goto(t, "release", "arc_drop")
  /\ tstats' = [tstats EXCEPT ![reg[t].ten].bytes = FetchSub(@, reg[t].size),
                              ![reg[t].ten].chunks = FetchSub(@, 1)]
  /\ cstats' = [cstats EXCEPT !.in_use = FetchSub(@, 1)]
  /\ UNCHANGED <<reg, current, arcs, chunk, ledger>>

\* record_chunk_release(capacity), chunks_in_use, oversized_bytes_in_use.
ReleaseChunk(t) ==
  /\ Goto(t, "release", "arc_drop")
  /\ tstats' = [tstats EXCEPT ![reg[t].ten].bytes = FetchSub(@, reg[t].size),
                              ![reg[t].ten].chunks = FetchSub(@, 1)]
  /\ cstats' = [cstats EXCEPT !.in_use = FetchSub(@, 1),
                              !.over_bytes = FetchSub(@, reg[t].over)]
  /\ UNCHANGED <<reg, current, arcs, chunk, ledger>>

\* The Arc<PackedPage> of the handle goes; the last one runs PackedPage::drop.
\* A heap block is deallocated on the spot, a page is pushed back.
DropPackedArc(t) ==
  /\ pc[t] = "arc_drop"
  /\ arcs' = [m \in Memory |-> IF m = reg[t].mem THEN arcs[m] \ {t} ELSE arcs[m]]
  /\ LET last == reg[t].mem \in Bufs /\ arcs'[reg[t].mem] = {}
     IN  /\ pc' = [pc EXCEPT ![t] = IF last THEN "free" ELSE "idle"]
         /\ reg' = [reg EXCEPT ![t] = [NoReg EXCEPT !.mem = IF last THEN reg[t].mem ELSE NULL]]
  /\ UNCHANGED <<current, chunk, cstats, tstats, ledger>>

\* PackedPage::drop of a pool page: push_return.
FreePacked(t) ==
  /\ Goto(t, "free", "idle")
  /\ Return(reg[t].mem)
  /\ reg' = [reg EXCEPT ![t] = NoReg]
  /\ UNCHANGED <<current, arcs, chunk, cstats, tstats>>

-----------------------------------------------------------------------------
(* Drop of the ChunkPool: its fields go in order, first the PagePool, then *)
(* the open page.                                                          *)

DropPages(t) ==
  /\ PoolFree
  /\ Goto(t, "idle", "drop_current")
  /\ Close
  /\ UNCHANGED <<reg, current, arcs, chunk, cstats, tstats>>

DropCurrent(t) ==
  /\ pc[t] = "drop_current"
  /\ arcs' = [m \in Memory |-> IF m = current.mem THEN arcs[m] \ {OPEN} ELSE arcs[m]]
  /\ LET last == current.mem # NULL /\ arcs'[current.mem] = {}
     IN  /\ pc' = [pc EXCEPT ![t] = IF last THEN "free" ELSE "idle"]
         /\ reg' = [reg EXCEPT ![t].mem = IF last THEN current.mem ELSE NULL]
  /\ current' = NoOpen
  /\ UNCHANGED <<chunk, cstats, tstats, ledger>>

\* ChunkPool::prewarm forwards to the PagePool, which takes pages one by one.
PrewarmOne(b) ==
  /\ PoolFree
  /\ Reserve(b)
  /\ UNCHANGED <<pc, reg, current, arcs, chunk, cstats, tstats>>

\* The PagePool, or PoolShared, gives a free page back to the source.
PagePoolReleases(b) ==
  /\ Release(b)
  /\ UNCHANGED <<pc, reg, current, arcs, chunk, cstats, tstats>>

-----------------------------------------------------------------------------
AllocStep(t) ==
  \/ Pack(t) \/ Retire(t) \/ ReturnRetired(t) \/ NothingOpen(t)
  \/ \E b \in Bufs : OpenNewPage(t, b) \/ AllocateDedicated(t, b)
  \/ \E m \in Blocks : AllocateOversized(t, m)
  \/ AllocateZero(t) \/ RawPagePanics(t)
  \/ \E c \in Chunks : Account(t, c)

DropStep(t) ==
  ReleaseChunk(t) \/ DropPackedArc(t) \/ FreePacked(t) \/ DropCurrent(t)

ChunkStep(t) == AllocStep(t) \/ DropStep(t)

ChunkCall(t) ==
  \/ \E tn \in Tenants, size \in Sizes, align \in Aligns : AllocateAligned(t, tn, size, align)
  \/ \E c \in Chunks : DropChunk(t, c)
  \/ DropPages(t)

ChunkUser(c) == Seal(c) \/ CloneChunk(c) \/ DropClone(c)

\* Pool and chunks are gone, and so are the pages.
ChunkFinished ==
  /\ ~open
  /\ \A t \in Threads : pc[t] = "idle"
  /\ \A c \in Chunks : chunk[c].st = "none"
  /\ \A b \in Bufs : owner[b] = "source"
  /\ UNCHANGED cvars

ChunkNext ==
  \/ \E t \in Threads : ChunkStep(t) \/ ChunkCall(t)
  \/ \E c \in Chunks : ChunkUser(c)
  \/ \E b \in Bufs : PrewarmOne(b) \/ PagePoolReleases(b)
  \/ ChunkFinished

ChunkSpec == ChunkInit /\ [][ChunkNext]_cvars

-----------------------------------------------------------------------------
(* Properties.                                                             *)

\* Claims on a page: live chunks, and a chunk about to be handed out.
Claims ==
  {[mem |-> chunk[c].mem, off |-> chunk[c].off, size |-> chunk[c].cap,
    align |-> chunk[c].align, by |-> c] : c \in {c \in Chunks : chunk[c].st # "none"}}
  \cup
  {[mem |-> reg[t].mem, off |-> reg[t].off, size |-> reg[t].size,
    align |-> reg[t].align, by |-> t] : t \in {t \in Threads : pc[t] = "account"}}

PageClaims == {x \in Claims : x.mem \in Bufs}

\* The module's safety argument: two chunks on one page never overlap, all
\* lie inside the page, and the cursor of the open page is past all of them,
\* so what is written later overlaps none of them either.
RangesDisjoint ==
  /\ \A x, y \in PageClaims :
       x.by # y.by /\ x.mem = y.mem => \/ x.off + x.size <= y.off
                                       \/ y.off + y.size <= x.off
  /\ \A x \in PageClaims : x.off + x.size <= PageBytes
  /\ \A x \in PageClaims : x.mem = current.mem => x.off + x.size <= current.off

\* The address of a chunk on a page has the alignment asked for, wherever the
\* buffer lies: "aligned to `align`".
AddressesAligned ==
  \A x \in PageClaims : (Base[x.mem] + x.off) % x.align = 0

\* A page is with the user exactly while an Arc<PackedPage> on it exists or
\* its last holder is returning it: it is returned once, never under a live
\* chunk or the open page, and never forgotten.
PagesHeldWhileUsed ==
  LET Returning == {reg[t].mem : t \in {t \in Threads : pc[t] \in {"free", "retired"}}}
  IN  /\ \A b \in Bufs : owner[b] = "user" <=> arcs[b] # {} \/ b \in Returning
      /\ \A b \in Returning : arcs[b] = {}
      /\ \A x \in Claims : x.mem # NULL => x.by \in arcs[x.mem]
      /\ current.mem # NULL => OPEN \in arcs[current.mem]

\* The chunks that count: those with a handle, and those of the threads that
\* have started the last drop and not accounted for it yet.
LiveChunks == {c \in Chunks : chunk[c].st # "none"}
Releasing  == {t \in Threads : pc[t] = "release"}

\* chunks_in_use, oversized_bytes_in_use and the tenant's chunks and bytes
\* count what is alive, whatever path it took and whoever dropped it.
ChunkCountersExact ==
  /\ cstats.in_use = (Cardinality(LiveChunks) + Cardinality(Releasing)) % U64
  /\ cstats.over_bytes =
       (SumFunctionOnSet([c \in Chunks |-> chunk[c].over], LiveChunks)
         + SumFunctionOnSet([t \in Threads |-> reg[t].over], Releasing)) % U64
  /\ \A tn \in Tenants :
       LET live    == {c \in LiveChunks : chunk[c].ten = tn}
           leaving == {t \in Releasing : reg[t].ten = tn}
       IN  /\ tstats[tn].chunks = (Cardinality(live) + Cardinality(leaving)) % U64
           /\ tstats[tn].bytes =
                (SumFunctionOnSet([c \in Chunks |-> chunk[c].cap], live)
                  + SumFunctionOnSet([t \in Threads |-> reg[t].size], leaving)) % U64

\* A packed request fits into a page it has just opened: the loop of
\* allocate_packed opens at most one page.
OpensAtMostOnePage ==
  \A t \in Threads : pc[t] = "packed" /\ current.mem # NULL /\ current.off = 0
    => Fits(Base[current.mem], 0, reg[t].size, reg[t].align)

\* "Allocates a chunk of exactly `size` bytes" (src/src/chunk.rs:289): what is
\* recorded for a chunk is what its drop gives back, so a tenant with no chunk
\* and no call in progress has no bytes in use.
NothingOwed ==
  (\A t \in Threads : pc[t] = "idle") /\ (\A c \in Chunks : chunk[c].st = "none")
    => \A tn \in Tenants : tstats[tn].bytes = 0
=============================================================================
