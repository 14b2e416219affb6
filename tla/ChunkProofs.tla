---------------------------- MODULE ChunkProofs ----------------------------
(***************************************************************************)
(* What ChunkPool and ChunkContent promise, for any number of threads,     *)
(* buffers, heap blocks, chunks and tenants, any page size and any mix of  *)
(* sizes and alignments.                                                   *)
(*                                                                         *)
(* The invariant of ChunkPool has two halves.  Ownership: the Arcs on a    *)
(* page are known exactly, so the step that sees the last one go is the    *)
(* only one to return the page, and a page from the PagePool carries no    *)
(* claim.  Layout: on a page with claims they are disjoint, inside,        *)
(* aligned, and behind the cursor if the page is open; that is arithmetic  *)
(* of align_up.  The counters then follow the chunks that come and go.     *)
(*                                                                         *)
(* ChunkContent implements HandleStore.  The bytes of a chunk are a range  *)
(* of a page or a block.  A write of a builder stays in its own range, and *)
(* ranges on a page are disjoint; a block has one holder.  Everything else *)
(* that writes (links, the zeros of fresh memory) writes memory that no    *)
(* Arc<PackedPage> refers to, before or after the step.                    *)
(***************************************************************************)
EXTENDS ChunkContent, CounterLemmas, SequenceTheorems

-----------------------------------------------------------------------------
(* The pool: the invariant.                                                *)

Holders == {OPEN} \cup Chunks \cup Threads
HoldPcs == {"account", "release", "arc_drop"}
ReturnPcs == {"free", "retired"}

\* What a request is known to be on the paths that take pages.
PackedRequest(r) ==
  /\ r.size \in 1 .. Threshold /\ r.align \in Aligns
  /\ r.align > DefaultAlign => r.size + (r.align - 1) <= PageBytes
DedicatedRequest(r) ==
  /\ r.size \in 1 .. PageBytes /\ r.align \in Aligns /\ r.align <= DefaultAlign
  /\ r.off = 0

RequestsOK ==
  \A t \in Threads :
    /\ pc[t] \in AllocPcs \cup {"release", "arc_drop"} => reg[t].ten \in Tenants
    /\ pc[t] \in {"packed", "retired", "open"} => PackedRequest(reg[t])
    /\ pc[t] = "dedicated" => DedicatedRequest(reg[t])
    /\ pc[t] = "zero" => reg[t].mem = NULL

\* &mut self: one thread at a time is inside the pool.
OneInside == \A t, u \in Threads : pc[t] \in PoolPcs /\ pc[u] \in PoolPcs => t = u

NothingOpenYet == \A t \in Threads : pc[t] \in {"open", "retired"} => current.mem = NULL

LiveChunksOK ==
  \A c \in Chunks : IF chunk[c].st = "none" THEN chunk[c].refs = 0
                    ELSE chunk[c].refs > 0 /\ chunk[c].ten \in Tenants

\* Who has an Arc<PackedPage> on m.
Uses(h, m) ==
  \/ h = OPEN /\ current.mem = m
  \/ h \in Chunks /\ chunk[h].st # "none" /\ chunk[h].mem = m
  \/ h \in Threads /\ pc[h] \in HoldPcs /\ reg[h].mem = m

ArcsExact == \A m \in Memory, h \in Holders : h \in arcs[m] <=> Uses(h, m)

\* A page that lost its last Arc has one thread that returns it.
ReturningOK ==
  /\ \A t \in Threads : pc[t] \in ReturnPcs => reg[t].mem \in Bufs /\ arcs[reg[t].mem] = {}
  /\ \A t, u \in Threads :
       pc[t] \in ReturnPcs /\ pc[u] \in ReturnPcs /\ reg[t].mem = reg[u].mem => t = u

OwnersOK ==
  \A b \in Bufs :
    owner[b] = "user" <=> \/ arcs[b] # {}
                          \/ \E t \in Threads : pc[t] \in ReturnPcs /\ reg[t].mem = b

OwnershipInv ==
  /\ ChunkTypeOK /\ RequestsOK /\ OneInside /\ NothingOpenYet /\ LiveChunksOK
  /\ ArcsExact /\ ReturningOK /\ OwnersOK

\* The claim of a chunk, or of a thread that is about to make one.
Claimants == {c \in Chunks : chunk[c].st # "none"} \cup {t \in Threads : pc[t] = "account"}
MemOf(h)   == IF h \in Chunks THEN chunk[h].mem ELSE reg[h].mem
OffOf(h)   == IF h \in Chunks THEN chunk[h].off ELSE reg[h].off
SizeOf(h)  == IF h \in Chunks THEN chunk[h].cap ELSE reg[h].size
AlignOf(h) == IF h \in Chunks THEN chunk[h].align ELSE reg[h].align

ClaimOK(h) ==
  /\ OffOf(h) + SizeOf(h) <= PageBytes
  /\ h \in Threads => SizeOf(h) > 0
  /\ MemOf(h) = current.mem => OffOf(h) + SizeOf(h) <= current.off
  /\ (Base[MemOf(h)] + OffOf(h)) % AlignOf(h) = 0
Apart(g, h) ==
  OffOf(g) + SizeOf(g) <= OffOf(h) \/ OffOf(h) + SizeOf(h) <= OffOf(g)

LayoutInv ==
  /\ \A h \in Claimants : MemOf(h) \in Bufs => ClaimOK(h)
  /\ \A g, h \in Claimants : g # h /\ MemOf(g) \in Bufs /\ MemOf(g) = MemOf(h) => Apart(g, h)

ChunkInv == OwnershipInv /\ LayoutInv

-----------------------------------------------------------------------------
(* Arithmetic.                                                             *)

\* A multiple is what leaves no remainder.
LEMMA ModZero ==
  ASSUME NEW a \in Nat, NEW d \in Nat \ {0}
  PROVE  a % d = 0 <=> \E q \in Nat : a = d * q
  <1>1. a = d * (a \div d) + (a % d) /\ a \div d \in Nat
    OBVIOUS
  <1>2. ASSUME a % d = 0 PROVE \E q \in Nat : a = d * q
    BY <1>1, <1>2
  <1>3. ASSUME NEW q \in Nat, a = d * q PROVE a % d = 0
    BY <1>3
  <1> QED  BY <1>2, <1>3

\* A multiple of a multiple is a multiple.
LEMMA ModTrans ==
  ASSUME NEW a \in Nat, NEW b \in Nat \ {0}, NEW c \in Nat \ {0}, a % b = 0, b % c = 0
  PROVE  a % c = 0
  <1>1. PICK q \in Nat : a = b * q
    BY ModZero
  <1>2. PICK r \in Nat : b = c * r
    BY ModZero
  <1>3. a = c * (r * q) /\ r * q \in Nat
    BY <1>1, <1>2
  <1> QED  BY <1>3, ModZero

\* A multiple and a rest leave the rest.
LEMMA MultipleMod ==
  ASSUME NEW d \in Nat \ {0}, NEW q \in Nat, NEW r \in 0 .. d - 1
  PROVE  (d * q + r) % d = r /\ (d * q) % d = 0
  OBVIOUS

\* align_up rounds up to a multiple, by less than align, and leaves multiples.
LEMMA AlignUpFacts ==
  ASSUME NEW v \in Nat, NEW a \in Nat \ {0}
  PROVE  /\ AlignUp(v, a) \in v .. v + a - 1
         /\ AlignUp(v, a) % a = 0
         /\ v % a = 0 => AlignUp(v, a) = v
  <1> DEFINE w == v + a - 1
  <1>1. w \in Nat /\ w = v + a - 1 /\ AlignUp(v, a) = w - (w % a)
    BY DEF AlignUp
  <1> HIDE DEF w
  <1>2. w = a * (w \div a) + (w % a) /\ w \div a \in Nat /\ w % a \in 0 .. a - 1
    BY <1>1
  <1>3. AlignUp(v, a) \in v .. v + a - 1
    BY <1>1, <1>2
  <1>4. AlignUp(v, a) % a = 0
    <2>1. AlignUp(v, a) = a * (w \div a)
      BY <1>1, <1>2
    <2> QED  BY <1>2, <2>1, MultipleMod
  <1>5. ASSUME v % a = 0 PROVE AlignUp(v, a) = v
    <2>1. PICK q \in Nat : v = a * q
      BY <1>5, ModZero
    <2>2. w = a * q + (a - 1) /\ a - 1 \in 0 .. a - 1
      BY <1>1, <2>1
    <2>3. (a * q + (a - 1)) % a = a - 1
      BY <2>2, MultipleMod
    <2>4. w % a = a - 1
      BY <2>2, <2>3
    <2> QED  BY <1>1, <2>4
  <1> QED  BY <1>3, <1>4, <1>5

\* allocate_packed: the new chunk is behind the cursor, and its address aligned.
LEMMA PackedOffsetFacts ==
  ASSUME NEW base \in Nat, NEW offset \in Nat, NEW a \in Nat \ {0}
  PROVE  /\ PackedOffset(base, offset, a) \in offset .. offset + a - 1
         /\ (base + PackedOffset(base, offset, a)) % a = 0
  <1> DEFINE v == base + offset
  <1>0. v \in Nat
    OBVIOUS
  <1> HIDE DEF v
  <1>1. AlignUp(v, a) \in v .. v + a - 1 /\ AlignUp(v, a) % a = 0
    BY <1>0, AlignUpFacts
  <1> USE DEF v
  <1>2. base + PackedOffset(base, offset, a) = AlignUp(base + offset, a)
    BY <1>1 DEF PackedOffset
  <1> QED  BY <1>1, <1>2 DEF PackedOffset

\* A source's page is aligned for every alignment up to DEFAULT_ALIGN.
LEMMA BaseAligned ==
  ASSUME NEW b \in Bufs, NEW a \in Aligns, a <= DefaultAlign
  PROVE  Base[b] % a = 0
  BY ModTrans, ChunkAssumption, LayoutAssumption

\* A packed request fits into an empty page, wherever the page lies.
LEMMA FitsEmpty ==
  ASSUME NEW b \in Bufs, NEW r, PackedRequest(r)
  PROVE  Fits(Base[b], 0, r.size, r.align)
  <1>1. /\ Base[b] \in Nat /\ r.align \in Nat \ {0} /\ r.size \in Nat
        /\ r.size <= PageBytes /\ PageBytes \in Nat /\ DefaultAlign \in Nat
    <2>1. PageBytes \in Nat /\ Threshold \in Nat /\ Threshold <= PageBytes
      BY LayoutAssumption DEF Threshold
    <2>2. r.size \in Nat /\ r.size <= PageBytes
      BY <2>1 DEF PackedRequest
    <2>3. Base[b] \in Nat /\ r.align \in Nat \ {0}
      BY ChunkAssumption DEF PackedRequest
    <2> QED  BY <2>2, <2>3, LayoutAssumption
  <1>2. PackedOffset(Base[b], 0, r.align) \in 0 .. 0 + r.align - 1
    BY <1>1, PackedOffsetFacts
  <1>3. CASE r.align <= DefaultAlign
    <2>1. Base[b] % r.align = 0
      BY <1>3, BaseAligned DEF PackedRequest
    <2>2. AlignUp(Base[b], r.align) = Base[b] /\ Base[b] + 0 = Base[b]
      <3>1. ASSUME NEW v \in Nat, NEW a \in Nat \ {0}, v % a = 0 PROVE AlignUp(v, a) = v
        BY <3>1, AlignUpFacts
      <3> QED  BY <1>1, <2>1, <3>1
    <2>3. PackedOffset(Base[b], 0, r.align) = 0
      BY <1>1, <2>2 DEF PackedOffset
    <2> QED  BY <1>1, <2>3 DEF Fits
  <1>4. CASE r.align > DefaultAlign
    BY <1>1, <1>2, <1>4 DEF Fits, PackedRequest
  <1> QED  BY <1>1, <1>3, <1>4

-----------------------------------------------------------------------------
(* Ownership: one lemma per action.                                        *)

USE DEF AllocPcs, DropPoolPcs, PoolPcs, DropPcs, HoldPcs, ReturnPcs, Memory, Holders

RegType ==
  [mem : Memory \cup {NULL}, off : Nat, size : Nat, align : Nat, ten : Tenants \cup {NULL},
   over : Nat, class : {"zero", "packed", "dedicated", "oversized"}]

\* What the dispatch of allocate_aligned knows on each path.
LEMMA ClassFacts ==
  ASSUME NEW size \in Nat, NEW align \in Aligns
  PROVE  /\ Class(size, align) \in {"zero", "packed", "dedicated", "oversized"}
         /\ Class(size, align) = "packed" =>
              /\ size \in 1 .. Threshold
              /\ align > DefaultAlign => size + (align - 1) <= PageBytes
         /\ Class(size, align) = "dedicated" =>
              size \in 1 .. PageBytes /\ align <= DefaultAlign
  <1>1. PageBytes \in Nat /\ DefaultAlign \in Nat /\ Threshold \in Nat /\ align \in Nat
    BY LayoutAssumption, ChunkAssumption DEF Threshold
  <1> QED  BY <1>1 DEF Class

\* NULL, OPEN, chunks, threads, buffers and blocks are told apart.
LEMMA Distinct ==
  /\ NULL \notin Memory /\ NULL \notin Tenants /\ Bufs \cap Blocks = {}
  /\ OPEN \notin Chunks /\ OPEN \notin Threads /\ Chunks \cap Threads = {}
  BY ChunkAssumption

\* A chunk that fits lies behind the cursor and inside the page.
LEMMA PackFacts ==
  ASSUME ChunkTypeOK, RequestsOK, NEW t \in Threads, pc[t] = "packed", HasRoom(t)
  PROVE  /\ NextOffset(t) \in Nat /\ current.off <= NextOffset(t)
         /\ NextOffset(t) + reg[t].size <= PageBytes
         /\ (Base[current.mem] + NextOffset(t)) % reg[t].align = 0
         /\ reg[t].size \in Nat \ {0}
  <1>1. /\ current.mem \in Bufs /\ Base[current.mem] \in Nat /\ current.off \in Nat
        /\ reg[t].align \in Nat \ {0}
    BY ChunkAssumption, LayoutAssumption DEF ChunkTypeOK, RequestsOK, PackedRequest, HasRoom
  <1>2. reg[t].size \in Nat \ {0}
    BY DEF ChunkTypeOK, RequestsOK, PackedRequest
  <1>3. /\ NextOffset(t) \in current.off .. current.off + reg[t].align - 1
        /\ (Base[current.mem] + NextOffset(t)) % reg[t].align = 0
    BY <1>1, PackedOffsetFacts DEF NextOffset
  <1>4. NextOffset(t) + reg[t].size <= PageBytes
    BY DEF HasRoom, Fits, NextOffset
  <1> QED  BY <1>1, <1>2, <1>3, <1>4

\* allocate_aligned dispatches.
LEMMA AllocateAlignedOwn ==
  ASSUME OwnershipInv, NEW t \in Threads, NEW tn \in Tenants, NEW size \in Sizes, NEW align \in Aligns,
         AllocateAligned(t, tn, size, align)
  PROVE  OwnershipInv'
  <1> USE DEF OwnershipInv
  <1>1. /\ PoolFree /\ pc[t] = "idle" /\ pc' = [pc EXCEPT ![t] = Class(size, align)]
        /\ reg' = [reg EXCEPT ![t] = [NoReg EXCEPT !.size = size, !.align = align, !.ten = tn,
                                                   !.class = Class(size, align)]]
        /\ current' = current /\ arcs' = arcs /\ chunk' = chunk /\ cstats' = cstats /\ tstats' = tstats
        /\ owner' = owner /\ open' = open /\ size \in Nat /\ align \in Nat
        /\ Class(size, align) \in {"zero", "packed", "dedicated", "oversized"}
    BY ClassFacts, ChunkAssumption DEF AllocateAligned, Goto, ledger
  <1>2. /\ pc'[t] = Class(size, align) /\ pc' \in [Threads -> {"idle"} \cup PoolPcs \cup DropPcs]
        /\ reg'[t].mem = NULL /\ reg'[t].off = 0 /\ reg'[t].size = size
        /\ reg'[t].align = align /\ reg'[t].ten = tn /\ reg' \in [Threads -> RegType]
        /\ \A u \in Threads \ {t} : pc'[u] = pc[u] /\ reg'[u] = reg[u]
    BY <1>1 DEF ChunkTypeOK, RegType, NoReg
  <1>3. ChunkTypeOK'
    BY <1>1, <1>2 DEF ChunkTypeOK, LedgerTypeOK, TenantTypeOK, RegType
  <1>4. RequestsOK'
    BY <1>1, <1>2, ClassFacts DEF RequestsOK, PackedRequest, DedicatedRequest
  <1>5. OneInside'
    BY <1>1, <1>2 DEF OneInside, PoolFree
  <1>6. NothingOpenYet'
    BY <1>1, <1>2 DEF NothingOpenYet
  <1>7. LiveChunksOK'
    BY <1>1, <1>2 DEF LiveChunksOK
  <1>8. ArcsExact'
    BY <1>1, <1>2 DEF ArcsExact, Uses
  <1>9. ReturningOK'
    BY <1>1, <1>2 DEF ReturningOK
  <1>10. OwnersOK'
    BY <1>1, <1>2 DEF OwnersOK
  <1> QED  BY <1>3, <1>4, <1>5, <1>6, <1>7, <1>8, <1>9, <1>10

\* allocate_packed puts the chunk behind the cursor: one more Arc.
LEMMA PackOwn ==
  ASSUME OwnershipInv, NEW t \in Threads, Pack(t)
  PROVE  OwnershipInv'
  <1> USE DEF OwnershipInv
  <1>1. /\ pc[t] = "packed" /\ pc' = [pc EXCEPT ![t] = "account"] /\ HasRoom(t)
        /\ current' = [current EXCEPT !.off = NextOffset(t) + reg[t].size]
        /\ current.mem \in Bufs
        /\ arcs' = [arcs EXCEPT ![current.mem] = @ \cup {t}]
        /\ reg' = [reg EXCEPT ![t].mem = current.mem, ![t].off = NextOffset(t)]
        /\ chunk' = chunk /\ cstats' = cstats /\ tstats' = tstats /\ owner' = owner /\ open' = open
    BY DEF Pack, Goto, HasRoom, ledger, ChunkTypeOK
  <1>2. /\ NextOffset(t) \in Nat /\ NextOffset(t) + reg[t].size <= PageBytes
        /\ current'.mem = current.mem /\ current'.off = NextOffset(t) + reg[t].size
        /\ current' \in [mem : Bufs \cup {NULL}, off : 0 .. PageBytes]
        /\ pc'[t] = "account" /\ reg'[t].mem = current.mem /\ reg'[t].ten = reg[t].ten
        /\ reg' \in [Threads -> RegType]
        /\ \A u \in Threads \ {t} : pc'[u] = pc[u] /\ reg'[u] = reg[u]
        /\ arcs'[current.mem] = arcs[current.mem] \cup {t} /\ arcs[current.mem] # {}
        /\ \A m \in Memory \ {current.mem} : arcs'[m] = arcs[m]
    <2>1. NextOffset(t) \in Nat /\ NextOffset(t) + reg[t].size <= PageBytes
      BY <1>1, PackFacts
    <2>2. reg[t] \in RegType /\ current \in [mem : Bufs \cup {NULL}, off : 0 .. PageBytes]
      BY DEF ChunkTypeOK, RegType
    <2>3. /\ current'.mem = current.mem /\ current'.off = NextOffset(t) + reg[t].size
          /\ current' \in [mem : Bufs \cup {NULL}, off : 0 .. PageBytes]
      BY <1>1, <2>1, <2>2, LayoutAssumption DEF RegType
    <2>4. /\ pc'[t] = "account" /\ reg'[t].mem = current.mem /\ reg'[t].ten = reg[t].ten
          /\ reg' \in [Threads -> RegType]
          /\ \A u \in Threads \ {t} : pc'[u] = pc[u] /\ reg'[u] = reg[u]
      BY <1>1, <2>1, <2>2 DEF ChunkTypeOK, RegType
    <2>5. /\ arcs'[current.mem] = arcs[current.mem] \cup {t} /\ OPEN \in arcs[current.mem]
          /\ \A m \in Memory \ {current.mem} : arcs'[m] = arcs[m]
      BY <1>1 DEF ChunkTypeOK, ArcsExact, Uses
    <2> QED  BY <2>1, <2>3, <2>4, <2>5
  <1>3. ChunkTypeOK'
    BY <1>1, <1>2 DEF ChunkTypeOK, LedgerTypeOK, TenantTypeOK, RegType
  <1>4. RequestsOK'
    BY <1>1, <1>2 DEF RequestsOK, PackedRequest, DedicatedRequest
  <1>5. OneInside'
    BY <1>1, <1>2 DEF OneInside
  <1>6. NothingOpenYet'
    BY <1>1, <1>2 DEF NothingOpenYet
  <1>7. LiveChunksOK'
    BY <1>1, <1>2 DEF LiveChunksOK
  <1>8. ArcsExact'
    BY <1>1, <1>2, Distinct DEF ArcsExact, Uses
  <1>9. ReturningOK'
    BY <1>1, <1>2 DEF ReturningOK
  <1>10. OwnersOK'
    BY <1>1, <1>2 DEF OwnersOK
  <1> QED  BY <1>3, <1>4, <1>5, <1>6, <1>7, <1>8, <1>9, <1>10

\* The open page is full: the pool drops its Arc.
LEMMA RetireOwn ==
  ASSUME OwnershipInv, NEW t \in Threads, Retire(t)
  PROVE  OwnershipInv'
  <1> USE DEF OwnershipInv
  <1>1. /\ pc[t] = "packed" /\ current.mem \in Bufs /\ current' = NoOpen
        /\ arcs' = [arcs EXCEPT ![current.mem] = @ \ {OPEN}]
        /\ pc' = [pc EXCEPT ![t] = IF arcs[current.mem] \ {OPEN} = {} THEN "retired" ELSE "open"]
        /\ reg' = [reg EXCEPT ![t].mem = current.mem]
        /\ chunk' = chunk /\ cstats' = cstats /\ tstats' = tstats /\ owner' = owner /\ open' = open
    BY DEF Retire, ledger, ChunkTypeOK
  <1>2. /\ current'.mem = NULL /\ current' \in [mem : Bufs \cup {NULL}, off : 0 .. PageBytes]
        /\ pc'[t] \in {"retired", "open"}
        /\ pc'[t] = "retired" <=> arcs'[current.mem] = {}
        /\ reg'[t].mem = current.mem /\ reg' \in [Threads -> RegType]
        /\ reg'[t].ten = reg[t].ten /\ reg'[t].size = reg[t].size
        /\ reg'[t].align = reg[t].align
        /\ \A u \in Threads \ {t} : pc'[u] = pc[u] /\ reg'[u] = reg[u]
        /\ arcs'[current.mem] = arcs[current.mem] \ {OPEN} /\ OPEN \in arcs[current.mem]
        /\ \A m \in Memory \ {current.mem} : arcs'[m] = arcs[m]
    BY <1>1, LayoutAssumption DEF ChunkTypeOK, RegType, NoOpen, ArcsExact, Uses
  <1>3. ChunkTypeOK'
    BY <1>1, <1>2 DEF ChunkTypeOK, LedgerTypeOK, TenantTypeOK, RegType
  <1>4. RequestsOK'
    BY <1>1, <1>2 DEF RequestsOK, PackedRequest, DedicatedRequest
  <1>5. OneInside'
    BY <1>1, <1>2 DEF OneInside
  <1>6. NothingOpenYet'
    BY <1>1, <1>2 DEF NothingOpenYet
  <1>7. LiveChunksOK'
    BY <1>1, <1>2 DEF LiveChunksOK
  <1>8. ArcsExact'
    BY <1>1, <1>2, Distinct DEF ArcsExact, Uses
  <1>9. ReturningOK'
    <2>1. \A u \in Threads \ {t} : pc[u] \in ReturnPcs =>
            reg[u].mem \in Bufs \ {current.mem} /\ arcs'[reg[u].mem] = {}
      BY <1>2 DEF ReturningOK
    <2> QED  BY <1>1, <1>2, <2>1 DEF ReturningOK
  <1>10. OwnersOK'
    BY <1>1, <1>2 DEF OwnersOK
  <1> QED  BY <1>3, <1>4, <1>5, <1>6, <1>7, <1>8, <1>9, <1>10

\* PackedPage::drop of the retired page.
LEMMA ReturnRetiredOwn ==
  ASSUME OwnershipInv, NEW t \in Threads, ReturnRetired(t)
  PROVE  OwnershipInv'
  <1> USE DEF OwnershipInv
  <1>1. /\ pc[t] = "retired" /\ pc' = [pc EXCEPT ![t] = "open"]
        /\ owner[reg[t].mem] = "user" /\ owner' = [owner EXCEPT ![reg[t].mem] = "pool"]
        /\ open' = open /\ reg' = reg /\ current' = current /\ arcs' = arcs
        /\ chunk' = chunk /\ cstats' = cstats /\ tstats' = tstats
    BY DEF ReturnRetired, Goto, Return, Move
  <1>2. /\ pc'[t] = "open" /\ \A u \in Threads \ {t} : pc'[u] = pc[u] /\ reg'[u] = reg[u]
        /\ reg[t].mem \in Bufs /\ owner'[reg[t].mem] = "pool" /\ arcs[reg[t].mem] = {}
        /\ \A b \in Bufs \ {reg[t].mem} : owner'[b] = owner[b]
    BY <1>1 DEF ChunkTypeOK, RegType, LedgerTypeOK, ReturningOK
  <1>3. ChunkTypeOK'
    BY <1>1, <1>2 DEF ChunkTypeOK, LedgerTypeOK, TenantTypeOK, RegType
  <1>4. RequestsOK'
    BY <1>1, <1>2 DEF RequestsOK, PackedRequest, DedicatedRequest
  <1>5. OneInside'
    BY <1>1, <1>2 DEF OneInside
  <1>6. NothingOpenYet'
    BY <1>1, <1>2 DEF NothingOpenYet
  <1>7. LiveChunksOK'
    BY <1>1, <1>2 DEF LiveChunksOK
  <1>8. ArcsExact'
    BY <1>1, <1>2 DEF ArcsExact, Uses
  <1>9. ReturningOK'
    BY <1>1, <1>2 DEF ReturningOK
  <1>10. OwnersOK'
    BY <1>1, <1>2 DEF OwnersOK, ReturningOK
  <1> QED  BY <1>3, <1>4, <1>5, <1>6, <1>7, <1>8, <1>9, <1>10

\* No page is open.
LEMMA NothingOpenOwn ==
  ASSUME OwnershipInv, NEW t \in Threads, NothingOpen(t)
  PROVE  OwnershipInv'
  <1> USE DEF OwnershipInv
  <1>1. /\ pc[t] = "packed" /\ pc' = [pc EXCEPT ![t] = "open"] /\ current.mem = NULL
        /\ reg' = reg /\ current' = current /\ arcs' = arcs
        /\ chunk' = chunk /\ cstats' = cstats /\ tstats' = tstats /\ owner' = owner /\ open' = open
    BY DEF NothingOpen, Goto, ledger
  <1>2. /\ pc'[t] = "open" /\ \A u \in Threads \ {t} : pc'[u] = pc[u] /\ reg'[u] = reg[u]
    BY <1>1 DEF ChunkTypeOK, RegType
  <1>3. ChunkTypeOK'
    BY <1>1, <1>2 DEF ChunkTypeOK, LedgerTypeOK, TenantTypeOK, RegType
  <1>4. RequestsOK'
    BY <1>1, <1>2 DEF RequestsOK, PackedRequest, DedicatedRequest
  <1>5. OneInside'
    BY <1>1, <1>2 DEF OneInside
  <1>6. NothingOpenYet'
    BY <1>1, <1>2 DEF NothingOpenYet
  <1>7. LiveChunksOK'
    BY <1>1, <1>2 DEF LiveChunksOK
  <1>8. ArcsExact'
    BY <1>1, <1>2 DEF ArcsExact, Uses
  <1>9. ReturningOK'
    BY <1>1, <1>2 DEF ReturningOK
  <1>10. OwnersOK'
    BY <1>1, <1>2 DEF OwnersOK
  <1> QED  BY <1>3, <1>4, <1>5, <1>6, <1>7, <1>8, <1>9, <1>10

\* A page from the PagePool becomes the open page.
LEMMA OpenNewPageOwn ==
  ASSUME OwnershipInv, NEW t \in Threads, NEW b \in Bufs, OpenNewPage(t, b)
  PROVE  OwnershipInv'
  <1> USE DEF OwnershipInv
  <1>1. /\ pc[t] = "open" /\ pc' = [pc EXCEPT ![t] = "packed"]
        /\ owner[b] # "user" /\ owner' = [owner EXCEPT ![b] = "user"] /\ open' = open
        /\ current' = [mem |-> b, off |-> 0] /\ arcs' = [arcs EXCEPT ![b] = {OPEN}]
        /\ reg' = [reg EXCEPT ![t].mem = NULL]
        /\ chunk' = chunk /\ cstats' = cstats /\ tstats' = tstats
    BY DEF OpenNewPage, Goto, RawPage, Grant, Obtain, Move
  <1>2. /\ pc'[t] = "packed" /\ reg'[t].mem = NULL /\ reg' \in [Threads -> RegType]
        /\ reg'[t].ten = reg[t].ten /\ reg'[t].size = reg[t].size
        /\ reg'[t].align = reg[t].align
        /\ \A u \in Threads \ {t} : pc'[u] = pc[u] /\ reg'[u] = reg[u]
        /\ current'.mem = b /\ current' \in [mem : Bufs \cup {NULL}, off : 0 .. PageBytes]
        /\ current.mem = NULL
        /\ arcs[b] = {} /\ arcs'[b] = {OPEN} /\ \A m \in Memory \ {b} : arcs'[m] = arcs[m]
        /\ \A u \in Threads : pc[u] \in ReturnPcs => reg[u].mem # b
        /\ owner'[b] = "user" /\ \A a \in Bufs \ {b} : owner'[a] = owner[a]
    <2>1. /\ pc'[t] = "packed" /\ reg'[t].mem = NULL /\ reg' \in [Threads -> RegType]
          /\ reg'[t].ten = reg[t].ten /\ reg'[t].size = reg[t].size
          /\ reg'[t].align = reg[t].align
          /\ \A u \in Threads \ {t} : pc'[u] = pc[u] /\ reg'[u] = reg[u]
      BY <1>1 DEF ChunkTypeOK, RegType
    <2>2. /\ current'.mem = b /\ current' \in [mem : Bufs \cup {NULL}, off : 0 .. PageBytes]
          /\ current.mem = NULL
      BY <1>1, LayoutAssumption DEF NothingOpenYet
    <2>3. arcs[b] = {} /\ \A u \in Threads : pc[u] \in ReturnPcs => reg[u].mem # b
      BY <1>1 DEF OwnersOK
    <2>4. /\ arcs'[b] = {OPEN} /\ \A m \in Memory \ {b} : arcs'[m] = arcs[m]
          /\ owner'[b] = "user" /\ \A a \in Bufs \ {b} : owner'[a] = owner[a]
      BY <1>1 DEF ChunkTypeOK, LedgerTypeOK
    <2> QED  BY <2>1, <2>2, <2>3, <2>4
  <1>3. ChunkTypeOK'
    BY <1>1, <1>2 DEF ChunkTypeOK, LedgerTypeOK, TenantTypeOK, RegType
  <1>4. RequestsOK'
    BY <1>1, <1>2 DEF RequestsOK, PackedRequest, DedicatedRequest
  <1>5. OneInside'
    BY <1>1, <1>2 DEF OneInside
  <1>6. NothingOpenYet'
    BY <1>1, <1>2 DEF NothingOpenYet, OneInside
  <1>7. LiveChunksOK'
    BY <1>1, <1>2 DEF LiveChunksOK
  <1>8. ArcsExact'
    BY <1>1, <1>2, Distinct DEF ArcsExact, Uses
  <1>9. ReturningOK'
    <2>1. \A u \in Threads : pc'[u] \in ReturnPcs =>
            pc[u] \in ReturnPcs /\ reg'[u].mem = reg[u].mem /\ reg[u].mem # b
      BY <1>1, <1>2
    <2>2. \A u \in Threads : pc[u] \in ReturnPcs /\ reg[u].mem # b =>
            reg[u].mem \in Bufs /\ arcs'[reg[u].mem] = arcs[reg[u].mem]
      BY <1>2 DEF ReturningOK
    <2> QED  BY <2>1, <2>2 DEF ReturningOK
  <1>10. OwnersOK'
    <2>1. \A u \in Threads : pc'[u] \in ReturnPcs <=> pc[u] \in ReturnPcs
      BY <1>1, <1>2
    <2>2. \A u \in Threads : pc[u] \in ReturnPcs => reg'[u].mem = reg[u].mem
      BY <1>1, <1>2
    <2> QED  BY <1>2, <2>1, <2>2 DEF OwnersOK
  <1> QED  BY <1>3, <1>4, <1>5, <1>6, <1>7, <1>8, <1>9, <1>10

\* A page of its own for one chunk.
LEMMA AllocateDedicatedOwn ==
  ASSUME OwnershipInv, NEW t \in Threads, NEW b \in Bufs, AllocateDedicated(t, b)
  PROVE  OwnershipInv'
  <1> USE DEF OwnershipInv
  <1>1. /\ pc[t] = "dedicated" /\ pc' = [pc EXCEPT ![t] = "account"]
        /\ owner[b] # "user" /\ owner' = [owner EXCEPT ![b] = "user"] /\ open' = open
        /\ arcs' = [arcs EXCEPT ![b] = {t}]
        /\ reg' = [reg EXCEPT ![t].mem = b] /\ current' = current
        /\ chunk' = chunk /\ cstats' = cstats /\ tstats' = tstats
    BY DEF AllocateDedicated, Goto, RawPage, Grant, Obtain, Move
  <1>2. /\ pc'[t] = "account" /\ reg'[t].mem = b /\ reg' \in [Threads -> RegType]
        /\ reg'[t].ten = reg[t].ten
        /\ \A u \in Threads \ {t} : pc'[u] = pc[u] /\ reg'[u] = reg[u]
        /\ arcs[b] = {} /\ arcs'[b] = {t} /\ \A m \in Memory \ {b} : arcs'[m] = arcs[m]
        /\ \A u \in Threads : pc[u] \in ReturnPcs => reg[u].mem # b
        /\ owner'[b] = "user" /\ \A a \in Bufs \ {b} : owner'[a] = owner[a]
    <2>1. /\ pc'[t] = "account" /\ reg'[t].mem = b /\ reg' \in [Threads -> RegType]
          /\ reg'[t].ten = reg[t].ten
          /\ \A u \in Threads \ {t} : pc'[u] = pc[u] /\ reg'[u] = reg[u]
      <3>1. /\ reg \in [Threads -> RegType] /\ b \in Memory
            /\ pc \in [Threads -> {"idle"} \cup PoolPcs \cup DropPcs]
        BY DEF ChunkTypeOK, RegType, Memory
      <3>2. /\ pc'[t] = "account"
            /\ \A u \in Threads \ {t} : pc'[u] = pc[u]
        BY <1>1, <3>1
      <3>3. /\ reg'[t] = [reg[t] EXCEPT !.mem = b] /\ DOMAIN reg' = Threads
            /\ reg' = [u \in Threads |-> reg'[u]]
            /\ \A u \in Threads \ {t} : reg'[u] = reg[u]
        BY <1>1, <3>1
      <3>4. reg[t] \in RegType
        BY <3>1
      <3>5. /\ [reg[t] EXCEPT !.mem = b] \in RegType
            /\ [reg[t] EXCEPT !.mem = b].mem = b
            /\ [reg[t] EXCEPT !.mem = b].ten = reg[t].ten
        BY <3>1, <3>4 DEF RegType
      <3>6. \A u \in Threads : reg'[u] \in RegType
        BY <3>1, <3>3, <3>5
      <3> QED  BY <3>2, <3>3, <3>5, <3>6
    <2>2. arcs[b] = {} /\ \A u \in Threads : pc[u] \in ReturnPcs => reg[u].mem # b
      BY <1>1 DEF OwnersOK
    <2>3. /\ arcs'[b] = {t} /\ \A m \in Memory \ {b} : arcs'[m] = arcs[m]
          /\ owner'[b] = "user" /\ \A a \in Bufs \ {b} : owner'[a] = owner[a]
      BY <1>1 DEF ChunkTypeOK, LedgerTypeOK
    <2> QED  BY <2>1, <2>2, <2>3
  <1>3. ChunkTypeOK'
    BY <1>1, <1>2 DEF ChunkTypeOK, LedgerTypeOK, TenantTypeOK, RegType
  <1>4. RequestsOK'
    BY <1>1, <1>2 DEF RequestsOK, PackedRequest, DedicatedRequest
  <1>5. OneInside'
    BY <1>1, <1>2 DEF OneInside
  <1>6. NothingOpenYet'
    BY <1>1, <1>2 DEF NothingOpenYet
  <1>7. LiveChunksOK'
    BY <1>1, <1>2 DEF LiveChunksOK
  <1>8. ArcsExact'
    BY <1>1, <1>2, Distinct DEF ArcsExact, Uses
  <1>9. ReturningOK'
    BY <1>1, <1>2 DEF ReturningOK
  <1>10. OwnersOK'
    <2>1. \A u \in Threads : pc'[u] \in ReturnPcs <=> pc[u] \in ReturnPcs
      BY <1>1, <1>2
    <2>2. \A u \in Threads : pc[u] \in ReturnPcs => reg'[u].mem = reg[u].mem
      BY <1>1, <1>2
    <2> QED  BY <1>2, <2>1, <2>2 DEF OwnersOK
  <1> QED  BY <1>3, <1>4, <1>5, <1>6, <1>7, <1>8, <1>9, <1>10

\* A heap block of its own for one chunk.
LEMMA AllocateOversizedOwn ==
  ASSUME OwnershipInv, NEW t \in Threads, NEW m \in Blocks, AllocateOversized(t, m)
  PROVE  OwnershipInv'
  <1> USE DEF OwnershipInv
  <1>1. /\ pc[t] = "oversized" /\ pc' = [pc EXCEPT ![t] = "account"]
        /\ arcs[m] = {} /\ arcs' = [arcs EXCEPT ![m] = {t}]
        /\ reg' = [reg EXCEPT ![t].mem = m, ![t].over = reg[t].size] /\ current' = current
        /\ chunk' = chunk /\ cstats' = cstats /\ tstats' = tstats /\ owner' = owner /\ open' = open
    BY DEF AllocateOversized, Goto, ledger
  <1>2. /\ pc'[t] = "account" /\ reg'[t].mem = m /\ reg' \in [Threads -> RegType]
        /\ reg'[t].ten = reg[t].ten
        /\ \A u \in Threads \ {t} : pc'[u] = pc[u] /\ reg'[u] = reg[u]
        /\ arcs'[m] = {t} /\ \A k \in Memory \ {m} : arcs'[k] = arcs[k]
    <2>1. reg[t] \in RegType /\ reg \in [Threads -> RegType]
      BY DEF ChunkTypeOK, RegType
    <2>2. /\ reg'[t].mem = m /\ reg' \in [Threads -> RegType] /\ reg'[t].ten = reg[t].ten
          /\ \A u \in Threads \ {t} : reg'[u] = reg[u]
      BY <1>1, <2>1 DEF RegType
    <2>3. /\ pc'[t] = "account" /\ \A u \in Threads \ {t} : pc'[u] = pc[u]
          /\ arcs'[m] = {t} /\ \A k \in Memory \ {m} : arcs'[k] = arcs[k]
      BY <1>1 DEF ChunkTypeOK
    <2> QED  BY <2>2, <2>3
  <1>3. ChunkTypeOK'
    BY <1>1, <1>2 DEF ChunkTypeOK, LedgerTypeOK, TenantTypeOK, RegType
  <1>4. RequestsOK'
    BY <1>1, <1>2 DEF RequestsOK, PackedRequest, DedicatedRequest
  <1>5. OneInside'
    BY <1>1, <1>2 DEF OneInside
  <1>6. NothingOpenYet'
    BY <1>1, <1>2 DEF NothingOpenYet
  <1>7. LiveChunksOK'
    BY <1>1, <1>2 DEF LiveChunksOK
  <1>8. ArcsExact'
    BY <1>1, <1>2, Distinct DEF ArcsExact, Uses
  <1>9. ReturningOK'
    BY <1>1, <1>2, Distinct DEF ReturningOK
  <1>10. OwnersOK'
    BY <1>1, <1>2, Distinct DEF OwnersOK
  <1> QED  BY <1>3, <1>4, <1>5, <1>6, <1>7, <1>8, <1>9, <1>10

\* A chunk without memory.
LEMMA AllocateZeroOwn ==
  ASSUME OwnershipInv, NEW t \in Threads, AllocateZero(t)
  PROVE  OwnershipInv'
  <1> USE DEF OwnershipInv
  <1>1. /\ pc[t] = "zero" /\ pc' = [pc EXCEPT ![t] = "account"]
        /\ reg' = reg /\ current' = current /\ arcs' = arcs
        /\ chunk' = chunk /\ cstats' = cstats /\ tstats' = tstats /\ owner' = owner /\ open' = open
    BY DEF AllocateZero, Goto, ledger
  <1>2. /\ pc'[t] = "account" /\ reg[t].mem = NULL
        /\ \A u \in Threads \ {t} : pc'[u] = pc[u] /\ reg'[u] = reg[u]
    BY <1>1 DEF ChunkTypeOK, RegType, RequestsOK
  <1>3. ChunkTypeOK'
    BY <1>1, <1>2 DEF ChunkTypeOK, LedgerTypeOK, TenantTypeOK, RegType
  <1>4. RequestsOK'
    BY <1>1, <1>2 DEF RequestsOK, PackedRequest, DedicatedRequest
  <1>5. OneInside'
    BY <1>1, <1>2 DEF OneInside
  <1>6. NothingOpenYet'
    BY <1>1, <1>2 DEF NothingOpenYet
  <1>7. LiveChunksOK'
    BY <1>1, <1>2 DEF LiveChunksOK
  <1>8. ArcsExact'
    BY <1>1, <1>2, Distinct DEF ArcsExact, Uses
  <1>9. ReturningOK'
    BY <1>1, <1>2 DEF ReturningOK
  <1>10. OwnersOK'
    BY <1>1, <1>2 DEF OwnersOK
  <1> QED  BY <1>3, <1>4, <1>5, <1>6, <1>7, <1>8, <1>9, <1>10

\* A panic of the source unwinds: the call held nothing yet.
LEMMA RawPagePanicsOwn ==
  ASSUME OwnershipInv, NEW t \in Threads, RawPagePanics(t)
  PROVE  OwnershipInv'
  <1> USE DEF OwnershipInv
  <1>1. /\ pc[t] \in {"open", "dedicated"} /\ pc' = [pc EXCEPT ![t] = "idle"]
        /\ reg' = [reg EXCEPT ![t] = NoReg] /\ current' = current /\ arcs' = arcs
        /\ chunk' = chunk /\ cstats' = cstats /\ tstats' = tstats /\ owner' = owner /\ open' = open
    BY DEF RawPagePanics, ledger
  <1>2. /\ pc'[t] = "idle" /\ reg' \in [Threads -> RegType]
        /\ \A u \in Threads \ {t} : pc'[u] = pc[u] /\ reg'[u] = reg[u]
    BY <1>1 DEF ChunkTypeOK, RegType, NoReg
  <1>3. ChunkTypeOK'
    BY <1>1, <1>2 DEF ChunkTypeOK, LedgerTypeOK, TenantTypeOK, RegType
  <1>4. RequestsOK'
    BY <1>1, <1>2 DEF RequestsOK, PackedRequest, DedicatedRequest
  <1>5. OneInside'
    BY <1>1, <1>2 DEF OneInside
  <1>6. NothingOpenYet'
    BY <1>1, <1>2 DEF NothingOpenYet
  <1>7. LiveChunksOK'
    BY <1>1, <1>2 DEF LiveChunksOK
  <1>8. ArcsExact'
    BY <1>1, <1>2 DEF ArcsExact, Uses
  <1>9. ReturningOK'
    BY <1>1, <1>2 DEF ReturningOK
  <1>10. OwnersOK'
    BY <1>1, <1>2 DEF OwnersOK
  <1> QED  BY <1>3, <1>4, <1>5, <1>6, <1>7, <1>8, <1>9, <1>10

ChunkType ==
  [st : {"none", "builder", "sealed"}, refs : Nat, mem : Memory \cup {NULL}, off : Nat,
   cap : 0 .. U32 - 1, align : Nat, ten : Tenants \cup {NULL}, over : Nat]
StatsType ==
  [total : Counter, in_use : Counter, packed : Counter, dedicated : Counter,
   oversized : Counter, over_bytes : Counter]

\* The counters of a call: all remain u64s.
LEMMA AccountStats ==
  ASSUME ChunkTypeOK, RequestsOK, NEW t \in Threads, NEW c \in Chunks, Account(t, c)
  PROVE  tstats' \in [Tenants -> TenantCounters] /\ cstats' \in StatsType
  <1> DEFINE tn == reg[t].ten
  <1> DEFINE new == NewBytes(tn, reg[t].size)
  <1>1. /\ tn \in Tenants /\ tstats[tn] \in TenantCounters /\ reg[t].size \in Nat
        /\ reg[t].over \in Nat /\ cstats \in StatsType
    BY DEF Account, Goto, ChunkTypeOK, RequestsOK, TenantTypeOK, StatsType
  <1>2. new \in Counter
    BY <1>1, FetchType DEF NewBytes, TenantCounters
  <1> HIDE DEF new
  <1>3. \A k : OfClass(t, k) \in Nat
    BY DEF OfClass
  <1>4. tstats' \in [Tenants -> TenantCounters]
    <2>1. tstats' = [tstats EXCEPT ![tn] =
            [tstats[tn] EXCEPT !.total_chunks = FetchAdd(@, 1), !.chunks = FetchAdd(@, 1),
               !.bytes = new, !.peak = IF AbovePeak(tn, new) THEN new ELSE @]]
      BY DEF Account, new
    <2>2. /\ FetchAdd(tstats[tn].total_chunks, 1) \in Counter
          /\ FetchAdd(tstats[tn].chunks, 1) \in Counter
          /\ (IF AbovePeak(tn, new) THEN new ELSE tstats[tn].peak) \in Counter
      BY <1>1, <1>2, FetchType DEF TenantCounters
    <2> QED  BY <1>1, <1>2, <2>1, <2>2 DEF TenantCounters, ChunkTypeOK, TenantTypeOK
  <1>5. cstats' \in StatsType
    <2>1. cstats' = [cstats EXCEPT !.total = FetchAdd(@, 1), !.in_use = FetchAdd(@, 1),
                                   !.packed = FetchAdd(@, OfClass(t, "packed")),
                                   !.dedicated = FetchAdd(@, OfClass(t, "dedicated")),
                                   !.oversized = FetchAdd(@, OfClass(t, "oversized")),
                                   !.over_bytes = FetchAdd(@, reg[t].over)]
      BY DEF Account
    <2>2. /\ FetchAdd(cstats.total, 1) \in Counter /\ FetchAdd(cstats.in_use, 1) \in Counter
          /\ FetchAdd(cstats.packed, OfClass(t, "packed")) \in Counter
          /\ FetchAdd(cstats.dedicated, OfClass(t, "dedicated")) \in Counter
          /\ FetchAdd(cstats.oversized, OfClass(t, "oversized")) \in Counter
          /\ FetchAdd(cstats.over_bytes, reg[t].over) \in Counter
      BY <1>1, <1>3, FetchType DEF StatsType
    <2> QED  BY <1>1, <2>1, <2>2 DEF StatsType
  <1> QED  BY <1>4, <1>5

\* And of a drop.
LEMMA ReleaseStats ==
  ASSUME ChunkTypeOK, RequestsOK, NEW t \in Threads, ReleaseChunk(t)
  PROVE  tstats' \in [Tenants -> TenantCounters] /\ cstats' \in StatsType
  <1> DEFINE tn == reg[t].ten
  <1>1. /\ tn \in Tenants /\ tstats[tn] \in TenantCounters /\ reg[t].size \in Nat
        /\ reg[t].over \in Nat /\ cstats \in StatsType
    BY DEF ReleaseChunk, Goto, ChunkTypeOK, RequestsOK, TenantTypeOK, StatsType
  <1>2. /\ tstats' = [tstats EXCEPT ![tn].bytes = FetchSub(@, reg[t].size),
                                    ![tn].chunks = FetchSub(@, 1)]
        /\ cstats' = [cstats EXCEPT !.in_use = FetchSub(@, 1),
                                    !.over_bytes = FetchSub(@, reg[t].over)]
    BY DEF ReleaseChunk
  <1>3. /\ FetchSub(tstats[tn].bytes, reg[t].size) \in Counter
        /\ FetchSub(tstats[tn].chunks, 1) \in Counter
        /\ FetchSub(cstats.in_use, 1) \in Counter
        /\ FetchSub(cstats.over_bytes, reg[t].over) \in Counter
    BY <1>1, FetchType DEF TenantCounters, StatsType
  <1>4. tstats' \in [Tenants -> TenantCounters]
    BY <1>1, <1>2, <1>3 DEF TenantCounters, ChunkTypeOK, TenantTypeOK
  <1>5. cstats' \in StatsType
    BY <1>1, <1>2, <1>3 DEF StatsType
  <1> QED  BY <1>4, <1>5

\* The call ends: the Arc moves from the thread to the chunk.
LEMMA AccountOwn ==
  ASSUME OwnershipInv, NEW t \in Threads, NEW c \in Chunks, Account(t, c)
  PROVE  OwnershipInv'
  <1> USE DEF OwnershipInv
  <1>1. /\ pc[t] = "account" /\ pc' = [pc EXCEPT ![t] = "idle"] /\ chunk[c].st = "none"
        /\ chunk' = [chunk EXCEPT ![c] =
             [st |-> "builder", refs |-> 1, mem |-> reg[t].mem, off |-> reg[t].off % U32,
              cap |-> reg[t].size % U32, align |-> reg[t].align, ten |-> reg[t].ten,
              over |-> reg[t].over]]
        /\ arcs' = [m \in Memory |-> IF m = reg[t].mem THEN (arcs[m] \ {t}) \cup {c} ELSE arcs[m]]
        /\ reg' = [reg EXCEPT ![t] = NoReg] /\ current' = current /\ owner' = owner /\ open' = open
        /\ tstats' \in [Tenants -> TenantCounters] /\ cstats' \in StatsType
    BY AccountStats DEF Account, Goto, ledger
  <1>2. /\ pc'[t] = "idle" /\ reg' \in [Threads -> RegType]
        /\ \A u \in Threads \ {t} : pc'[u] = pc[u] /\ reg'[u] = reg[u]
        /\ chunk'[c].st = "builder" /\ chunk'[c].refs = 1 /\ chunk'[c].mem = reg[t].mem
        /\ chunk'[c].ten = reg[t].ten /\ reg[t].ten \in Tenants
        /\ chunk' \in [Chunks -> ChunkType]
        /\ \A d \in Chunks \ {c} : chunk'[d] = chunk[d]
        /\ \A m \in Memory : reg[t].mem = m => t \in arcs[m] /\ arcs'[m] = (arcs[m] \ {t}) \cup {c}
        /\ \A m \in Memory : reg[t].mem # m => arcs'[m] = arcs[m]
    <2>1. reg[t].off % U32 \in Nat /\ reg[t].size % U32 \in 0 .. U32 - 1
      BY ChunkAssumption DEF ChunkTypeOK
    <2>2. /\ pc'[t] = "idle" /\ reg' \in [Threads -> RegType]
          /\ \A u \in Threads \ {t} : pc'[u] = pc[u] /\ reg'[u] = reg[u]
      BY <1>1 DEF ChunkTypeOK, RegType, NoReg
    <2>3. /\ chunk'[c].st = "builder" /\ chunk'[c].refs = 1 /\ chunk'[c].mem = reg[t].mem
          /\ chunk'[c].ten = reg[t].ten /\ reg[t].ten \in Tenants
          /\ \A d \in Chunks \ {c} : chunk'[d] = chunk[d]
      BY <1>1 DEF ChunkTypeOK, RequestsOK
    <2>4. chunk' \in [Chunks -> ChunkType]
      BY <1>1, <2>1 DEF ChunkTypeOK, ChunkType
    <2>5. \A m \in Memory : reg[t].mem = m => t \in arcs[m]
      BY <1>1 DEF ArcsExact, Uses
    <2> QED  BY <1>1, <2>2, <2>3, <2>4, <2>5
  <1>3. ChunkTypeOK'
    BY <1>1, <1>2 DEF ChunkTypeOK, LedgerTypeOK, TenantTypeOK, RegType, ChunkType, StatsType
  <1>4. RequestsOK'
    BY <1>1, <1>2 DEF RequestsOK, PackedRequest, DedicatedRequest
  <1>5. OneInside'
    BY <1>1, <1>2 DEF OneInside
  <1>6. NothingOpenYet'
    BY <1>1, <1>2 DEF NothingOpenYet
  <1>7. LiveChunksOK'
    BY <1>1, <1>2 DEF LiveChunksOK
  <1>8. ArcsExact'
    BY <1>1, <1>2, Distinct DEF ArcsExact, Uses
  <1>9. ReturningOK'
    BY <1>1, <1>2 DEF ReturningOK
  <1>10. OwnersOK'
    <2>1. \A b \in Bufs : arcs'[b] = {} <=> arcs[b] = {}
      BY <1>2
    <2>2. \A u \in Threads : /\ pc'[u] \in ReturnPcs <=> pc[u] \in ReturnPcs
                             /\ pc[u] \in ReturnPcs => reg'[u].mem = reg[u].mem
      BY <1>1, <1>2
    <2> QED  BY <1>1, <2>1, <2>2 DEF OwnersOK
  <1> QED  BY <1>3, <1>4, <1>5, <1>6, <1>7, <1>8, <1>9, <1>10

\* seal, clone, and drop of one of several clones: the Arc stays.
LEMMA ChunkUserOwn ==
  ASSUME OwnershipInv, NEW c \in Chunks, ChunkUser(c)
  PROVE  OwnershipInv'
  <1> USE DEF OwnershipInv
  <1>1. /\ \/ chunk[c].st = "builder" /\ chunk' = [chunk EXCEPT ![c].st = "sealed"]
           \/ chunk[c].st = "sealed" /\ chunk' = [chunk EXCEPT ![c].refs = @ + 1]
           \/ chunk[c].refs > 1 /\ chunk' = [chunk EXCEPT ![c].refs = @ - 1]
        /\ pc' = pc /\ reg' = reg /\ current' = current /\ arcs' = arcs
        /\ cstats' = cstats /\ tstats' = tstats /\ owner' = owner /\ open' = open
    BY DEF ChunkUser, Seal, CloneChunk, DropClone, ledger
  <1>2. /\ chunk' \in [Chunks -> ChunkType] /\ \A d \in Chunks \ {c} : chunk'[d] = chunk[d]
        /\ chunk[c].st # "none" /\ chunk'[c].st # "none" /\ chunk'[c].refs > 0
        /\ chunk'[c].mem = chunk[c].mem /\ chunk'[c].ten = chunk[c].ten
    BY <1>1 DEF ChunkTypeOK, RegType, ChunkType, LiveChunksOK
  <1>3. ChunkTypeOK'
    BY <1>1, <1>2 DEF ChunkTypeOK, LedgerTypeOK, TenantTypeOK, RegType, ChunkType
  <1>4. RequestsOK'
    BY <1>1, <1>2 DEF RequestsOK, PackedRequest, DedicatedRequest
  <1>5. OneInside'
    BY <1>1, <1>2 DEF OneInside
  <1>6. NothingOpenYet'
    BY <1>1, <1>2 DEF NothingOpenYet
  <1>7. LiveChunksOK'
    BY <1>1, <1>2 DEF LiveChunksOK
  <1>8. ArcsExact'
    BY <1>1, <1>2 DEF ArcsExact, Uses
  <1>9. ReturningOK'
    BY <1>1, <1>2 DEF ReturningOK
  <1>10. OwnersOK'
    BY <1>1, <1>2 DEF OwnersOK
  <1> QED  BY <1>3, <1>4, <1>5, <1>6, <1>7, <1>8, <1>9, <1>10

\* The last handle goes: the Arc moves to the thread that drops it.
LEMMA DropChunkOwn ==
  ASSUME OwnershipInv, NEW t \in Threads, NEW c \in Chunks, DropChunk(t, c)
  PROVE  OwnershipInv'
  <1> USE DEF OwnershipInv
  <1>1. /\ pc[t] = "idle" /\ pc' = [pc EXCEPT ![t] = "release"] /\ chunk[c].refs = 1
        /\ reg' = [reg EXCEPT ![t] = [NoReg EXCEPT !.mem = chunk[c].mem, !.size = chunk[c].cap,
                                              !.ten = chunk[c].ten, !.over = chunk[c].over]]
        /\ arcs' = [m \in Memory |->
                      IF m = chunk[c].mem THEN (arcs[m] \ {c}) \cup {t} ELSE arcs[m]]
        /\ chunk' = [chunk EXCEPT ![c] = NoChunk] /\ current' = current
        /\ cstats' = cstats /\ tstats' = tstats /\ owner' = owner /\ open' = open
    BY DEF DropChunk, Goto, ledger
  <1>2. /\ pc'[t] = "release" /\ reg' \in [Threads -> RegType] /\ reg'[t].mem = chunk[c].mem
        /\ reg'[t].ten \in Tenants
        /\ \A u \in Threads \ {t} : pc'[u] = pc[u] /\ reg'[u] = reg[u]
        /\ chunk[c].st # "none" /\ chunk'[c].st = "none" /\ chunk'[c].refs = 0
        /\ chunk' \in [Chunks -> ChunkType] /\ \A d \in Chunks \ {c} : chunk'[d] = chunk[d]
        /\ \A m \in Memory : chunk[c].mem = m => c \in arcs[m] /\ arcs'[m] = (arcs[m] \ {c}) \cup {t}
        /\ \A m \in Memory : chunk[c].mem # m => arcs'[m] = arcs[m]
    <2>1. chunk[c] \in ChunkType /\ chunk[c].st # "none" /\ chunk[c].ten \in Tenants
      BY <1>1 DEF ChunkTypeOK, ChunkType, LiveChunksOK
    <2>2. /\ pc'[t] = "release" /\ reg' \in [Threads -> RegType] /\ reg'[t].mem = chunk[c].mem
          /\ reg'[t].ten \in Tenants
          /\ \A u \in Threads \ {t} : pc'[u] = pc[u] /\ reg'[u] = reg[u]
      <3> DEFINE r == [NoReg EXCEPT !.mem = chunk[c].mem, !.size = chunk[c].cap,
                                     !.ten = chunk[c].ten, !.over = chunk[c].over]
      <3>0. /\ chunk[c].mem \in Memory \cup {NULL} /\ chunk[c].cap \in Nat
            /\ chunk[c].over \in Nat /\ reg \in [Threads -> RegType]
        BY <2>1, ChunkAssumption DEF ChunkType, ChunkTypeOK, RegType
      <3>1. r \in RegType /\ r.mem = chunk[c].mem /\ r.ten = chunk[c].ten
        BY <2>1, <3>0 DEF RegType, NoReg
      <3>2. reg' = [reg EXCEPT ![t] = r]
        BY <1>1
      <3> HIDE DEF r
      <3>3. reg' \in [Threads -> RegType] /\ reg'[t] = r
            /\ \A u \in Threads \ {t} : reg'[u] = reg[u]
        BY <3>0, <3>1, <3>2
      <3> QED  BY <1>1, <2>1, <3>1, <3>3 DEF ChunkTypeOK
    <2>3. /\ chunk'[c].st = "none" /\ chunk'[c].refs = 0 /\ chunk' \in [Chunks -> ChunkType]
          /\ \A d \in Chunks \ {c} : chunk'[d] = chunk[d]
      BY <1>1, ChunkAssumption DEF ChunkTypeOK, ChunkType, NoChunk
    <2>4. \A m \in Memory : chunk[c].mem = m => c \in arcs[m]
      BY <2>1 DEF ArcsExact, Uses
    <2> QED  BY <1>1, <2>1, <2>2, <2>3, <2>4
  <1>3. ChunkTypeOK'
    BY <1>1, <1>2 DEF ChunkTypeOK, LedgerTypeOK, TenantTypeOK, RegType, ChunkType
  <1>4. RequestsOK'
    BY <1>1, <1>2 DEF RequestsOK, PackedRequest, DedicatedRequest
  <1>5. OneInside'
    BY <1>1, <1>2 DEF OneInside
  <1>6. NothingOpenYet'
    BY <1>1, <1>2 DEF NothingOpenYet
  <1>7. LiveChunksOK'
    BY <1>1, <1>2 DEF LiveChunksOK
  <1>8. ArcsExact'
    BY <1>1, <1>2, Distinct DEF ArcsExact, Uses
  <1>9. ReturningOK'
    <2>1. \A u \in Threads : pc'[u] \in ReturnPcs =>
            pc[u] \in ReturnPcs /\ reg'[u].mem = reg[u].mem
      BY <1>1, <1>2
    <2>2. \A u \in Threads : pc[u] \in ReturnPcs =>
            /\ reg[u].mem \in Bufs /\ reg[u].mem # chunk[c].mem
            /\ arcs'[reg[u].mem] = arcs[reg[u].mem]
      BY <1>2 DEF ReturningOK
    <2> QED  BY <2>1, <2>2 DEF ReturningOK
  <1>10. OwnersOK'
    BY <1>1, <1>2 DEF OwnersOK
  <1> QED  BY <1>3, <1>4, <1>5, <1>6, <1>7, <1>8, <1>9, <1>10

\* The accounting of a drop.
LEMMA ReleaseChunkOwn ==
  ASSUME OwnershipInv, NEW t \in Threads, ReleaseChunk(t)
  PROVE  OwnershipInv'
  <1> USE DEF OwnershipInv
  <1>1. /\ pc[t] = "release" /\ pc' = [pc EXCEPT ![t] = "arc_drop"]
        /\ reg' = reg /\ current' = current /\ arcs' = arcs /\ chunk' = chunk /\ owner' = owner /\ open' = open
        /\ tstats' \in [Tenants -> TenantCounters] /\ cstats' \in StatsType
    BY ReleaseStats DEF ReleaseChunk, Goto, ledger
  <1>2. /\ pc'[t] = "arc_drop"
        /\ \A u \in Threads \ {t} : pc'[u] = pc[u] /\ reg'[u] = reg[u]
    BY <1>1 DEF ChunkTypeOK, RegType
  <1>3. ChunkTypeOK'
    BY <1>1, <1>2 DEF ChunkTypeOK, LedgerTypeOK, TenantTypeOK, RegType, StatsType
  <1>4. RequestsOK'
    BY <1>1, <1>2 DEF RequestsOK, PackedRequest, DedicatedRequest
  <1>5. OneInside'
    BY <1>1, <1>2 DEF OneInside
  <1>6. NothingOpenYet'
    BY <1>1, <1>2 DEF NothingOpenYet
  <1>7. LiveChunksOK'
    BY <1>1, <1>2 DEF LiveChunksOK
  <1>8. ArcsExact'
    BY <1>1, <1>2 DEF ArcsExact, Uses
  <1>9. ReturningOK'
    BY <1>1, <1>2 DEF ReturningOK
  <1>10. OwnersOK'
    BY <1>1, <1>2 DEF OwnersOK
  <1> QED  BY <1>3, <1>4, <1>5, <1>6, <1>7, <1>8, <1>9, <1>10

\* The Arc goes; whoever sees none left returns the page.
LEMMA DropPackedArcOwn ==
  ASSUME OwnershipInv, NEW t \in Threads, DropPackedArc(t)
  PROVE  OwnershipInv'
  <1> USE DEF OwnershipInv
  <1>1. /\ pc[t] = "arc_drop"
        /\ arcs' = [m \in Memory |-> IF m = reg[t].mem THEN arcs[m] \ {t} ELSE arcs[m]]
        /\ pc' = [pc EXCEPT ![t] = IF reg[t].mem \in Bufs /\ arcs'[reg[t].mem] = {}
                                   THEN "free" ELSE "idle"]
        /\ reg' = [reg EXCEPT ![t] = [NoReg EXCEPT !.mem =
                      IF reg[t].mem \in Bufs /\ arcs'[reg[t].mem] = {} THEN reg[t].mem ELSE NULL]]
        /\ current' = current /\ chunk' = chunk /\ cstats' = cstats /\ tstats' = tstats /\ owner' = owner /\ open' = open
    BY DEF DropPackedArc, ledger
  <1>2. /\ reg' \in [Threads -> RegType] /\ pc'[t] \in {"free", "idle"}
        /\ pc'[t] = "free" <=> reg[t].mem \in Bufs /\ arcs'[reg[t].mem] = {}
        /\ pc'[t] = "free" => reg'[t].mem = reg[t].mem
        /\ \A u \in Threads \ {t} : pc'[u] = pc[u] /\ reg'[u] = reg[u]
        /\ \A m \in Memory : reg[t].mem = m => t \in arcs[m] /\ arcs'[m] = arcs[m] \ {t}
        /\ \A m \in Memory : reg[t].mem # m => arcs'[m] = arcs[m]
    <2>1. /\ reg' \in [Threads -> RegType] /\ pc'[t] \in {"free", "idle"}
          /\ pc'[t] = "free" <=> reg[t].mem \in Bufs /\ arcs'[reg[t].mem] = {}
          /\ pc'[t] = "free" => reg'[t].mem = reg[t].mem
          /\ \A u \in Threads \ {t} : pc'[u] = pc[u] /\ reg'[u] = reg[u]
      BY <1>1 DEF ChunkTypeOK, RegType, NoReg
    <2>2. \A m \in Memory : reg[t].mem = m => t \in arcs[m]
      BY <1>1 DEF ArcsExact, Uses
    <2> QED  BY <1>1, <2>1, <2>2
  <1>3. ChunkTypeOK'
    BY <1>1, <1>2 DEF ChunkTypeOK, LedgerTypeOK, TenantTypeOK, RegType
  <1>4. RequestsOK'
    BY <1>1, <1>2 DEF RequestsOK, PackedRequest, DedicatedRequest
  <1>5. OneInside'
    BY <1>1, <1>2 DEF OneInside
  <1>6. NothingOpenYet'
    BY <1>1, <1>2 DEF NothingOpenYet
  <1>7. LiveChunksOK'
    BY <1>1, <1>2 DEF LiveChunksOK
  <1>8. ArcsExact'
    BY <1>1, <1>2, Distinct DEF ArcsExact, Uses
  <1>9. ReturningOK'
    <2>1. \A u \in Threads \ {t} : pc[u] \in ReturnPcs =>
            reg[u].mem \in Bufs \ {reg[t].mem} /\ arcs'[reg[u].mem] = {}
      BY <1>2 DEF ReturningOK
    <2>2. \A u \in Threads : pc'[u] \in ReturnPcs =>
            reg'[u].mem \in Bufs /\ arcs'[reg'[u].mem] = {}
      BY <1>1, <1>2, <2>1
    <2>3. \A u, v \in Threads :
            pc'[u] \in ReturnPcs /\ pc'[v] \in ReturnPcs /\ reg'[u].mem = reg'[v].mem => u = v
      <3>1. \A u, v \in Threads \ {t} :
              pc'[u] \in ReturnPcs /\ pc'[v] \in ReturnPcs /\ reg'[u].mem = reg'[v].mem => u = v
        BY <1>2 DEF ReturningOK
      <3>2. \A u \in Threads \ {t} : pc'[u] \in ReturnPcs /\ pc'[t] \in ReturnPcs
                                        => reg'[u].mem # reg'[t].mem
        BY <1>2, <2>1
      <3> QED  BY <3>1, <3>2
    <2> QED  BY <2>2, <2>3 DEF ReturningOK
  <1>10. OwnersOK'
    <2>2. ASSUME NEW b \in Bufs \ {reg[t].mem}
          PROVE  owner'[b] = "user" <=>
                   arcs'[b] # {} \/ \E u \in Threads : pc'[u] \in ReturnPcs /\ reg'[u].mem = b
      <3>1. arcs'[b] = arcs[b] /\ owner'[b] = owner[b]
        BY <1>1, <1>2, <2>2
      <3>2. \A u \in Threads : (pc'[u] \in ReturnPcs /\ reg'[u].mem = b)
                               <=> (pc[u] \in ReturnPcs /\ reg[u].mem = b)
        BY <1>1, <1>2, <2>2
      <3> QED  BY <3>1, <3>2 DEF OwnersOK
    <2>3. reg[t].mem \in Bufs => owner'[reg[t].mem] = "user"
      BY <1>1, <1>2 DEF OwnersOK
    <2>4. reg[t].mem \in Bufs => \/ arcs'[reg[t].mem] # {}
                           \/ \E u \in Threads : pc'[u] \in ReturnPcs /\ reg'[u].mem = reg[t].mem
      BY <1>2, Distinct
    <2> QED  BY <2>2, <2>3, <2>4 DEF OwnersOK
  <1> QED  BY <1>3, <1>4, <1>5, <1>6, <1>7, <1>8, <1>9, <1>10

\* PackedPage::drop: the page goes back, once.
LEMMA FreePackedOwn ==
  ASSUME OwnershipInv, NEW t \in Threads, FreePacked(t)
  PROVE  OwnershipInv'
  <1> USE DEF OwnershipInv
  <1>1. /\ pc[t] = "free" /\ pc' = [pc EXCEPT ![t] = "idle"]
        /\ owner[reg[t].mem] = "user" /\ owner' = [owner EXCEPT ![reg[t].mem] = "pool"]
        /\ open' = open /\ reg' = [reg EXCEPT ![t] = NoReg] /\ current' = current /\ arcs' = arcs
        /\ chunk' = chunk /\ cstats' = cstats /\ tstats' = tstats
    BY DEF FreePacked, Goto, Return, Move
  <1>2. /\ pc'[t] = "idle" /\ reg' \in [Threads -> RegType]
        /\ \A u \in Threads \ {t} : pc'[u] = pc[u] /\ reg'[u] = reg[u]
        /\ reg[t].mem \in Bufs /\ owner'[reg[t].mem] = "pool" /\ arcs[reg[t].mem] = {}
        /\ \A b \in Bufs \ {reg[t].mem} : owner'[b] = owner[b]
    BY <1>1 DEF ChunkTypeOK, RegType, NoReg, LedgerTypeOK, ReturningOK
  <1>3. ChunkTypeOK'
    BY <1>1, <1>2 DEF ChunkTypeOK, LedgerTypeOK, TenantTypeOK, RegType
  <1>4. RequestsOK'
    BY <1>1, <1>2 DEF RequestsOK, PackedRequest, DedicatedRequest
  <1>5. OneInside'
    BY <1>1, <1>2 DEF OneInside
  <1>6. NothingOpenYet'
    BY <1>1, <1>2 DEF NothingOpenYet
  <1>7. LiveChunksOK'
    BY <1>1, <1>2 DEF LiveChunksOK
  <1>8. ArcsExact'
    BY <1>1, <1>2 DEF ArcsExact, Uses
  <1>9. ReturningOK'
    BY <1>1, <1>2 DEF ReturningOK
  <1>10. OwnersOK'
    BY <1>1, <1>2 DEF OwnersOK, ReturningOK
  <1> QED  BY <1>3, <1>4, <1>5, <1>6, <1>7, <1>8, <1>9, <1>10

\* The ChunkPool starts to drop: its PagePool goes first.
LEMMA DropPagesOwn ==
  ASSUME OwnershipInv, NEW t \in Threads, DropPages(t)
  PROVE  OwnershipInv'
  <1> USE DEF OwnershipInv
  <1>1. /\ PoolFree /\ pc[t] = "idle" /\ pc' = [pc EXCEPT ![t] = "drop_current"]
        /\ reg' = reg /\ current' = current /\ arcs' = arcs /\ chunk' = chunk /\ cstats' = cstats /\ tstats' = tstats
        /\ owner' = owner /\ open' = FALSE
    BY DEF DropPages, Goto, Close
  <1>2. /\ pc'[t] = "drop_current" /\ \A u \in Threads \ {t} : pc'[u] = pc[u] /\ reg'[u] = reg[u]
    BY <1>1 DEF ChunkTypeOK, RegType
  <1>3. ChunkTypeOK'
    BY <1>1, <1>2 DEF ChunkTypeOK, LedgerTypeOK, TenantTypeOK, RegType
  <1>4. RequestsOK'
    BY <1>1, <1>2 DEF RequestsOK, PackedRequest, DedicatedRequest
  <1>5. OneInside'
    BY <1>1, <1>2 DEF OneInside, PoolFree
  <1>6. NothingOpenYet'
    BY <1>1, <1>2 DEF NothingOpenYet
  <1>7. LiveChunksOK'
    BY <1>1, <1>2 DEF LiveChunksOK
  <1>8. ArcsExact'
    BY <1>1, <1>2 DEF ArcsExact, Uses
  <1>9. ReturningOK'
    BY <1>1, <1>2 DEF ReturningOK
  <1>10. OwnersOK'
    BY <1>1, <1>2 DEF OwnersOK
  <1> QED  BY <1>3, <1>4, <1>5, <1>6, <1>7, <1>8, <1>9, <1>10

\* Then its open page, if there is one.
LEMMA DropCurrentOwn ==
  ASSUME OwnershipInv, NEW t \in Threads, DropCurrent(t)
  PROVE  OwnershipInv'
  <1> USE DEF OwnershipInv
  <1>1. /\ pc[t] = "drop_current" /\ current' = NoOpen
        /\ arcs' = [m \in Memory |-> IF m = current.mem THEN arcs[m] \ {OPEN} ELSE arcs[m]]
        /\ pc' = [pc EXCEPT ![t] = IF current.mem # NULL /\ arcs'[current.mem] = {}
                                   THEN "free" ELSE "idle"]
        /\ reg' = [reg EXCEPT ![t].mem =
                      IF current.mem # NULL /\ arcs'[current.mem] = {} THEN current.mem ELSE NULL]
        /\ chunk' = chunk /\ cstats' = cstats /\ tstats' = tstats /\ owner' = owner /\ open' = open
    BY DEF DropCurrent, ledger
  <1>2. /\ current'.mem = NULL /\ current' \in [mem : Bufs \cup {NULL}, off : 0 .. PageBytes]
        /\ current.mem \in Bufs \cup {NULL}
        /\ reg' \in [Threads -> RegType] /\ pc'[t] \in {"free", "idle"}
        /\ pc'[t] = "free" <=> current.mem # NULL /\ arcs'[current.mem] = {}
        /\ pc'[t] = "free" => reg'[t].mem = current.mem
        /\ \A u \in Threads \ {t} : pc'[u] = pc[u] /\ reg'[u] = reg[u]
        /\ \A m \in Memory : current.mem = m => OPEN \in arcs[m] /\ arcs'[m] = arcs[m] \ {OPEN}
        /\ \A m \in Memory : current.mem # m => arcs'[m] = arcs[m]
    <2>1. /\ current'.mem = NULL /\ current' \in [mem : Bufs \cup {NULL}, off : 0 .. PageBytes]
          /\ current.mem \in Bufs \cup {NULL}
      BY <1>1, LayoutAssumption DEF ChunkTypeOK, NoOpen
    <2>2. /\ reg' \in [Threads -> RegType] /\ pc'[t] \in {"free", "idle"}
          /\ pc'[t] = "free" <=> current.mem # NULL /\ arcs'[current.mem] = {}
          /\ pc'[t] = "free" => reg'[t].mem = current.mem
          /\ \A u \in Threads \ {t} : pc'[u] = pc[u] /\ reg'[u] = reg[u]
      <3> DEFINE k == IF current.mem # NULL /\ arcs'[current.mem] = {} THEN current.mem ELSE NULL
      <3>1. k \in Memory \cup {NULL}
        BY <2>1
      <3>2. reg' = [reg EXCEPT ![t].mem = k]
        BY <1>1
      <3>3. pc'[t] = "free" => k = current.mem
        BY <1>1 DEF ChunkTypeOK
      <3> HIDE DEF k
      <3>4. reg' \in [Threads -> RegType] /\ reg'[t].mem = k
            /\ \A u \in Threads \ {t} : reg'[u] = reg[u]
        BY <3>1, <3>2 DEF ChunkTypeOK, RegType
      <3> QED  BY <1>1, <3>3, <3>4 DEF ChunkTypeOK
    <2>3. \A m \in Memory : current.mem = m => OPEN \in arcs[m]
      BY DEF ArcsExact, Uses
    <2> QED  BY <1>1, <2>1, <2>2, <2>3
  <1>3. ChunkTypeOK'
    BY <1>1, <1>2 DEF ChunkTypeOK, LedgerTypeOK, TenantTypeOK, RegType
  <1>4. RequestsOK'
    BY <1>1, <1>2 DEF RequestsOK, PackedRequest, DedicatedRequest
  <1>5. OneInside'
    BY <1>1, <1>2 DEF OneInside
  <1>6. NothingOpenYet'
    BY <1>1, <1>2 DEF NothingOpenYet
  <1>7. LiveChunksOK'
    BY <1>1, <1>2 DEF LiveChunksOK
  <1>8. ArcsExact'
    BY <1>1, <1>2, Distinct DEF ArcsExact, Uses
  <1>9. ReturningOK'
    <2>1. \A u \in Threads \ {t} : pc[u] \in ReturnPcs =>
            reg[u].mem \in Bufs \ {current.mem} /\ arcs'[reg[u].mem] = {}
      BY <1>2 DEF ReturningOK
    <2>2. \A u \in Threads : pc'[u] \in ReturnPcs =>
            reg'[u].mem \in Bufs /\ arcs'[reg'[u].mem] = {}
      BY <1>1, <1>2, <2>1
    <2>3. \A u, v \in Threads :
            pc'[u] \in ReturnPcs /\ pc'[v] \in ReturnPcs /\ reg'[u].mem = reg'[v].mem => u = v
      <3>1. \A u, v \in Threads \ {t} :
              pc'[u] \in ReturnPcs /\ pc'[v] \in ReturnPcs /\ reg'[u].mem = reg'[v].mem => u = v
        BY <1>2 DEF ReturningOK
      <3>2. \A u \in Threads \ {t} : pc'[u] \in ReturnPcs /\ pc'[t] \in ReturnPcs
                                        => reg'[u].mem # reg'[t].mem
        BY <1>2, <2>1
      <3> QED  BY <3>1, <3>2
    <2> QED  BY <2>2, <2>3 DEF ReturningOK
  <1>10. OwnersOK'
    <2>2. ASSUME NEW b \in Bufs \ {current.mem}
          PROVE  owner'[b] = "user" <=>
                   arcs'[b] # {} \/ \E u \in Threads : pc'[u] \in ReturnPcs /\ reg'[u].mem = b
      <3>1. arcs'[b] = arcs[b] /\ owner'[b] = owner[b]
        BY <1>1, <1>2, <2>2
      <3>2. \A u \in Threads : (pc'[u] \in ReturnPcs /\ reg'[u].mem = b)
                               <=> (pc[u] \in ReturnPcs /\ reg[u].mem = b)
        BY <1>1, <1>2, <2>2
      <3> QED  BY <3>1, <3>2 DEF OwnersOK
    <2>3. current.mem \in Bufs => owner'[current.mem] = "user"
      BY <1>1, <1>2 DEF OwnersOK
    <2>4. current.mem \in Bufs => \/ arcs'[current.mem] # {}
                           \/ \E u \in Threads : pc'[u] \in ReturnPcs /\ reg'[u].mem = current.mem
      BY <1>2, Distinct
    <2> QED  BY <2>2, <2>3, <2>4 DEF OwnersOK
  <1> QED  BY <1>3, <1>4, <1>5, <1>6, <1>7, <1>8, <1>9, <1>10

\* The PagePool moves pages that no chunk is on.
LEMMA PagePoolOwn ==
  ASSUME OwnershipInv, NEW b \in Bufs, PrewarmOne(b) \/ PagePoolReleases(b)
  PROVE  OwnershipInv'
  <1> USE DEF OwnershipInv
  <1>1. /\ owner[b] # "user" /\ owner' \in {[owner EXCEPT ![b] = "pool"], [owner EXCEPT ![b] = "source"]}
        /\ open' = open /\ pc' = pc /\ reg' = reg /\ current' = current /\ arcs' = arcs
        /\ chunk' = chunk /\ cstats' = cstats /\ tstats' = tstats
    BY DEF PrewarmOne, PagePoolReleases, Reserve, Release, Move
  <1>2. /\ owner' \in [Bufs -> {"source", "pool", "user"}] /\ owner'[b] # "user"
        /\ \A a \in Bufs \ {b} : owner'[a] = owner[a]
    BY <1>1 DEF ChunkTypeOK, RegType, LedgerTypeOK
  <1>3. ChunkTypeOK'
    BY <1>1, <1>2 DEF ChunkTypeOK, LedgerTypeOK, TenantTypeOK, RegType
  <1>4. RequestsOK'
    BY <1>1, <1>2 DEF RequestsOK, PackedRequest, DedicatedRequest
  <1>5. OneInside'
    BY <1>1, <1>2 DEF OneInside
  <1>6. NothingOpenYet'
    BY <1>1, <1>2 DEF NothingOpenYet
  <1>7. LiveChunksOK'
    BY <1>1, <1>2 DEF LiveChunksOK
  <1>8. ArcsExact'
    BY <1>1, <1>2 DEF ArcsExact, Uses
  <1>9. ReturningOK'
    BY <1>1, <1>2 DEF ReturningOK
  <1>10. OwnersOK'
    BY <1>1, <1>2 DEF OwnersOK
  <1> QED  BY <1>3, <1>4, <1>5, <1>6, <1>7, <1>8, <1>9, <1>10

-----------------------------------------------------------------------------
(* Layout: one lemma per kind of step.                                     *)

\* What the types say of a claim.
LEMMA ClaimTypes ==
  ASSUME ChunkTypeOK, NEW h \in Claimants
  PROVE  /\ OffOf(h) \in Nat /\ SizeOf(h) \in Nat /\ AlignOf(h) \in Nat
         /\ MemOf(h) \in Memory \cup {NULL} /\ h \in Chunks \cup Threads
  BY ChunkAssumption DEF ChunkTypeOK, Claimants, OffOf, SizeOf, AlignOf, MemOf

\* A claim on a page has an Arc on it.
LEMMA ClaimHasArc ==
  ASSUME OwnershipInv, NEW h \in Claimants, MemOf(h) \in Memory
  PROVE  h \in arcs[MemOf(h)]
  BY Distinct DEF OwnershipInv, ArcsExact, Uses, Claimants, MemOf

\* The claim of a holder is as before.
SameClaim(h) ==
  /\ h \in Claimants
  /\ MemOf(h)' = MemOf(h) /\ OffOf(h)' = OffOf(h)
  /\ SizeOf(h)' = SizeOf(h) /\ AlignOf(h)' = AlignOf(h)

\* One claim is new, all others are as before, and the cursor has not moved
\* back on a page that they are on.
LEMMA LayoutStep ==
  ASSUME ChunkTypeOK, ChunkTypeOK', LayoutInv, NEW x,
         \A h \in Claimants' \ {x} : SameClaim(h),
         \A h \in Claimants' \ {x} : MemOf(h) \in Bufs /\ MemOf(h) = current'.mem
            => MemOf(h) = current.mem /\ current.off <= current'.off,
         x \in Claimants' /\ MemOf(x)' \in Bufs =>
            /\ ClaimOK(x)'
            /\ \A h \in Claimants' \ {x} : MemOf(h)' = MemOf(x)' => Apart(x, h)'
  PROVE  LayoutInv'
  <1>1. current.off \in Nat /\ current'.off \in Nat
    BY LayoutAssumption DEF ChunkTypeOK
  <1>2. ASSUME NEW h \in Claimants' \ {x}, MemOf(h)' \in Bufs PROVE ClaimOK(h)'
    <2>1. /\ SameClaim(h) /\ ClaimOK(h) /\ OffOf(h) \in Nat /\ SizeOf(h) \in Nat
      BY <1>2, ClaimTypes DEF SameClaim, LayoutInv
    <2>2. MemOf(h) = current'.mem => OffOf(h) + SizeOf(h) <= current'.off
      BY <1>1, <1>2, <2>1 DEF SameClaim, ClaimOK
    <2> QED  BY <2>1, <2>2 DEF SameClaim, ClaimOK
  <1>3. ASSUME NEW g \in Claimants' \ {x}, NEW h \in Claimants' \ {x},
               g # h, MemOf(g)' \in Bufs, MemOf(g)' = MemOf(h)'
        PROVE  Apart(g, h)'
    BY <1>3 DEF SameClaim, LayoutInv, Apart
  <1>4. ASSUME NEW g \in Claimants' PROVE Apart(g, x)' <=> Apart(x, g)'
    BY DEF Apart
  <1> QED  BY <1>2, <1>3, <1>4 DEF LayoutInv

\* No claim is new and no chunk changes; the page that is opened, if any, had
\* no Arc on it.
LEMMA LayoutQuiet ==
  ASSUME OwnershipInv, OwnershipInv', LayoutInv, chunk' = chunk,
         \A u \in Threads : pc'[u] = "account" => pc[u] = "account" /\ reg'[u] = reg[u],
         \/ current' = current \/ current'.mem = NULL
         \/ current'.mem \in Bufs /\ arcs[current'.mem] = {}
  PROVE  LayoutInv'
  <1>1. ASSUME NEW h \in Claimants' PROVE SameClaim(h)
    BY <1>1, Distinct DEF SameClaim, Claimants, MemOf, OffOf, SizeOf, AlignOf
  <1>2. ASSUME NEW h \in Claimants', MemOf(h) \in Bufs, MemOf(h) = current'.mem
        PROVE  MemOf(h) = current.mem /\ current.off <= current'.off
    <2>1. h \in arcs[MemOf(h)]
      BY <1>1, <1>2, ClaimHasArc DEF SameClaim
    <2>2. current' = current
      BY <1>2, <2>1, Distinct
    <2>3. current.off \in Nat
      BY LayoutAssumption DEF OwnershipInv, ChunkTypeOK
    <2> QED  BY <1>2, <2>2, <2>3
  <1>3. OPEN \notin Claimants'
    BY Distinct DEF Claimants
  <1> QED  BY <1>1, <1>2, <1>3, LayoutStep DEF OwnershipInv

\* The packed chunk begins at or behind the cursor and ends at the new one.
LEMMA PackLayout ==
  ASSUME OwnershipInv, OwnershipInv', LayoutInv, NEW t \in Threads, Pack(t)
  PROVE  LayoutInv'
  <1>1. /\ pc[t] = "packed" /\ HasRoom(t) /\ current.mem \in Bufs /\ chunk' = chunk
        /\ \A u \in Threads \ {t} : pc'[u] = pc[u] /\ reg'[u] = reg[u]
        /\ current'.mem = current.mem /\ current'.off = NextOffset(t) + reg[t].size
    BY DEF Pack, Goto, HasRoom, OwnershipInv, ChunkTypeOK
  <1>2. /\ MemOf(t)' = current.mem /\ OffOf(t)' = NextOffset(t)
        /\ SizeOf(t)' = reg[t].size /\ AlignOf(t)' = reg[t].align
    <2>1. /\ reg'[t].mem = current.mem /\ reg'[t].off = NextOffset(t)
          /\ reg'[t].size = reg[t].size /\ reg'[t].align = reg[t].align
      BY DEF Pack, OwnershipInv, ChunkTypeOK
    <2> QED  BY <2>1, Distinct DEF MemOf, OffOf, SizeOf, AlignOf
  <1>3. /\ NextOffset(t) \in Nat /\ current.off <= NextOffset(t)
        /\ NextOffset(t) + reg[t].size <= PageBytes
        /\ (Base[current.mem] + NextOffset(t)) % reg[t].align = 0
        /\ reg[t].size \in Nat \ {0} /\ current.off \in Nat
    BY <1>1, PackFacts, LayoutAssumption DEF OwnershipInv, ChunkTypeOK
  <1>4. ASSUME NEW h \in Claimants' \ {t} PROVE SameClaim(h)
    BY <1>1, <1>4, Distinct DEF SameClaim, Claimants, MemOf, OffOf, SizeOf, AlignOf
  <1>5. ClaimOK(t)'
    BY <1>1, <1>2, <1>3 DEF ClaimOK
  <1>6. ASSUME NEW h \in Claimants' \ {t}, MemOf(h)' = MemOf(t)' PROVE Apart(t, h)'
    <2>1. h \in Claimants /\ MemOf(h) = current.mem /\ OffOf(h) \in Nat /\ SizeOf(h) \in Nat
      BY <1>2, <1>4, <1>6, ClaimTypes DEF SameClaim, OwnershipInv
    <2>2. OffOf(h) + SizeOf(h) <= current.off
      BY <1>1, <2>1 DEF LayoutInv, ClaimOK
    <2>3. OffOf(h)' + SizeOf(h)' <= OffOf(t)'
      BY <1>2, <1>3, <1>4, <2>1, <2>2 DEF SameClaim
    <2> QED  BY <2>3 DEF Apart
  <1>7. current.off <= current'.off
    BY <1>1, <1>3
  <1> QED  BY <1>1, <1>4, <1>5, <1>6, <1>7, LayoutStep DEF OwnershipInv

\* A dedicated page has no other claim, and its base is aligned.
LEMMA DedicatedLayout ==
  ASSUME OwnershipInv, OwnershipInv', LayoutInv, NEW t \in Threads, NEW b \in Bufs,
         AllocateDedicated(t, b)
  PROVE  LayoutInv'
  <1>1. /\ pc[t] = "dedicated" /\ owner[b] # "user" /\ current' = current /\ chunk' = chunk
        /\ \A u \in Threads \ {t} : pc'[u] = pc[u] /\ reg'[u] = reg[u]
        /\ reg'[t].mem = b /\ reg'[t].off = reg[t].off /\ reg'[t].size = reg[t].size
        /\ reg'[t].align = reg[t].align
    BY DEF AllocateDedicated, Goto, RawPage, Grant, Obtain, Move, OwnershipInv, ChunkTypeOK
  <1>2. arcs[b] = {} /\ current.mem # b
    BY <1>1 DEF OwnershipInv, OwnersOK, ArcsExact, Uses
  <1>3. /\ reg[t].size \in 1 .. PageBytes /\ reg[t].off = 0 /\ reg[t].align \in Aligns
        /\ reg[t].align <= DefaultAlign /\ PageBytes \in Nat
    BY <1>1, LayoutAssumption DEF OwnershipInv, RequestsOK, DedicatedRequest
  <1>4. /\ MemOf(t)' = b /\ OffOf(t)' = 0 /\ SizeOf(t)' = reg[t].size
        /\ AlignOf(t)' = reg[t].align
    BY <1>1, <1>3, Distinct DEF MemOf, OffOf, SizeOf, AlignOf
  <1>5. (Base[b] + 0) % reg[t].align = 0
    <2>1. Base[b] % reg[t].align = 0
      BY <1>3, BaseAligned
    <2>2. Base[b] + 0 = Base[b]
      BY ChunkAssumption
    <2> QED  BY <2>1, <2>2
  <1>6. ClaimOK(t)'
    BY <1>1, <1>2, <1>3, <1>4, <1>5 DEF ClaimOK
  <1>7. ASSUME NEW h \in Claimants' \ {t} PROVE SameClaim(h)
    BY <1>1, <1>7, Distinct DEF SameClaim, Claimants, MemOf, OffOf, SizeOf, AlignOf
  <1>8. ASSUME NEW h \in Claimants' \ {t} PROVE MemOf(h)' # b
    BY <1>2, <1>7, <1>8, ClaimHasArc DEF SameClaim
  <1>9. current.off \in Nat
    BY LayoutAssumption DEF OwnershipInv, ChunkTypeOK
  <1> QED  BY <1>1, <1>4, <1>6, <1>7, <1>8, <1>9, LayoutStep DEF OwnershipInv

\* Chunks in heap blocks and without memory claim no page.
LEMMA OffPageLayout ==
  ASSUME OwnershipInv, OwnershipInv', LayoutInv, NEW t \in Threads,
         AllocateZero(t) \/ \E m \in Blocks : AllocateOversized(t, m)
  PROVE  LayoutInv'
  <1>1. /\ reg'[t].mem \in Blocks \cup {NULL} /\ current' = current /\ chunk' = chunk
        /\ \A u \in Threads \ {t} : pc'[u] = pc[u] /\ reg'[u] = reg[u]
    <2>1. CASE AllocateZero(t)
      BY <2>1 DEF AllocateZero, Goto, OwnershipInv, ChunkTypeOK, RequestsOK
    <2>2. ASSUME NEW m \in Blocks, AllocateOversized(t, m)
          PROVE  /\ reg'[t].mem = m /\ current' = current /\ chunk' = chunk
                 /\ \A u \in Threads \ {t} : pc'[u] = pc[u] /\ reg'[u] = reg[u]
      <3>1. reg \in [Threads -> RegType]
        BY DEF OwnershipInv, ChunkTypeOK, RegType
      <3>2. /\ reg' = [reg EXCEPT ![t].mem = m, ![t].over = reg[t].size]
            /\ pc' = [pc EXCEPT ![t] = "account"] /\ current' = current /\ chunk' = chunk
        BY <2>2 DEF AllocateOversized, Goto
      <3>3. reg'[t].mem = m /\ \A u \in Threads \ {t} : reg'[u] = reg[u]
        BY <3>1, <3>2 DEF RegType
      <3> QED  BY <3>2, <3>3 DEF OwnershipInv, ChunkTypeOK
    <2> QED  BY <2>1, <2>2
  <1>2. MemOf(t)' \notin Bufs
    BY <1>1, Distinct DEF MemOf
  <1>3. ASSUME NEW h \in Claimants' \ {t} PROVE SameClaim(h)
    BY <1>1, <1>3, Distinct DEF SameClaim, Claimants, MemOf, OffOf, SizeOf, AlignOf
  <1>4. current.off \in Nat
    BY LayoutAssumption DEF OwnershipInv, ChunkTypeOK
  <1> QED  BY <1>1, <1>2, <1>3, <1>4, LayoutStep DEF OwnershipInv

\* seal, clone and drop of a clone keep the claim; a drop ends it.
LEMMA ChunkLayoutKept ==
  ASSUME OwnershipInv, OwnershipInv', LayoutInv, NEW c \in Chunks,
         ChunkUser(c) \/ \E t \in Threads : DropChunk(t, c)
  PROVE  LayoutInv'
  <1>1. /\ current' = current /\ \A d \in Chunks \ {c} : chunk'[d] = chunk[d]
        /\ chunk'[c].st # "none" => /\ chunk[c].st # "none" /\ chunk'[c].mem = chunk[c].mem
                                    /\ chunk'[c].off = chunk[c].off
                                    /\ chunk'[c].cap = chunk[c].cap
                                    /\ chunk'[c].align = chunk[c].align
        /\ \A u \in Threads : pc'[u] = "account" => pc[u] = "account" /\ reg'[u] = reg[u]
    <2>1. CASE ChunkUser(c)
      BY <2>1 DEF ChunkUser, Seal, CloneChunk, DropClone, OwnershipInv, ChunkTypeOK, LiveChunksOK
    <2>2. ASSUME NEW t \in Threads, DropChunk(t, c) PROVE <1>1!:
      BY <2>2 DEF DropChunk, Goto, NoChunk, OwnershipInv, ChunkTypeOK
    <2> QED  BY <2>1, <2>2
  <1>2. ASSUME NEW h \in Claimants' PROVE SameClaim(h)
    BY <1>1, <1>2, Distinct DEF SameClaim, Claimants, MemOf, OffOf, SizeOf, AlignOf
  <1>3. OPEN \notin Claimants'
    BY Distinct DEF Claimants
  <1>4. current.off \in Nat
    BY LayoutAssumption DEF OwnershipInv, ChunkTypeOK
  <1> QED  BY <1>1, <1>2, <1>3, <1>4, LayoutStep DEF OwnershipInv

\* The chunk takes over the thread's claim.  Its offset survives the cast to
\* u32 because the page is not larger than that; a capacity that did not would
\* only claim less.
LEMMA AccountLayout ==
  ASSUME OwnershipInv, OwnershipInv', LayoutInv, PageBytes <= U32,
         NEW t \in Threads, NEW c \in Chunks, Account(t, c)
  PROVE  LayoutInv'
  <1>1. /\ pc[t] = "account" /\ chunk[c].st = "none" /\ current' = current
        /\ pc'[t] = "idle" /\ \A u \in Threads \ {t} : pc'[u] = pc[u] /\ reg'[u] = reg[u]
        /\ \A d \in Chunks \ {c} : chunk'[d] = chunk[d]
        /\ chunk'[c].st = "builder" /\ chunk'[c].mem = reg[t].mem
        /\ chunk'[c].off = reg[t].off % U32 /\ chunk'[c].cap = reg[t].size % U32
        /\ chunk'[c].align = reg[t].align
    BY DEF Account, Goto, OwnershipInv, ChunkTypeOK
  <1>2. /\ t \in Claimants /\ t \notin Claimants' /\ c \notin Claimants /\ t \notin Chunks
        /\ reg[t].off \in Nat /\ reg[t].size \in Nat /\ U32 \in Nat \ {0} /\ PageBytes \in Nat
        /\ current.off \in Nat
    BY <1>1, Distinct, ChunkAssumption, LayoutAssumption
    DEF Claimants, OwnershipInv, ChunkTypeOK
  <1>3. ASSUME NEW h \in Claimants' \ {c} PROVE SameClaim(h) /\ h # t
    BY <1>1, <1>2, <1>3, Distinct DEF SameClaim, Claimants, MemOf, OffOf, SizeOf, AlignOf
  <1>4. /\ MemOf(t) = reg[t].mem /\ OffOf(t) = reg[t].off /\ SizeOf(t) = reg[t].size
        /\ AlignOf(t) = reg[t].align
        /\ MemOf(c)' = reg[t].mem /\ OffOf(c)' = reg[t].off % U32
        /\ SizeOf(c)' = reg[t].size % U32 /\ AlignOf(c)' = reg[t].align
    BY <1>1, <1>2 DEF MemOf, OffOf, SizeOf, AlignOf
  <1>5. ASSUME reg[t].mem \in Bufs
        PROVE  /\ ClaimOK(c)'
               /\ \A h \in Claimants' \ {c} : MemOf(h)' = MemOf(c)' => Apart(c, h)'
    <2>1. /\ ClaimOK(t) /\ SizeOf(t) > 0
      BY <1>2, <1>4, <1>5 DEF LayoutInv, ClaimOK
    <2>2. reg[t].off < U32 /\ reg[t].off + reg[t].size <= PageBytes
      BY <1>2, <1>4, <2>1 DEF ClaimOK
    <2>3. reg[t].off % U32 = reg[t].off
      BY <1>2, <2>2
    <2>4. reg[t].size % U32 \in 0 .. reg[t].size
      BY <1>2, <2>2
    <2>5. ClaimOK(c)'
      <3>1. c \notin Threads
        BY Distinct
      <3>2. MemOf(c)' = current.mem => OffOf(c)' + SizeOf(c)' <= current.off
        BY <1>2, <1>4, <2>1, <2>3, <2>4 DEF ClaimOK
      <3>3. OffOf(c)' + SizeOf(c)' <= PageBytes
        BY <1>2, <1>4, <2>1, <2>3, <2>4 DEF ClaimOK
      <3>4. (Base[MemOf(c)'] + OffOf(c)') % AlignOf(c)' = 0
        BY <1>4, <2>1, <2>3 DEF ClaimOK
      <3> QED  BY <1>1, <3>1, <3>2, <3>3, <3>4 DEF ClaimOK
    <2>6. ASSUME NEW h \in Claimants' \ {c}, MemOf(h)' = MemOf(c)' PROVE Apart(c, h)'
      <3>1. SameClaim(h) /\ h # t /\ OffOf(h) \in Nat /\ SizeOf(h) \in Nat
        BY <1>3, <2>6, ClaimTypes DEF SameClaim, OwnershipInv
      <3>2. Apart(t, h)
        BY <1>2, <1>4, <1>5, <2>6, <3>1 DEF SameClaim, LayoutInv
      <3> QED  BY <1>2, <1>4, <2>3, <2>4, <3>1, <3>2 DEF SameClaim, Apart
    <2> QED  BY <2>5, <2>6
  <1> QED  BY <1>1, <1>2, <1>3, <1>4, <1>5, LayoutStep DEF OwnershipInv

-----------------------------------------------------------------------------
(* The theorems.                                                           *)

\* Nothing allocated, nothing open.
LEMMA ChunkInitInv == ChunkInit => ChunkInv
  <1> SUFFICES ASSUME ChunkInit PROVE ChunkInv
    OBVIOUS
  <1>1. ChunkTypeOK
    <2>1. /\ pc \in [Threads -> {"idle"} \cup PoolPcs \cup DropPcs] /\ reg \in [Threads -> RegType]
          /\ arcs \in [Memory -> SUBSET ({OPEN} \cup Chunks \cup Threads)]
      BY DEF ChunkInit, RegType, NoReg
    <2>2. current \in [mem : Bufs \cup {NULL}, off : 0 .. PageBytes]
      BY LayoutAssumption DEF ChunkInit, NoOpen
    <2>3. chunk \in [Chunks -> ChunkType]
      BY ChunkAssumption DEF ChunkInit, ChunkType, NoChunk
    <2>4. cstats \in StatsType /\ TenantTypeOK
      BY U64Assumption
      DEF ChunkInit, TenantInit, TenantTypeOK, TenantCounters, StatsType, Counter
    <2> QED  BY <2>1, <2>2, <2>3, <2>4
             DEF ChunkInit, ChunkTypeOK, RegType, ChunkType, StatsType, LedgerInit, LedgerTypeOK
  <1>2. OwnershipInv
    BY <1>1, Distinct
    DEF OwnershipInv, ChunkInit, RequestsOK, OneInside, NothingOpenYet, LiveChunksOK, ArcsExact,
        Uses, ReturningOK, OwnersOK, NoOpen, NoChunk, LedgerInit
  <1>3. LayoutInv
    BY DEF ChunkInit, NoChunk, LayoutInv, Claimants
  <1> QED  BY <1>2, <1>3 DEF ChunkInv

\* Nothing happens.
LEMMA ChunkStutter == ASSUME OwnershipInv, UNCHANGED cvars PROVE OwnershipInv'
  BY DEF cvars, OwnershipInv, ChunkTypeOK, TenantTypeOK, LedgerTypeOK, RequestsOK, OneInside,
         NothingOpenYet, LiveChunksOK, ArcsExact, Uses, ReturningOK, OwnersOK

\* A step of allocate or of a drop that claims nothing.
LEMMA QuietSteps ==
  ASSUME OwnershipInv, OwnershipInv', LayoutInv, NEW t \in Threads,
         \/ Retire(t) \/ ReturnRetired(t) \/ NothingOpen(t) \/ RawPagePanics(t)
         \/ \E b \in Bufs : OpenNewPage(t, b)
         \/ \E tn \in Tenants, size \in Sizes, align \in Aligns :
              AllocateAligned(t, tn, size, align)
         \/ ReleaseChunk(t) \/ DropPackedArc(t) \/ FreePacked(t) \/ DropCurrent(t) \/ DropPages(t)
  PROVE  LayoutInv'
  <1> USE DEF OwnershipInv, ChunkTypeOK, Goto
  <1>1. CASE Retire(t) \/ DropCurrent(t)
    BY <1>1, LayoutQuiet DEF Retire, DropCurrent, NoOpen
  <1>2. CASE \/ ReturnRetired(t) \/ NothingOpen(t) \/ RawPagePanics(t)
             \/ ReleaseChunk(t) \/ DropPackedArc(t) \/ FreePacked(t) \/ DropPages(t)
    BY <1>2, LayoutQuiet
    DEF ReturnRetired, NothingOpen, RawPagePanics, ReleaseChunk, DropPackedArc, FreePacked,
        DropPages
  <1>3. ASSUME NEW b \in Bufs, OpenNewPage(t, b) PROVE LayoutInv'
    <2>1. /\ current'.mem = b /\ arcs[b] = {} /\ chunk' = chunk
          /\ \A u \in Threads : pc'[u] = "account" => pc[u] = "account" /\ reg'[u] = reg[u]
      BY <1>3 DEF OpenNewPage, RawPage, Grant, Obtain, Move, OwnersOK
    <2> QED  BY <2>1, LayoutQuiet
  <1>4. ASSUME NEW tn \in Tenants, NEW size \in Sizes, NEW align \in Aligns,
               AllocateAligned(t, tn, size, align)
        PROVE  LayoutInv'
    <2>1. Class(size, align) # "account"
      BY DEF Class
    <2> QED  BY <1>4, <2>1, LayoutQuiet DEF AllocateAligned
  <1> QED  BY <1>1, <1>2, <1>3, <1>4

\* Every step of every thread keeps the ownership of pages.
LEMMA OwnershipNext == ASSUME OwnershipInv, [ChunkNext]_cvars PROVE OwnershipInv'
  <1>1. ASSUME NEW t \in Threads, AllocStep(t) PROVE OwnershipInv'
    BY <1>1, PackOwn, RetireOwn, ReturnRetiredOwn, NothingOpenOwn, OpenNewPageOwn,
       AllocateDedicatedOwn, AllocateOversizedOwn, AllocateZeroOwn, RawPagePanicsOwn, AccountOwn
    DEF AllocStep
  <1>2. ASSUME NEW t \in Threads, DropStep(t) PROVE OwnershipInv'
    BY <1>2, ReleaseChunkOwn, DropPackedArcOwn, FreePackedOwn, DropCurrentOwn DEF DropStep
  <1>3. ASSUME NEW t \in Threads, ChunkCall(t) PROVE OwnershipInv'
    BY <1>3, AllocateAlignedOwn, DropChunkOwn, DropPagesOwn DEF ChunkCall
  <1> QED  BY <1>1, <1>2, <1>3, ChunkUserOwn, PagePoolOwn, ChunkStutter
           DEF ChunkNext, ChunkStep, ChunkFinished

\* And their layout.
LEMMA LayoutNext ==
  ASSUME PageBytes <= U32, OwnershipInv, OwnershipInv', LayoutInv, [ChunkNext]_cvars
  PROVE  LayoutInv'
  <1>1. ASSUME NEW t \in Threads, AllocStep(t) PROVE LayoutInv'
    BY <1>1, PackLayout, DedicatedLayout, OffPageLayout, AccountLayout, QuietSteps DEF AllocStep
  <1>2. ASSUME NEW t \in Threads, DropStep(t) \/ ChunkCall(t) PROVE LayoutInv'
    BY <1>2, QuietSteps, ChunkLayoutKept DEF DropStep, ChunkCall
  <1>3. CASE UNCHANGED cvars \/ \E b \in Bufs : PrewarmOne(b) \/ PagePoolReleases(b)
    BY <1>3, LayoutQuiet DEF cvars, PrewarmOne, PagePoolReleases
  <1> QED  BY <1>1, <1>2, <1>3, ChunkLayoutKept DEF ChunkNext, ChunkStep, ChunkFinished

\* The ownership of pages, in every reachable state.
LEMMA Ownership == ChunkSpec => []OwnershipInv
  <1>1. ChunkInit => OwnershipInv
    BY ChunkInitInv DEF ChunkInv
  <1> QED  BY <1>1, OwnershipNext, PTL DEF ChunkSpec

\* The layout, for pages of at most 2^32 bytes: on a larger one the cast of the
\* offset to u32 (src/src/chunk.rs:489) can put two chunks in one place.
LEMMA Layout == ASSUME PageBytes <= U32 PROVE ChunkSpec => []LayoutInv
  <1>1. ChunkInit => LayoutInv
    BY ChunkInitInv DEF ChunkInv
  <1>2. OwnershipInv /\ OwnershipInv' /\ LayoutInv /\ [ChunkNext]_cvars => LayoutInv'
    BY LayoutNext
  <1> QED  BY <1>1, <1>2, Ownership, PTL DEF ChunkSpec

\* What Claims holds.
LEMMA ClaimsAre ==
  ASSUME NEW x \in PageClaims
  PROVE  \E h \in Claimants : /\ x.by = h /\ x.mem = MemOf(h) /\ x.off = OffOf(h)
                              /\ x.size = SizeOf(h) /\ x.align = AlignOf(h) /\ x.mem \in Bufs
  <1>1. CASE \E c \in {c \in Chunks : chunk[c].st # "none"} :
               x = [mem |-> chunk[c].mem, off |-> chunk[c].off, size |-> chunk[c].cap,
                    align |-> chunk[c].align, by |-> c]
    BY <1>1 DEF PageClaims, Claimants, MemOf, OffOf, SizeOf, AlignOf
  <1>2. CASE \E t \in {t \in Threads : pc[t] = "account"} :
               x = [mem |-> reg[t].mem, off |-> reg[t].off, size |-> reg[t].size,
                    align |-> reg[t].align, by |-> t]
    BY <1>2, Distinct DEF PageClaims, Claimants, MemOf, OffOf, SizeOf, AlignOf
  <1> QED  BY <1>1, <1>2 DEF PageClaims, Claims

\* The types hold; write_offset of the open page stays inside it.
THEOREM ChunkTypesHold == ChunkSpec => []ChunkTypeOK
  <1>1. OwnershipInv => ChunkTypeOK
    BY DEF OwnershipInv
  <1> QED  BY <1>1, Ownership, PTL

\* A page is with the user exactly while there is an Arc<PackedPage> on it or
\* its last holder returns it, whatever threads drop chunks while another one
\* is inside allocate or drops the pool.
THEOREM PagesHeld == ChunkSpec => []PagesHeldWhileUsed
  <1>1. ASSUME OwnershipInv PROVE PagesHeldWhileUsed
    <2>1. \A b \in Bufs : owner[b] = "user" <=>
             \/ arcs[b] # {}
             \/ b \in {reg[t].mem : t \in {t \in Threads : pc[t] \in {"free", "retired"}}}
      BY <1>1 DEF OwnershipInv, OwnersOK
    <2>2. \A b \in {reg[t].mem : t \in {t \in Threads : pc[t] \in {"free", "retired"}}} :
             arcs[b] = {}
      BY <1>1 DEF OwnershipInv, ReturningOK
    <2>3. ASSUME NEW x \in Claims, x.mem # NULL PROVE x.by \in arcs[x.mem]
      BY <1>1, <2>3, Distinct DEF OwnershipInv, ChunkTypeOK, ArcsExact, Uses, Claims
    <2>4. current.mem # NULL => OPEN \in arcs[current.mem]
      BY <1>1 DEF OwnershipInv, ChunkTypeOK, ArcsExact, Uses
    <2> QED  BY <2>1, <2>2, <2>3, <2>4 DEF PagesHeldWhileUsed
  <1> QED  BY <1>1, Ownership, PTL

\* allocate_packed opens at most one page per call, for every base address,
\* size and alignment that the dispatch lets through.
THEOREM OpensOnce == ChunkSpec => []OpensAtMostOnePage
  <1>1. OwnershipInv => OpensAtMostOnePage
    BY FitsEmpty DEF OwnershipInv, ChunkTypeOK, RequestsOK, OpensAtMostOnePage
  <1> QED  BY <1>1, Ownership, PTL

\* Two chunks on one page never overlap, all lie inside it, and the cursor is
\* past all of them, for pages of at most 2^32 bytes.
THEOREM ChunksDisjoint == ASSUME PageBytes <= U32 PROVE ChunkSpec => []RangesDisjoint
  <1>1. ASSUME LayoutInv PROVE RangesDisjoint
    <2>1. ASSUME NEW x \in PageClaims, NEW y \in PageClaims, x.by # y.by, x.mem = y.mem
          PROVE  x.off + x.size <= y.off \/ y.off + y.size <= x.off
      <3>1. PICK g \in Claimants : /\ x.by = g /\ x.mem = MemOf(g) /\ x.off = OffOf(g)
                                   /\ x.size = SizeOf(g) /\ x.mem \in Bufs
        BY ClaimsAre
      <3>2. PICK h \in Claimants : /\ y.by = h /\ y.mem = MemOf(h) /\ y.off = OffOf(h)
                                   /\ y.size = SizeOf(h)
        BY ClaimsAre
      <3> QED  BY <1>1, <2>1, <3>1, <3>2 DEF LayoutInv, Apart
    <2>2. ASSUME NEW x \in PageClaims
          PROVE  /\ x.off + x.size <= PageBytes
                 /\ x.mem = current.mem => x.off + x.size <= current.off
      BY <1>1, ClaimsAre DEF LayoutInv, ClaimOK
    <2> QED  BY <2>1, <2>2 DEF RangesDisjoint
  <1> QED  BY <1>1, Layout, PTL

\* The address of every chunk on a page has the alignment asked for.
THEOREM ChunksAligned == ASSUME PageBytes <= U32 PROVE ChunkSpec => []AddressesAligned
  <1>1. LayoutInv => AddressesAligned
    BY ClaimsAre DEF LayoutInv, ClaimOK, AddressesAligned
  <1> QED  BY <1>1, Layout, PTL

-----------------------------------------------------------------------------
(* The counters.                                                           *)

LiveOf(tn)    == {c \in LiveChunks : chunk[c].ten = tn}
LeavingOf(tn) == {t \in Releasing : reg[t].ten = tn}

\* What ChunkCountersExact says the counters are, before they wrap.
InUseTotal == Cardinality(LiveChunks) + Cardinality(Releasing)
OverTotal ==
  SumFunctionOnSet([c \in Chunks |-> chunk[c].over], LiveChunks)
    + SumFunctionOnSet([t \in Threads |-> reg[t].over], Releasing)
ChunksTotal(tn) == Cardinality(LiveOf(tn)) + Cardinality(LeavingOf(tn))
BytesTotal(tn) ==
  SumFunctionOnSet([c \in Chunks |-> chunk[c].cap], LiveOf(tn))
    + SumFunctionOnSet([t \in Threads |-> reg[t].size], LeavingOf(tn))

Exact ==
  /\ cstats.in_use = InUseTotal % U64
  /\ cstats.over_bytes = OverTotal % U64
  /\ \A tn \in Tenants : /\ tstats[tn].chunks = ChunksTotal(tn) % U64
                         /\ tstats[tn].bytes = BytesTotal(tn) % U64

\* A call in progress has the size that was asked for.
RequestedSizes == \A t \in Threads : pc[t] \in AllocPcs => reg[t].size \in Sizes

\* The property, with its sums named.
LEMMA ExactIs == Exact <=> ChunkCountersExact
  BY DEF Exact, ChunkCountersExact, InUseTotal, OverTotal, ChunksTotal, BytesTotal, LiveOf,
         LeavingOf

\* Chunk c, or the drop that thread t makes, counts for what it holds.
CountedChunk(d) ==
  /\ chunk'[d].st = "none" <=> chunk[d].st = "none"
  /\ chunk'[d].ten = chunk[d].ten /\ chunk'[d].cap = chunk[d].cap
  /\ chunk'[d].over = chunk[d].over
CountedDrop(u) ==
  /\ pc'[u] = "release" <=> pc[u] = "release"
  /\ pc[u] = "release" => reg'[u] = reg[u]

\* The sets that are counted are finite.
LEMMA CountedFinite ==
  /\ IsFiniteSet(LiveChunks) /\ IsFiniteSet(Releasing)
  /\ \A tn : IsFiniteSet(LiveOf(tn)) /\ IsFiniteSet(LeavingOf(tn))
  <1>1. /\ LiveChunks \subseteq Chunks /\ Releasing \subseteq Threads
        /\ \A tn : LiveOf(tn) \subseteq Chunks /\ LeavingOf(tn) \subseteq Threads
    BY DEF LiveChunks, Releasing, LiveOf, LeavingOf
  <1> QED  BY <1>1, FS_Subset, ChunkAssumption

\* When one chunk and one drop change, so does the number of chunks.
LEMMA InUseStep ==
  ASSUME NEW c, NEW t \in Threads,
         \A d \in Chunks \ {c} : CountedChunk(d), \A u \in Threads \ {t} : CountedDrop(u)
  PROVE  /\ InUseTotal \in Int
         /\ InUseTotal' = InUseTotal
              + Part(c, LiveChunks', 1) - Part(c, LiveChunks, 1)
              + Part(t, Releasing', 1) - Part(t, Releasing, 1)
  <1>1. \A d : d # c => (d \in LiveChunks <=> d \in LiveChunks')
    BY DEF LiveChunks, CountedChunk
  <1>2. \A u : u # t => (u \in Releasing <=> u \in Releasing')
    BY DEF Releasing, CountedDrop
  <1>3. /\ Cardinality(LiveChunks) \in Nat /\ Cardinality(LiveChunks') \in Nat
        /\ Cardinality(LiveChunks') = Cardinality(LiveChunks)
             + Part(c, LiveChunks', 1) - Part(c, LiveChunks, 1)
    BY <1>1, CountedFinite, OneChange DEF Part
  <1>4. /\ Cardinality(Releasing) \in Nat /\ Cardinality(Releasing') \in Nat
        /\ Cardinality(Releasing') = Cardinality(Releasing)
             + Part(t, Releasing', 1) - Part(t, Releasing, 1)
    BY <1>2, CountedFinite, OneChange DEF Part
  <1>5. /\ Part(c, LiveChunks', 1) \in Int /\ Part(c, LiveChunks, 1) \in Int
        /\ Part(t, Releasing', 1) \in Int /\ Part(t, Releasing, 1) \in Int
    BY DEF Part
  <1> QED  BY <1>3, <1>4, <1>5 DEF InUseTotal

\* So does the number of a tenant's chunks.
LEMMA ChunksStep ==
  ASSUME NEW c, NEW t \in Threads, NEW tn,
         \A d \in Chunks \ {c} : CountedChunk(d), \A u \in Threads \ {t} : CountedDrop(u)
  PROVE  /\ ChunksTotal(tn) \in Int
         /\ ChunksTotal(tn)' = ChunksTotal(tn)
              + Part(c, LiveOf(tn)', 1) - Part(c, LiveOf(tn), 1)
              + Part(t, LeavingOf(tn)', 1) - Part(t, LeavingOf(tn), 1)
  <1>1. \A d : d # c => (d \in LiveOf(tn) <=> d \in LiveOf(tn)')
    BY DEF LiveOf, LiveChunks, CountedChunk
  <1>2. \A u : u # t => (u \in LeavingOf(tn) <=> u \in LeavingOf(tn)')
    BY DEF LeavingOf, Releasing, CountedDrop
  <1>3. /\ Cardinality(LiveOf(tn)) \in Nat /\ Cardinality(LiveOf(tn)') \in Nat
        /\ Cardinality(LiveOf(tn)') = Cardinality(LiveOf(tn))
             + Part(c, LiveOf(tn)', 1) - Part(c, LiveOf(tn), 1)
    BY <1>1, CountedFinite, OneChange DEF Part
  <1>4. /\ Cardinality(LeavingOf(tn)) \in Nat /\ Cardinality(LeavingOf(tn)') \in Nat
        /\ Cardinality(LeavingOf(tn)') = Cardinality(LeavingOf(tn))
             + Part(t, LeavingOf(tn)', 1) - Part(t, LeavingOf(tn), 1)
    BY <1>2, CountedFinite, OneChange DEF Part
  <1>5. /\ Part(c, LiveOf(tn)', 1) \in Int /\ Part(c, LiveOf(tn), 1) \in Int
        /\ Part(t, LeavingOf(tn)', 1) \in Int /\ Part(t, LeavingOf(tn), 1) \in Int
    BY DEF Part
  <1> QED  BY <1>3, <1>4, <1>5 DEF ChunksTotal

\* The bytes of heap blocks.
LEMMA OverStep ==
  ASSUME ChunkTypeOK, ChunkTypeOK', NEW c, NEW t \in Threads,
         \A d \in Chunks \ {c} : CountedChunk(d), \A u \in Threads \ {t} : CountedDrop(u)
  PROVE  /\ OverTotal \in Int
         /\ OverTotal' = OverTotal
              + Part(c, LiveChunks', chunk'[c].over)
              - Part(c, LiveChunks, chunk[c].over)
              + Part(t, Releasing', reg'[t].over)
              - Part(t, Releasing, reg[t].over)
  <1> DEFINE f == [d \in Chunks |-> chunk[d].over]
             e == [d \in Chunks |-> chunk'[d].over]
             g == [u \in Threads |-> reg[u].over]
             h == [u \in Threads |-> reg'[u].over]
             A == LiveChunks
             B == LiveChunks'
             S == Releasing
             T == Releasing'
  <1>1. /\ \A d : d # c => (d \in A <=> d \in B)
        /\ \A d \in A \ {c} : e[d] = f[d]
        /\ \A d \in A : f[d] \in Int
        /\ c \in B => e[c] \in Int
        /\ c \in B => e[c] = chunk'[c].over
        /\ c \in A => f[c] = chunk[c].over
    BY DEF LiveChunks, CountedChunk, ChunkTypeOK
  <1>2. /\ \A u : u # t => (u \in S <=> u \in T)
        /\ \A u \in S \ {t} : h[u] = g[u]
        /\ \A u \in S : g[u] \in Int
        /\ t \in T => h[t] \in Int
        /\ h[t] = reg'[t].over /\ g[t] = reg[t].over
    BY DEF Releasing, CountedDrop, ChunkTypeOK
  <1>3. IsFiniteSet(A) /\ IsFiniteSet(S)
    BY CountedFinite
  <1>4. OverTotal = SumFunctionOnSet(f, A) + SumFunctionOnSet(g, S)
    BY DEF OverTotal
  <1>5. OverTotal' = SumFunctionOnSet(e, B) + SumFunctionOnSet(h, T)
    BY DEF OverTotal
  <1> HIDE DEF f, e, g, h, A, B, S, T
  <1>6. /\ SumFunctionOnSet(f, A) \in Int /\ SumFunctionOnSet(e, B) \in Int
        /\ SumFunctionOnSet(e, B) = SumFunctionOnSet(f, A) + Part(c, B, e[c])
                                                           - Part(c, A, f[c])
    BY <1>1, <1>3, SumOneChange DEF Part
  <1>7. /\ SumFunctionOnSet(g, S) \in Int /\ SumFunctionOnSet(h, T) \in Int
        /\ SumFunctionOnSet(h, T) = SumFunctionOnSet(g, S) + Part(t, T, h[t])
                                                           - Part(t, S, g[t])
    BY <1>2, <1>3, SumOneChange DEF Part
  <1>8. c \in A => f[c] \in Int
    BY <1>1
  <1>9. t \in S => g[t] \in Int
    BY <1>2
  <1>10. /\ OverTotal \in Int
         /\ OverTotal' = OverTotal
              + Part(c, B, e[c]) - Part(c, A, f[c])
              + Part(t, T, h[t]) - Part(t, S, g[t])
    <2>1. /\ Part(c, B, e[c]) \in Int /\ Part(c, A, f[c]) \in Int
          /\ Part(t, T, h[t]) \in Int /\ Part(t, S, g[t]) \in Int
      BY <1>1, <1>2, <1>8, <1>9 DEF Part
    <2> QED  BY <1>4, <1>5, <1>6, <1>7, <2>1
  <1> QED  BY <1>1, <1>2, <1>10 DEF A, B, S, T, Part

\* The bytes of a tenant.
LEMMA BytesStep ==
  ASSUME ChunkTypeOK, ChunkTypeOK', NEW c, NEW t \in Threads, NEW tn,
         \A d \in Chunks \ {c} : CountedChunk(d), \A u \in Threads \ {t} : CountedDrop(u)
  PROVE  /\ BytesTotal(tn) \in Int
         /\ BytesTotal(tn)' = BytesTotal(tn)
              + Part(c, LiveOf(tn)', chunk'[c].cap)
              - Part(c, LiveOf(tn), chunk[c].cap)
              + Part(t, LeavingOf(tn)', reg'[t].size)
              - Part(t, LeavingOf(tn), reg[t].size)
  <1> DEFINE f == [d \in Chunks |-> chunk[d].cap]
             e == [d \in Chunks |-> chunk'[d].cap]
             g == [u \in Threads |-> reg[u].size]
             h == [u \in Threads |-> reg'[u].size]
             A == LiveOf(tn)
             B == LiveOf(tn)'
             S == LeavingOf(tn)
             T == LeavingOf(tn)'
  <1>1. /\ \A d : d # c => (d \in A <=> d \in B)
        /\ \A d \in A \ {c} : e[d] = f[d]
        /\ \A d \in A : f[d] \in Int
        /\ c \in B => e[c] \in Int
        /\ c \in B => e[c] = chunk'[c].cap
        /\ c \in A => f[c] = chunk[c].cap
    BY DEF LiveOf, LiveChunks, CountedChunk, ChunkTypeOK
  <1>2. /\ \A u : u # t => (u \in S <=> u \in T)
        /\ \A u \in S \ {t} : h[u] = g[u]
        /\ \A u \in S : g[u] \in Int
        /\ t \in T => h[t] \in Int
        /\ h[t] = reg'[t].size /\ g[t] = reg[t].size
    BY DEF LeavingOf, Releasing, CountedDrop, ChunkTypeOK
  <1>3. IsFiniteSet(A) /\ IsFiniteSet(S)
    BY CountedFinite
  <1>4. BytesTotal(tn) = SumFunctionOnSet(f, A) + SumFunctionOnSet(g, S)
    BY DEF BytesTotal
  <1>5. BytesTotal(tn)' = SumFunctionOnSet(e, B) + SumFunctionOnSet(h, T)
    BY DEF BytesTotal
  <1> HIDE DEF f, e, g, h, A, B, S, T
  <1>6. /\ SumFunctionOnSet(f, A) \in Int /\ SumFunctionOnSet(e, B) \in Int
        /\ SumFunctionOnSet(e, B) = SumFunctionOnSet(f, A) + Part(c, B, e[c])
                                                           - Part(c, A, f[c])
    BY <1>1, <1>3, SumOneChange DEF Part
  <1>7. /\ SumFunctionOnSet(g, S) \in Int /\ SumFunctionOnSet(h, T) \in Int
        /\ SumFunctionOnSet(h, T) = SumFunctionOnSet(g, S) + Part(t, T, h[t])
                                                           - Part(t, S, g[t])
    BY <1>2, <1>3, SumOneChange DEF Part
  <1>8. c \in A => f[c] \in Int
    BY <1>1
  <1>9. t \in S => g[t] \in Int
    BY <1>2
  <1>10. /\ BytesTotal(tn) \in Int
         /\ BytesTotal(tn)' = BytesTotal(tn)
              + Part(c, B, e[c]) - Part(c, A, f[c])
              + Part(t, T, h[t]) - Part(t, S, g[t])
    <2>1. /\ Part(c, B, e[c]) \in Int /\ Part(c, A, f[c]) \in Int
          /\ Part(t, T, h[t]) \in Int /\ Part(t, S, g[t]) \in Int
      BY <1>1, <1>2, <1>8, <1>9 DEF Part
    <2> QED  BY <1>4, <1>5, <1>6, <1>7, <2>1
  <1> QED  BY <1>1, <1>2, <1>10 DEF A, B, S, T, Part

\* A size below 2^32 survives the cast to u32.
LEMMA CastFits == ASSUME NEW n \in Nat, n < U32 PROVE n % U32 = n
  BY ChunkAssumption

\* Every step keeps the size of a request.
LEMMA SizesKept ==
  ASSUME OwnershipInv, RequestedSizes, [ChunkNext]_cvars
  PROVE  RequestedSizes'
  <1> USE DEF OwnershipInv, RequestedSizes
  <1>1. ASSUME NEW t \in Threads,
               \/ Pack(t) \/ Retire(t) \/ ReturnRetired(t) \/ NothingOpen(t)
               \/ \E b \in Bufs : OpenNewPage(t, b) \/ AllocateDedicated(t, b)
               \/ \E m \in Blocks : AllocateOversized(t, m)
               \/ AllocateZero(t)
        PROVE  RequestedSizes'
    <2>1. pc[t] \in AllocPcs /\ \A u \in Threads \ {t} : pc'[u] = pc[u] /\ reg'[u] = reg[u]
      BY <1>1 DEF Pack, Retire, ReturnRetired, NothingOpen, OpenNewPage, AllocateDedicated,
                  AllocateOversized, AllocateZero, Goto, ChunkTypeOK
    <2>2. reg \in [Threads -> RegType]
      BY DEF ChunkTypeOK, RegType
    <2>3. CASE ReturnRetired(t) \/ NothingOpen(t) \/ AllocateZero(t)
      BY <2>1, <2>3 DEF ReturnRetired, NothingOpen, AllocateZero
    <2>4. CASE Pack(t)
      BY <2>1, <2>2, <2>4 DEF Pack, RegType
    <2>5. CASE Retire(t)
      BY <2>1, <2>2, <2>5 DEF Retire, RegType
    <2>6. CASE \E b \in Bufs : OpenNewPage(t, b) \/ AllocateDedicated(t, b)
      BY <2>1, <2>2, <2>6 DEF OpenNewPage, AllocateDedicated, RegType
    <2>7. CASE \E m \in Blocks : AllocateOversized(t, m)
      BY <2>1, <2>2, <2>7 DEF AllocateOversized, RegType
    <2> QED  BY <1>1, <2>3, <2>4, <2>5, <2>6, <2>7
  <1>2. ASSUME NEW t \in Threads,
               \/ RawPagePanics(t) \/ \E c \in Chunks : Account(t, c) \/ DropChunk(t, c)
               \/ DropStep(t) \/ DropPages(t)
        PROVE  RequestedSizes'
    <2> DEFINE Leaves == /\ pc'[t] \notin AllocPcs
                         /\ \A u \in Threads \ {t} : pc'[u] = pc[u] /\ reg'[u] = reg[u]
    <2>1. CASE RawPagePanics(t) \/ \E c \in Chunks : Account(t, c) \/ DropChunk(t, c)
      <3>1. pc \in [Threads -> {"idle"} \cup PoolPcs \cup DropPcs] /\ reg \in [Threads -> RegType]
        BY DEF ChunkTypeOK, RegType
      <3>2. ASSUME RawPagePanics(t) PROVE Leaves
        BY <3>1, <3>2 DEF RawPagePanics
      <3>3. ASSUME NEW c \in Chunks, Account(t, c) PROVE Leaves
        BY <3>1, <3>3 DEF Account, Goto
      <3>4. ASSUME NEW c \in Chunks, DropChunk(t, c) PROVE Leaves
        BY <3>1, <3>4 DEF DropChunk, Goto
      <3>5. Leaves
        BY <2>1, <3>2, <3>3, <3>4
      <3> QED  BY <3>5
    <2>2. CASE ReleaseChunk(t) \/ FreePacked(t) \/ DropPages(t)
      BY <2>2 DEF ReleaseChunk, FreePacked, DropPages, Goto, ChunkTypeOK
    <2>3. CASE DropPackedArc(t)
      <3>1. Leaves
        BY <2>3 DEF DropPackedArc, ChunkTypeOK
      <3> QED  BY <3>1
    <2>4. CASE DropCurrent(t)
      <3>1. Leaves
        BY <2>4 DEF DropCurrent, ChunkTypeOK
      <3> QED  BY <3>1
    <2> QED  BY <1>2, <2>1, <2>2, <2>3, <2>4 DEF DropStep
  <1>3. ASSUME NEW t \in Threads, NEW tn \in Tenants, NEW size \in Sizes, NEW align \in Aligns,
               AllocateAligned(t, tn, size, align)
        PROVE  RequestedSizes'
    <2>1. reg'[t].size = size /\ \A u \in Threads \ {t} : pc'[u] = pc[u] /\ reg'[u] = reg[u]
      BY <1>3 DEF AllocateAligned, Goto, ChunkTypeOK, NoReg
    <2> QED  BY <2>1
  <1>4. CASE UNCHANGED <<pc, reg>>
    BY <1>4
  <1>5. ASSUME NEW c \in Chunks, ChunkUser(c) PROVE UNCHANGED <<pc, reg>>
    BY <1>5 DEF ChunkUser, Seal, CloneChunk, DropClone
  <1>6. ASSUME NEW b \in Bufs, PrewarmOne(b) \/ PagePoolReleases(b) PROVE UNCHANGED <<pc, reg>>
    BY <1>6 DEF PrewarmOne, PagePoolReleases
  <1>7. ASSUME NEW t \in Threads, AllocStep(t) PROVE RequestedSizes'
    BY <1>1, <1>2, <1>7 DEF AllocStep
  <1>8. ASSUME NEW t \in Threads, ChunkCall(t) PROVE RequestedSizes'
    BY <1>2, <1>3, <1>8 DEF ChunkCall
  <1>9. CASE UNCHANGED cvars \/ ChunkFinished
    BY <1>4, <1>9 DEF cvars, ChunkFinished
  <1> QED  BY <1>2, <1>4, <1>5, <1>6, <1>7, <1>8, <1>9 DEF ChunkNext, ChunkStep

\* Nothing that is counted changes.
LEMMA QuietCounts ==
  ASSUME Exact, cstats' = cstats, tstats' = tstats,
         \A d \in Chunks : CountedChunk(d), \A u \in Threads : CountedDrop(u)
  PROVE  Exact'
  <1>1. LiveChunks' = LiveChunks
    BY DEF LiveChunks, CountedChunk
  <1>2. Releasing' = Releasing
    BY DEF Releasing, CountedDrop
  <1>3. ASSUME NEW tn PROVE LiveOf(tn)' = LiveOf(tn)
    BY DEF LiveOf, LiveChunks, CountedChunk
  <1>4. ASSUME NEW tn PROVE LeavingOf(tn)' = LeavingOf(tn)
    BY DEF LeavingOf, Releasing, CountedDrop
  <1>5. InUseTotal' = InUseTotal
    BY <1>1, <1>2 DEF InUseTotal
  <1>6. \A tn : ChunksTotal(tn)' = ChunksTotal(tn)
    BY <1>3, <1>4 DEF ChunksTotal
  <1>7. OverTotal' = OverTotal
    <2>1. [c \in Chunks |-> chunk'[c].over] = [c \in Chunks |-> chunk[c].over]
      BY DEF CountedChunk
    <2> DEFINE g == [t \in Threads |-> reg[t].over]
               h == [t \in Threads |-> reg'[t].over]
    <2>2. IsFiniteSet(Releasing) /\ \A t \in Releasing : h[t] = g[t]
      BY CountedFinite DEF Releasing, CountedDrop
    <2> HIDE DEF g, h
    <2>3. SumFunctionOnSet(h, Releasing) = SumFunctionOnSet(g, Releasing)
      BY <2>2, SumAgree
    <2> QED  BY <1>1, <1>2, <2>1, <2>3 DEF OverTotal, g, h
  <1>8. ASSUME NEW tn PROVE BytesTotal(tn)' = BytesTotal(tn)
    <2>1. [c \in Chunks |-> chunk'[c].cap] = [c \in Chunks |-> chunk[c].cap]
      BY DEF CountedChunk
    <2> DEFINE g == [t \in Threads |-> reg[t].size]
               h == [t \in Threads |-> reg'[t].size]
               S == LeavingOf(tn)
    <2>2. IsFiniteSet(S) /\ \A t \in S : h[t] = g[t]
      BY CountedFinite DEF LeavingOf, Releasing, CountedDrop
    <2>3. BytesTotal(tn) = SumFunctionOnSet([c \in Chunks |-> chunk[c].cap], LiveOf(tn))
                             + SumFunctionOnSet(g, S)
      BY DEF BytesTotal
    <2>4. BytesTotal(tn)' = SumFunctionOnSet([c \in Chunks |-> chunk'[c].cap], LiveOf(tn)')
                              + SumFunctionOnSet(h, S')
      BY DEF BytesTotal
    <2>5. S' = S /\ LiveOf(tn)' = LiveOf(tn)
      BY <1>3, <1>4
    <2> HIDE DEF g, h, S
    <2>6. SumFunctionOnSet(h, S) = SumFunctionOnSet(g, S)
      BY <2>2, SumAgree
    <2> QED  BY <2>1, <2>3, <2>4, <2>5, <2>6
  <1> QED  BY <1>5, <1>6, <1>7, <1>8 DEF Exact

\* The end of a call: the chunk it gives out counts from now on.
LEMMA AccountCounts ==
  ASSUME \A n \in Sizes : n < U32, OwnershipInv, OwnershipInv', RequestedSizes, Exact,
         NEW t \in Threads, NEW c \in Chunks, Account(t, c)
  PROVE  Exact'
  <1> DEFINE own == reg[t].ten
  <1>1. ChunkTypeOK /\ ChunkTypeOK' /\ own \in Tenants /\ reg[t].size \in Sizes
    BY DEF OwnershipInv, RequestsOK, RequestedSizes, Account, Goto
  <1>2. /\ pc[t] # "release" /\ pc'[t] # "release" /\ chunk[c].st = "none"
        /\ chunk'[c].st # "none" /\ chunk'[c].ten = own /\ chunk'[c].over = reg[t].over
        /\ chunk'[c].cap = reg[t].size % U32
        /\ \A d \in Chunks \ {c} : chunk'[d] = chunk[d]
        /\ \A u \in Threads \ {t} : pc'[u] = pc[u] /\ reg'[u] = reg[u]
    BY <1>1 DEF ChunkTypeOK, Account, Goto
  <1>3. reg[t].size % U32 = reg[t].size
    <2>1. reg[t].size \in Nat /\ reg[t].size < U32
      BY <1>1, ChunkAssumption
    <2> QED  BY <2>1, CastFits
  <1>4. (\A d \in Chunks \ {c} : CountedChunk(d)) /\ (\A u \in Threads \ {t} : CountedDrop(u))
    BY <1>2 DEF CountedChunk, CountedDrop
  <1>5. c \notin LiveChunks /\ c \in LiveChunks' /\ t \notin Releasing /\ t \notin Releasing'
    BY <1>2 DEF LiveChunks, Releasing
  <1>6. \A tn : /\ c \notin LiveOf(tn) /\ t \notin LeavingOf(tn) /\ t \notin LeavingOf(tn)'
                /\ c \in LiveOf(tn)' <=> tn = own
    BY <1>2, <1>5 DEF LiveOf, LeavingOf
  <1>7. cstats'.in_use = InUseTotal' % U64
    <2>1. InUseTotal \in Int /\ InUseTotal' = InUseTotal + 1
      BY <1>4, <1>5, InUseStep DEF Part
    <2>2. cstats'.in_use = FetchAdd(cstats.in_use, 1) /\ cstats.in_use = InUseTotal % U64
      BY <1>1 DEF Account, ChunkTypeOK, Exact
    <2> QED  BY <2>1, <2>2, FetchMod
  <1>8. cstats'.over_bytes = OverTotal' % U64
    <2>1. OverTotal \in Int /\ reg[t].over \in Int /\ OverTotal' = OverTotal + reg[t].over
      <3>1. reg[t].over \in Int
        BY <1>1 DEF ChunkTypeOK
      <3> QED  BY <1>1, <1>2, <1>4, <1>5, <3>1, OverStep DEF Part
    <2>2. /\ cstats'.over_bytes = FetchAdd(cstats.over_bytes, reg[t].over)
          /\ cstats.over_bytes = OverTotal % U64
      BY <1>1 DEF Account, ChunkTypeOK, Exact
    <2> QED  BY <2>1, <2>2, FetchMod
  <1>9. ASSUME NEW tn \in Tenants
        PROVE  /\ tstats'[tn].chunks = ChunksTotal(tn)' % U64
               /\ tstats'[tn].bytes = BytesTotal(tn)' % U64
    <2>1. /\ ChunksTotal(tn) \in Int
          /\ ChunksTotal(tn)' = ChunksTotal(tn) + (IF tn = own THEN 1 ELSE 0)
      <3>1. /\ ChunksTotal(tn) \in Int
            /\ ChunksTotal(tn)' = ChunksTotal(tn) + Part(c, LiveOf(tn)', 1) - Part(c, LiveOf(tn), 1)
                 + Part(t, LeavingOf(tn)', 1) - Part(t, LeavingOf(tn), 1)
        BY <1>4, ChunksStep
      <3> QED  BY <1>6, <3>1 DEF Part
    <2>2. /\ BytesTotal(tn) \in Int /\ reg[t].size \in Int
          /\ BytesTotal(tn)' = BytesTotal(tn) + (IF tn = own THEN reg[t].size ELSE 0)
      <3>1. reg[t].size \in Int
        BY <1>1 DEF ChunkTypeOK
      <3>2. chunk'[c].cap = reg[t].size
        BY <1>2, <1>3
      <3>3. /\ BytesTotal(tn) \in Int
            /\ BytesTotal(tn)' = BytesTotal(tn)
                 + Part(c, LiveOf(tn)', chunk'[c].cap)
                 - Part(c, LiveOf(tn), chunk[c].cap)
                 + Part(t, LeavingOf(tn)', reg'[t].size)
                 - Part(t, LeavingOf(tn), reg[t].size)
        BY <1>1, <1>4, BytesStep
      <3> QED  BY <1>6, <3>1, <3>2, <3>3 DEF Part
    <2>3. tstats[tn].chunks = ChunksTotal(tn) % U64 /\ tstats[tn].bytes = BytesTotal(tn) % U64
      BY DEF Exact
    <2>4. CASE tn = own
      <3>1. /\ tstats'[tn].chunks = FetchAdd(tstats[tn].chunks, 1)
            /\ tstats'[tn].bytes = FetchAdd(tstats[tn].bytes, reg[t].size)
        BY <1>1, <2>4 DEF Account, ChunkTypeOK, TenantTypeOK, TenantCounters, NewBytes
      <3>2. FetchAdd(ChunksTotal(tn) % U64, 1) = (ChunksTotal(tn) + 1) % U64
        BY <2>1, FetchMod
      <3>3. FetchAdd(BytesTotal(tn) % U64, reg[t].size) = (BytesTotal(tn) + reg[t].size) % U64
        BY <1>1, <2>2, FetchMod
      <3> QED  BY <2>1, <2>2, <2>3, <2>4, <3>1, <3>2, <3>3
    <2>5. CASE tn # own
      <3>1. tstats'[tn] = tstats[tn]
        BY <1>1, <2>5 DEF Account, ChunkTypeOK, TenantTypeOK
      <3> QED  BY <2>1, <2>2, <2>3, <2>5, <3>1
    <2> QED  BY <2>4, <2>5
  <1> QED  BY <1>7, <1>8, <1>9 DEF Exact

\* The last handle goes: the thread that drops it stands for the chunk.
LEMMA DropChunkCounts ==
  ASSUME OwnershipInv, OwnershipInv', Exact,
         NEW t \in Threads, NEW c \in Chunks, DropChunk(t, c)
  PROVE  Exact'
  <1> DEFINE own == chunk[c].ten
  <1>1. ChunkTypeOK /\ ChunkTypeOK'
    BY DEF OwnershipInv
  <1>2. /\ pc[t] # "release" /\ pc'[t] = "release" /\ chunk[c].st # "none"
        /\ chunk'[c].st = "none" /\ reg'[t].ten = own /\ reg'[t].over = chunk[c].over
        /\ reg'[t].size = chunk[c].cap
        /\ chunk[c].over \in Int /\ chunk[c].cap \in Int
        /\ \A d \in Chunks \ {c} : chunk'[d] = chunk[d]
        /\ \A u \in Threads \ {t} : pc'[u] = pc[u] /\ reg'[u] = reg[u]
    <2>1. chunk[c].st # "none" /\ chunk[c].over \in Int /\ chunk[c].cap \in Int
      BY ChunkAssumption DEF DropChunk, OwnershipInv, LiveChunksOK, ChunkTypeOK
    <2>2. /\ pc[t] # "release" /\ pc'[t] = "release" /\ chunk'[c].st = "none"
          /\ \A d \in Chunks \ {c} : chunk'[d] = chunk[d]
          /\ \A u \in Threads \ {t} : pc'[u] = pc[u] /\ reg'[u] = reg[u]
      BY <1>1 DEF ChunkTypeOK, DropChunk, Goto, NoChunk
    <2>3. reg'[t].ten = own /\ reg'[t].over = chunk[c].over /\ reg'[t].size = chunk[c].cap
      BY <1>1 DEF ChunkTypeOK, DropChunk, NoReg
    <2> QED  BY <2>1, <2>2, <2>3
  <1>3. cstats' = cstats /\ tstats' = tstats
    BY DEF DropChunk
  <1>4. (\A d \in Chunks \ {c} : CountedChunk(d)) /\ (\A u \in Threads \ {t} : CountedDrop(u))
    BY <1>2 DEF CountedChunk, CountedDrop
  <1>5. c \in LiveChunks /\ c \notin LiveChunks' /\ t \notin Releasing /\ t \in Releasing'
    BY <1>2 DEF LiveChunks, Releasing
  <1>6. \A tn : /\ c \notin LiveOf(tn)' /\ t \notin LeavingOf(tn)
                /\ c \in LiveOf(tn) <=> tn = own
                /\ t \in LeavingOf(tn)' <=> tn = own
    BY <1>2, <1>5 DEF LiveOf, LeavingOf
  <1>7. InUseTotal' = InUseTotal
    BY <1>4, <1>5, InUseStep DEF Part
  <1>8. OverTotal' = OverTotal
    BY <1>1, <1>2, <1>4, <1>5, OverStep DEF Part
  <1>9. ASSUME NEW tn \in Tenants
        PROVE  ChunksTotal(tn)' = ChunksTotal(tn) /\ BytesTotal(tn)' = BytesTotal(tn)
    <2>1. ChunksTotal(tn)' = ChunksTotal(tn)
      <3>1. /\ ChunksTotal(tn) \in Int
            /\ ChunksTotal(tn)' = ChunksTotal(tn) + Part(c, LiveOf(tn)', 1) - Part(c, LiveOf(tn), 1)
                 + Part(t, LeavingOf(tn)', 1) - Part(t, LeavingOf(tn), 1)
        BY <1>4, ChunksStep
      <3> QED  BY <1>6, <3>1 DEF Part
    <2>2. /\ BytesTotal(tn) \in Int
          /\ BytesTotal(tn)' = BytesTotal(tn)
               + Part(c, LiveOf(tn)', chunk'[c].cap)
               - Part(c, LiveOf(tn), chunk[c].cap)
               + Part(t, LeavingOf(tn)', reg'[t].size)
               - Part(t, LeavingOf(tn), reg[t].size)
      BY <1>1, <1>4, BytesStep
    <2> QED  BY <1>2, <1>6, <2>1, <2>2 DEF Part
  <1> QED  BY <1>3, <1>7, <1>8, <1>9 DEF Exact

\* The drop accounts: the chunk no longer counts.
LEMMA ReleaseChunkCounts ==
  ASSUME OwnershipInv, OwnershipInv', Exact, NEW t \in Threads, ReleaseChunk(t)
  PROVE  Exact'
  <1> DEFINE own == reg[t].ten
  <1>1. /\ ChunkTypeOK /\ ChunkTypeOK' /\ own \in Tenants
        /\ reg[t].size \in Int /\ reg[t].over \in Int
    BY DEF OwnershipInv, RequestsOK, ReleaseChunk, Goto, ChunkTypeOK
  <1>2. /\ pc[t] = "release" /\ pc'[t] # "release" /\ chunk' = chunk /\ reg' = reg
        /\ \A u \in Threads \ {t} : pc'[u] = pc[u]
    BY <1>1 DEF ChunkTypeOK, ReleaseChunk, Goto
  <1>3. OPEN \notin LiveChunks /\ OPEN \notin LiveChunks'
    BY Distinct DEF LiveChunks
  <1>4. (\A d \in Chunks \ {OPEN} : CountedChunk(d)) /\ (\A u \in Threads \ {t} : CountedDrop(u))
    BY <1>2 DEF CountedChunk, CountedDrop
  <1>5. t \in Releasing /\ t \notin Releasing'
    BY <1>2 DEF Releasing
  <1>6. ASSUME NEW tn
        PROVE  /\ OPEN \notin LiveOf(tn) /\ OPEN \notin LiveOf(tn)'
               /\ t \notin LeavingOf(tn)' /\ (t \in LeavingOf(tn) <=> tn = own)
    BY <1>3, <1>5 DEF LiveOf, LeavingOf
  <1>7. cstats'.in_use = InUseTotal' % U64
    <2>1. InUseTotal \in Int /\ InUseTotal' = InUseTotal - 1
      BY <1>3, <1>4, <1>5, InUseStep DEF Part
    <2>2. cstats'.in_use = FetchSub(cstats.in_use, 1) /\ cstats.in_use = InUseTotal % U64
      BY <1>1 DEF ReleaseChunk, ChunkTypeOK, Exact
    <2> QED  BY <2>1, <2>2, FetchMod
  <1>8. cstats'.over_bytes = OverTotal' % U64
    <2>1. OverTotal \in Int /\ OverTotal' = OverTotal - reg[t].over
      BY <1>1, <1>3, <1>4, <1>5, OverStep DEF Part
    <2>2. /\ cstats'.over_bytes = FetchSub(cstats.over_bytes, reg[t].over)
          /\ cstats.over_bytes = OverTotal % U64
      BY <1>1 DEF ReleaseChunk, ChunkTypeOK, Exact
    <2> QED  BY <1>1, <2>1, <2>2, FetchMod
  <1>9. ASSUME NEW tn \in Tenants
        PROVE  /\ tstats'[tn].chunks = ChunksTotal(tn)' % U64
               /\ tstats'[tn].bytes = BytesTotal(tn)' % U64
    <2>1. /\ ChunksTotal(tn) \in Int
          /\ ChunksTotal(tn)' = ChunksTotal(tn) - (IF tn = own THEN 1 ELSE 0)
      <3>1. /\ ChunksTotal(tn) \in Int
            /\ ChunksTotal(tn)' = ChunksTotal(tn)
                 + Part(OPEN, LiveOf(tn)', 1) - Part(OPEN, LiveOf(tn), 1)
                 + Part(t, LeavingOf(tn)', 1) - Part(t, LeavingOf(tn), 1)
        BY <1>4, ChunksStep
      <3> QED  BY <1>6, <3>1 DEF Part
    <2>2. /\ BytesTotal(tn) \in Int
          /\ BytesTotal(tn)' = BytesTotal(tn) - (IF tn = own THEN reg[t].size ELSE 0)
      <3>1. /\ BytesTotal(tn) \in Int
            /\ BytesTotal(tn)' = BytesTotal(tn)
                 + Part(OPEN, LiveOf(tn)', chunk'[OPEN].cap)
                 - Part(OPEN, LiveOf(tn), chunk[OPEN].cap)
                 + Part(t, LeavingOf(tn)', reg'[t].size)
                 - Part(t, LeavingOf(tn), reg[t].size)
        BY <1>1, <1>4, BytesStep
      <3> QED  BY <1>1, <1>6, <3>1 DEF Part
    <2>3. tstats[tn].chunks = ChunksTotal(tn) % U64 /\ tstats[tn].bytes = BytesTotal(tn) % U64
      BY DEF Exact
    <2>4. CASE tn = own
      <3>1. /\ tstats'[tn].chunks = FetchSub(tstats[tn].chunks, 1)
            /\ tstats'[tn].bytes = FetchSub(tstats[tn].bytes, reg[t].size)
        BY <1>1, <2>4 DEF ReleaseChunk, ChunkTypeOK, TenantTypeOK, TenantCounters
      <3>2. FetchSub(ChunksTotal(tn) % U64, 1) = (ChunksTotal(tn) - 1) % U64
        BY <2>1, FetchMod
      <3>3. FetchSub(BytesTotal(tn) % U64, reg[t].size) = (BytesTotal(tn) - reg[t].size) % U64
        BY <1>1, <2>2, FetchMod
      <3> QED  BY <2>1, <2>2, <2>3, <2>4, <3>1, <3>2, <3>3
    <2>5. CASE tn # own
      <3>1. tstats'[tn] = tstats[tn]
        BY <1>1, <2>5 DEF ReleaseChunk, ChunkTypeOK, TenantTypeOK
      <3> QED  BY <2>1, <2>2, <2>3, <2>5, <3>1
    <2> QED  BY <2>4, <2>5
  <1> QED  BY <1>7, <1>8, <1>9 DEF Exact

\* The other steps of a thread leave what is counted alone.
LEMMA QuietThread ==
  ASSUME OwnershipInv, NEW t \in Threads,
         \/ Pack(t) \/ Retire(t) \/ ReturnRetired(t) \/ NothingOpen(t)
         \/ \E b \in Bufs : OpenNewPage(t, b) \/ AllocateDedicated(t, b)
         \/ \E m \in Blocks : AllocateOversized(t, m)
         \/ AllocateZero(t) \/ RawPagePanics(t)
         \/ \E tn \in Tenants, size \in Sizes, align \in Aligns :
              AllocateAligned(t, tn, size, align)
         \/ DropPackedArc(t) \/ FreePacked(t) \/ DropCurrent(t) \/ DropPages(t)
  PROVE  /\ cstats' = cstats /\ tstats' = tstats
         /\ \A d \in Chunks : CountedChunk(d)
         /\ \A u \in Threads : CountedDrop(u)
  <1>1. ChunkTypeOK
    BY DEF OwnershipInv
  <1> DEFINE Quiet == /\ cstats' = cstats /\ tstats' = tstats /\ chunk' = chunk
                      /\ pc[t] # "release" /\ pc'[t] # "release"
                      /\ \A u \in Threads \ {t} : pc'[u] = pc[u] /\ reg'[u] = reg[u]
  <1>2. CASE Pack(t) \/ Retire(t) \/ ReturnRetired(t) \/ NothingOpen(t)
    <2>1. Quiet
      BY <1>1, <1>2 DEF ChunkTypeOK, Pack, Retire, ReturnRetired, NothingOpen, Goto
    <2> QED  BY <2>1 DEF CountedChunk, CountedDrop
  <1>3. CASE \/ \E b \in Bufs : OpenNewPage(t, b) \/ AllocateDedicated(t, b)
             \/ \E m \in Blocks : AllocateOversized(t, m)
             \/ AllocateZero(t) \/ RawPagePanics(t)
    <2>1. Quiet
      BY <1>1, <1>3 DEF ChunkTypeOK, OpenNewPage, AllocateDedicated, AllocateOversized,
                        AllocateZero, RawPagePanics, Goto
    <2> QED  BY <2>1 DEF CountedChunk, CountedDrop
  <1>4. ASSUME NEW tn \in Tenants, NEW size \in Sizes, NEW align \in Aligns,
               AllocateAligned(t, tn, size, align)
        PROVE  Quiet
    <2>1. Class(size, align) # "release"
      BY DEF Class
    <2> QED  BY <1>1, <1>4, <2>1 DEF ChunkTypeOK, AllocateAligned, Goto
  <1>5. CASE DropPackedArc(t)
    <2>1. Quiet
      BY <1>1, <1>5 DEF ChunkTypeOK, DropPackedArc
    <2> QED  BY <2>1 DEF CountedChunk, CountedDrop
  <1>6. CASE DropCurrent(t)
    <2>1. Quiet
      BY <1>1, <1>6 DEF ChunkTypeOK, DropCurrent
    <2> QED  BY <2>1 DEF CountedChunk, CountedDrop
  <1>7. CASE FreePacked(t) \/ DropPages(t)
    <2>1. Quiet
      BY <1>1, <1>7 DEF ChunkTypeOK, FreePacked, DropPages, Goto
    <2> QED  BY <2>1 DEF CountedChunk, CountedDrop
  <1> QED  BY <1>2, <1>3, <1>4, <1>5, <1>6, <1>7 DEF CountedChunk, CountedDrop

\* And so do seal, clone and the drop of one of several clones.
LEMMA QuietUser ==
  ASSUME OwnershipInv, NEW c \in Chunks, ChunkUser(c)
  PROVE  /\ cstats' = cstats /\ tstats' = tstats /\ pc' = pc /\ reg' = reg
         /\ \A d \in Chunks : CountedChunk(d)
  <1>1. /\ chunk \in [Chunks -> ChunkType]
        /\ \A d \in Chunks : chunk[d].st = "none" => chunk[d].refs = 0
    BY DEF OwnershipInv, ChunkTypeOK, ChunkType, LiveChunksOK
  <1>2. /\ cstats' = cstats /\ tstats' = tstats /\ pc' = pc /\ reg' = reg
        /\ \A d \in Chunks \ {c} : chunk'[d] = chunk[d]
        /\ chunk[c].st # "none"
    BY <1>1 DEF ChunkUser, Seal, CloneChunk, DropClone
  <1>3. CountedChunk(c)
    <2>1. CASE Seal(c)
      BY <1>1, <1>2, <2>1 DEF Seal, ChunkType, CountedChunk
    <2>2. CASE CloneChunk(c) \/ DropClone(c)
      BY <1>1, <1>2, <2>2 DEF CloneChunk, DropClone, ChunkType, CountedChunk
    <2> QED  BY <2>1, <2>2 DEF ChunkUser
  <1> QED  BY <1>2, <1>3 DEF CountedChunk

\* Every step keeps the counters exact.
LEMMA ExactNext ==
  ASSUME \A n \in Sizes : n < U32, OwnershipInv, OwnershipInv', RequestedSizes, Exact,
         [ChunkNext]_cvars
  PROVE  Exact'
  <1>1. ASSUME NEW t \in Threads, AllocStep(t) PROVE Exact'
    <2>1. ASSUME NEW c \in Chunks, Account(t, c) PROVE Exact'
      BY <2>1, AccountCounts
    <2>2. CASE ~ \E c \in Chunks : Account(t, c)
      BY <1>1, <2>2, QuietThread, QuietCounts DEF AllocStep
    <2> QED  BY <2>1, <2>2
  <1>2. ASSUME NEW t \in Threads, DropStep(t) PROVE Exact'
    <2>1. CASE ReleaseChunk(t)
      BY <2>1, ReleaseChunkCounts
    <2>2. CASE ~ ReleaseChunk(t)
      BY <1>2, <2>2, QuietThread, QuietCounts DEF DropStep
    <2> QED  BY <2>1, <2>2
  <1>3. ASSUME NEW t \in Threads, ChunkCall(t) PROVE Exact'
    <2>1. ASSUME NEW c \in Chunks, DropChunk(t, c) PROVE Exact'
      BY <2>1, DropChunkCounts
    <2>2. CASE ~ \E c \in Chunks : DropChunk(t, c)
      BY <1>3, <2>2, QuietThread, QuietCounts DEF ChunkCall
    <2> QED  BY <2>1, <2>2
  <1>4. ASSUME NEW c \in Chunks, ChunkUser(c) PROVE Exact'
    BY <1>4, QuietUser, QuietCounts DEF CountedDrop
  <1>5. CASE UNCHANGED cvars \/ \E b \in Bufs : PrewarmOne(b) \/ PagePoolReleases(b)
    BY <1>5, QuietCounts DEF cvars, PrewarmOne, PagePoolReleases, CountedChunk, CountedDrop
  <1> QED  BY <1>1, <1>2, <1>3, <1>4, <1>5 DEF ChunkNext, ChunkStep, ChunkFinished

\* No chunk, nothing to count.
LEMMA ExactInit == ChunkInit => Exact /\ RequestedSizes
  <1> SUFFICES ASSUME ChunkInit PROVE Exact /\ RequestedSizes
    OBVIOUS
  <1>1. /\ LiveChunks = {} /\ Releasing = {}
        /\ \A tn : LiveOf(tn) = {} /\ LeavingOf(tn) = {}
    BY DEF ChunkInit, NoChunk, LiveChunks, Releasing, LiveOf, LeavingOf
  <1>2. Cardinality({}) = 0
    BY FS_EmptySet
  <1>3. 0 % U64 = 0
    BY U64Assumption
  <1>4. InUseTotal = 0 /\ OverTotal = 0
    BY <1>1, <1>2, SumEmpty DEF InUseTotal, OverTotal
  <1>5. ASSUME NEW tn PROVE ChunksTotal(tn) = 0 /\ BytesTotal(tn) = 0
    <2>1. LiveOf(tn) = {} /\ LeavingOf(tn) = {}
      BY <1>1
    <2>2. /\ SumFunctionOnSet([c \in Chunks |-> chunk[c].cap], {}) = 0
          /\ SumFunctionOnSet([t \in Threads |-> reg[t].size], {}) = 0
      BY SumEmpty
    <2> QED  BY <1>2, <2>1, <2>2 DEF ChunksTotal, BytesTotal
  <1>6. cstats.in_use = 0 /\ cstats.over_bytes = 0
    BY DEF ChunkInit
  <1>7. \A tn \in Tenants : tstats[tn].chunks = 0 /\ tstats[tn].bytes = 0
    BY DEF ChunkInit, TenantInit
  <1> QED  BY <1>3, <1>4, <1>5, <1>6, <1>7 DEF Exact, RequestedSizes, ChunkInit

\* The pool's chunks_in_use and oversized_bytes_in_use and the tenants' chunks
\* and bytes count what is alive, whichever threads drop the chunks, if every
\* size asked for is below 2^32.  Above, the drop gives back less than the call
\* recorded, since capacity is cast to u32 (src/src/chunk.rs:549): that is what
\* the run chunk_truncation shows.
THEOREM ChunksCounted ==
  ASSUME \A n \in Sizes : n < U32
  PROVE  ChunkSpec => []ChunkCountersExact
  <1>1. ChunkInit => Exact /\ RequestedSizes
    BY ExactInit
  <1>2. OwnershipInv /\ OwnershipInv' /\ RequestedSizes /\ Exact /\ [ChunkNext]_cvars
          => Exact' /\ RequestedSizes'
    BY ExactNext, SizesKept
  <1>3. Exact => ChunkCountersExact
    BY ExactIs
  <1> QED  BY <1>1, <1>2, <1>3, Ownership, PTL DEF ChunkSpec

\* So the cast is the only thing that can leave a tenant with bytes it does not
\* have: with sizes below 2^32, no chunk and no call mean no bytes in use.
THEOREM NothingOwedBelow ==
  ASSUME \A n \in Sizes : n < U32
  PROVE  ChunkSpec => []NothingOwed
  <1>1. ASSUME ChunkCountersExact PROVE NothingOwed
    <2> SUFFICES ASSUME \A t \in Threads : pc[t] = "idle", \A c \in Chunks : chunk[c].st = "none",
                        NEW tn \in Tenants
                 PROVE  tstats[tn].bytes = 0
      BY DEF NothingOwed
    <2>1. LiveOf(tn) = {} /\ LeavingOf(tn) = {}
      BY DEF LiveOf, LeavingOf, LiveChunks, Releasing
    <2>2. /\ SumFunctionOnSet([c \in Chunks |-> chunk[c].cap], {}) = 0
          /\ SumFunctionOnSet([t \in Threads |-> reg[t].size], {}) = 0
      BY SumEmpty
    <2>3. BytesTotal(tn) = 0
      BY <2>1, <2>2 DEF BytesTotal
    <2>4. tstats[tn].bytes = BytesTotal(tn) % U64
      BY <1>1, ExactIs DEF Exact
    <2> QED  BY <2>3, <2>4, U64Assumption
  <1> QED  BY <1>1, ChunksCounted, PTL

-----------------------------------------------------------------------------
(* Bytes: the invariant.                                                   *)

\* A builder has one owner, a chunk without memory is empty.
ChunkRecordOK(c) ==
  /\ chunk[c].st = "none" => chunk[c] = NoChunk
  /\ chunk[c].st = "builder" => chunk[c].refs = 1
  /\ chunk[c].mem = NULL => chunk[c].cap = 0
  /\ chunk[c].mem \in Blocks => chunk[c].off = 0

\* So is a request that takes no memory, and a block is one chunk's.
RequestRecordOK(t) ==
  /\ pc[t] = "zero" => reg[t].size = 0
  /\ pc[t] = "oversized" => reg[t].off = 0
  /\ pc[t] = "account" /\ reg[t].mem = NULL => reg[t].size = 0
  /\ pc[t] = "account" /\ reg[t].mem \in Blocks => reg[t].off = 0

BlocksHeldOnce == \A m \in Blocks : \A g, h \in arcs[m] : g = h

RecordsOK ==
  /\ \A c \in Chunks : ChunkRecordOK(c)
  /\ \A t \in Threads : RequestRecordOK(t)
  /\ BlocksHeldOnce

\* Pages are as long as PageBytes, blocks as their chunk.
MemOK ==
  /\ mem \in [Memory -> Seq(Bytes)]
  /\ \A b \in Bufs : Len(mem[b]) = PageBytes
  /\ \A c \in Chunks : chunk[c].mem \in Blocks => chunk[c].cap <= Len(mem[chunk[c].mem])
  /\ \A t \in Threads : pc[t] = "account" /\ reg[t].mem \in Blocks =>
       reg[t].size <= Len(mem[reg[t].mem])

LenOK == len \in [Chunks -> Nat] /\ \A c \in Chunks : len[c] <= chunk[c].cap

\* One alloc_* call at a time, and none while the pool is allocating.
CallOK ==
  /\ call \subseteq {c \in Chunks : chunk[c].st = "builder"}
  /\ \A c, d \in call : c = d
  /\ \A t \in Threads : pc[t] \in AllocPcs => call = {}

ContentInv == ChunkInv /\ RecordsOK /\ MemOK /\ LenOK /\ CallOK

-----------------------------------------------------------------------------
(* Sequences of bytes.                                                     *)

\* The data that user code writes.
LEMMA RunIsSeq ==
  ASSUME NEW k \in Nat, NEW v \in Values
  PROVE  Run(k, v) \in Seq(Bytes) /\ Len(Run(k, v)) = k
  BY DEF Run, Bytes

\* Fresh memory.
LEMMA ZerosIsSeq ==
  ASSUME NEW k \in Nat
  PROVE  Zeros(k) \in Seq(Bytes) /\ Len(Zeros(k)) = k
  BY DEF Zeros, Bytes

\* A link in the first word of a page.
LEMMA LinkIsSeq ==
  ASSUME NEW q \in Seq(Bytes)
  PROVE  [q EXCEPT ![1] = LINK] \in Seq(Bytes) /\ Len([q EXCEPT ![1] = LINK]) = Len(q)
  <1>1. LINK \in Bytes
    BY DEF Bytes
  <1> DEFINE r == [q EXCEPT ![1] = LINK]
  <1>2. r \in [1 .. Len(q) -> Bytes] /\ Len(q) \in Nat
    <2>1. q \in [1 .. Len(q) -> Bytes] /\ Len(q) \in Nat
      OBVIOUS
    <2> DEFINE n == Len(q)
    <2> HIDE DEF n
    <2>2. q \in [1 .. n -> Bytes]
      BY <2>1 DEF n
    <2>3. r \in [1 .. n -> Bytes]
      BY <1>1, <2>2, Zenon DEF r
    <2> QED  BY <2>1, <2>3 DEF n
  <1> HIDE DEF r
  <1>3. r \in Seq(Bytes) /\ Len(r) = Len(q)
    BY <1>2
  <1> QED  BY <1>3 DEF r

\* A write of s behind position first.
Written(q, first, s) ==
  [i \in DOMAIN q |-> IF i - first \in 1 .. Len(s) THEN s[i - first] ELSE q[i]]

\* It keeps the length, and what is not in its range.
LEMMA WrittenIsSeq ==
  ASSUME NEW q \in Seq(Bytes), NEW first \in Nat, NEW s \in Seq(Bytes)
  PROVE  /\ Written(q, first, s) \in Seq(Bytes) /\ Len(Written(q, first, s)) = Len(q)
         /\ \A i \in 1 .. Len(q) : ~(i - first \in 1 .. Len(s)) => Written(q, first, s)[i] = q[i]
  <1>1. DOMAIN q = 1 .. Len(q) /\ Len(q) \in Nat
    OBVIOUS
  <1>2. \A i \in 1 .. Len(q) : i - first \in 1 .. Len(s) => s[i - first] \in Bytes
    OBVIOUS
  <1>3. \A i \in 1 .. Len(q) : q[i] \in Bytes
    OBVIOUS
  <1>4. Written(q, first, s) = [i \in 1 .. Len(q) |-> IF i - first \in 1 .. Len(s) THEN s[i - first] ELSE q[i]]
    BY <1>1 DEF Written
  <1>5. Written(q, first, s) \in [1 .. Len(q) -> Bytes]
    BY <1>2, <1>3, <1>4
  <1> QED  BY <1>1, <1>4, <1>5

\* A range that lies inside.
LEMMA SliceFacts ==
  ASSUME NEW q \in Seq(Bytes), NEW a \in Nat, NEW n \in Nat, a + n <= Len(q)
  PROVE  /\ SubSeq(q, a + 1, a + n) \in Seq(Bytes) /\ Len(SubSeq(q, a + 1, a + n)) = n
         /\ \A i \in 1 .. n : SubSeq(q, a + 1, a + n)[i] = q[a + i]
  <1>1. a + 1 \in Int /\ a + n \in Int /\ \A i \in a + 1 .. a + n : q[i] \in Bytes
    OBVIOUS
  <1> DEFINE lo == a + 1
             hi == a + n
  <1> HIDE DEF lo, hi
  <1>2. /\ SubSeq(q, lo, hi) \in Seq(Bytes)
        /\ Len(SubSeq(q, lo, hi)) = IF lo <= hi THEN hi - lo + 1 ELSE 0
        /\ \A i \in 1 .. hi - lo + 1 : SubSeq(q, lo, hi)[i] = q[lo + i - 1]
    <2>1. lo \in Int /\ hi \in Int /\ \A i \in lo .. hi : q[i] \in Bytes
      BY <1>1 DEF lo, hi
    <2> QED  BY <2>1, SubSeqProperties
  <1>3. hi - lo + 1 = n /\ (lo <= hi <=> n >= 1) /\ \A i \in 1 .. n : lo + i - 1 = a + i
    BY DEF lo, hi
  <1> DEFINE r == SubSeq(q, lo, hi)
  <1>4. /\ r \in Seq(Bytes) /\ Len(r) = IF lo <= hi THEN n ELSE 0
        /\ \A i \in 1 .. n : r[i] = q[a + i]
    BY <1>2, <1>3
  <1> HIDE DEF r
  <1>5. r \in Seq(Bytes) /\ Len(r) = n /\ \A i \in 1 .. n : r[i] = q[a + i]
    BY <1>3, <1>4
  <1> QED  BY <1>5 DEF r, lo, hi

\* Ranges that agree place by place are the same.
LEMMA SliceSame ==
  ASSUME NEW q \in Seq(Bytes), NEW r \in Seq(Bytes), NEW a \in Nat, NEW n \in Nat,
         a + n <= Len(q), a + n <= Len(r), \A i \in 1 .. n : q[a + i] = r[a + i]
  PROVE  SubSeq(q, a + 1, a + n) = SubSeq(r, a + 1, a + n)
  <1> DEFINE x == SubSeq(q, a + 1, a + n)
             y == SubSeq(r, a + 1, a + n)
  <1>1. x \in Seq(Bytes) /\ Len(x) = n /\ \A i \in 1 .. n : x[i] = q[a + i]
    BY SliceFacts
  <1>2. y \in Seq(Bytes) /\ Len(y) = n /\ \A i \in 1 .. n : y[i] = r[a + i]
    BY SliceFacts
  <1> HIDE DEF x, y
  <1>3. x = y
    <2>1. \A i \in 1 .. n : x[i] = y[i]
      BY <1>1, <1>2
    <2>2. x \in [1 .. n -> Bytes] /\ y \in [1 .. n -> Bytes]
      BY <1>1, <1>2
    <2> QED  BY <2>1, <2>2
  <1> QED  BY <1>3 DEF x, y

-----------------------------------------------------------------------------
(* RecordsOK.                                                              *)


\* The end of an allocation: the block, if it is one, goes from the thread to
\* the chunk.
LEMMA AccountRecords ==
  ASSUME OwnershipInv, RecordsOK, NEW t \in Threads, NEW c \in Chunks, Account(t, c)
  PROVE  RecordsOK'
  <1> DEFINE r == [st |-> "builder", refs |-> 1, mem |-> reg[t].mem, off |-> reg[t].off % U32,
                   cap |-> reg[t].size % U32, align |-> reg[t].align, ten |-> reg[t].ten,
                   over |-> reg[t].over]
  <1>1. /\ pc[t] = "account" /\ pc' = [pc EXCEPT ![t] = "idle"] /\ reg' = [reg EXCEPT ![t] = NoReg]
        /\ chunk' = [chunk EXCEPT ![c] = r] /\ chunk[c].st = "none"
        /\ arcs' = [m \in Memory |-> IF m = reg[t].mem THEN (arcs[m] \ {t}) \cup {c} ELSE arcs[m]]
    BY DEF Account, Goto
  <1>2. /\ pc'[t] = "idle" /\ \A u \in Threads \ {t} : pc'[u] = pc[u] /\ reg'[u] = reg[u]
        /\ chunk'[c] = r /\ \A d \in Chunks \ {c} : chunk'[d] = chunk[d]
    BY <1>1 DEF OwnershipInv, ChunkTypeOK
  <1>3. U32 \in Nat \ {0} /\ 0 % U32 = 0
    BY ChunkAssumption
  <1>4. ChunkRecordOK(c)'
    BY <1>1, <1>2, <1>3 DEF RecordsOK, RequestRecordOK, ChunkRecordOK
  <1>5. \A d \in Chunks \ {c} : ChunkRecordOK(d)'
    BY <1>2 DEF RecordsOK, ChunkRecordOK
  <1>6. \A u \in Threads : RequestRecordOK(u)'
    BY <1>2 DEF RecordsOK, RequestRecordOK
  <1>7. BlocksHeldOnce'
    <2>1. reg[t].mem \in Blocks => t \in arcs[reg[t].mem]
      BY <1>1 DEF OwnershipInv, ArcsExact, Uses
    <2> QED  BY <1>1, <2>1 DEF RecordsOK, BlocksHeldOnce
  <1> QED  BY <1>4, <1>5, <1>6, <1>7 DEF RecordsOK

\* A drop moves the Arc of the chunk to the thread.
LEMMA DropChunkRecords ==
  ASSUME OwnershipInv, RecordsOK, NEW t \in Threads, NEW c \in Chunks, DropChunk(t, c)
  PROVE  RecordsOK'
  <1>1. /\ pc' = [pc EXCEPT ![t] = "release"] /\ chunk[c].refs = 1
        /\ chunk' = [chunk EXCEPT ![c] = NoChunk] /\ \A u \in Threads \ {t} : reg'[u] = reg[u]
        /\ arcs' = [m \in Memory |->
                      IF m = chunk[c].mem THEN (arcs[m] \ {c}) \cup {t} ELSE arcs[m]]
    BY DEF DropChunk, Goto, OwnershipInv, ChunkTypeOK
  <1>2. /\ pc'[t] = "release" /\ \A u \in Threads \ {t} : pc'[u] = pc[u]
        /\ chunk'[c] = NoChunk /\ \A d \in Chunks \ {c} : chunk'[d] = chunk[d]
    BY <1>1 DEF OwnershipInv, ChunkTypeOK
  <1>3. ChunkRecordOK(c)'
    BY <1>2, Distinct DEF ChunkRecordOK, NoChunk
  <1>4. \A d \in Chunks \ {c} : ChunkRecordOK(d)'
    BY <1>2 DEF RecordsOK, ChunkRecordOK
  <1>5. \A u \in Threads : RequestRecordOK(u)'
    BY <1>1, <1>2 DEF RecordsOK, RequestRecordOK
  <1>6. BlocksHeldOnce'
    <2>1. chunk[c].st # "none"
      BY <1>1 DEF OwnershipInv, LiveChunksOK
    <2>2. chunk[c].mem \in Blocks => c \in arcs[chunk[c].mem]
      BY <2>1 DEF OwnershipInv, ArcsExact, Uses
    <2> QED  BY <1>1, <2>2 DEF RecordsOK, BlocksHeldOnce
  <1> QED  BY <1>3, <1>4, <1>5, <1>6 DEF RecordsOK

\* seal, clone and drop of one of several clones: a builder has one owner.
LEMMA UserRecords ==
  ASSUME OwnershipInv, RecordsOK, NEW c \in Chunks, ChunkUser(c)
  PROVE  RecordsOK'
  <1>1. /\ pc' = pc /\ reg' = reg /\ arcs' = arcs /\ chunk[c].st # "none"
        /\ \A d \in Chunks \ {c} : chunk'[d] = chunk[d]
        /\ chunk'[c].mem = chunk[c].mem /\ chunk'[c].off = chunk[c].off
        /\ chunk'[c].cap = chunk[c].cap /\ chunk'[c].st = "sealed"
    BY DEF ChunkUser, Seal, CloneChunk, DropClone, OwnershipInv, ChunkTypeOK, LiveChunksOK,
           RecordsOK, ChunkRecordOK
  <1> QED  BY <1>1 DEF RecordsOK, ChunkRecordOK, RequestRecordOK, BlocksHeldOnce

\* Steps that leave the chunks alone.
LEMMA QuietRecords ==
  ASSUME RecordsOK, chunk' = chunk, BlocksHeldOnce', \A u \in Threads : RequestRecordOK(u)'
  PROVE  RecordsOK'
  BY DEF RecordsOK, ChunkRecordOK

\* allocate, up to the builder.
LEMMA AllocRecords ==
  ASSUME OwnershipInv, RecordsOK, NEW t \in Threads, AllocStep(t), ~\E c \in Chunks : Account(t, c)
  PROVE  RecordsOK' /\ chunk' = chunk
  <1> USE DEF OwnershipInv, ChunkTypeOK, Goto
  <1>0. \A m \in Blocks : m \notin Bufs /\ m # NULL
    BY Distinct
  <1>1. ASSUME Pack(t) PROVE RecordsOK' /\ chunk' = chunk
    <2>1. /\ chunk' = chunk /\ current.mem \in Bufs /\ pc'[t] = "account" /\ reg'[t].mem = current.mem
          /\ \A u \in Threads \ {t} : pc'[u] = pc[u] /\ reg'[u] = reg[u]
          /\ \A m \in Blocks : arcs'[m] = arcs[m]
      BY <1>0, <1>1 DEF Pack, HasRoom
    <2>2. BlocksHeldOnce' /\ \A u \in Threads : RequestRecordOK(u)'
      BY <1>0, <2>1, Distinct DEF RecordsOK, BlocksHeldOnce, RequestRecordOK
    <2> QED  BY <2>1, <2>2, QuietRecords
  <1>2. ASSUME Retire(t) PROVE RecordsOK' /\ chunk' = chunk
    <2>1. /\ chunk' = chunk /\ current.mem \in Bufs /\ pc'[t] \in {"retired", "open"}
          /\ \A u \in Threads \ {t} : pc'[u] = pc[u] /\ reg'[u] = reg[u]
          /\ \A m \in Blocks : arcs'[m] = arcs[m]
      BY <1>0, <1>2 DEF Retire
    <2>2. BlocksHeldOnce' /\ \A u \in Threads : RequestRecordOK(u)'
      BY <1>0, <2>1 DEF RecordsOK, BlocksHeldOnce, RequestRecordOK
    <2> QED  BY <2>1, <2>2, QuietRecords
  <1>3. ASSUME ReturnRetired(t) \/ NothingOpen(t) \/ RawPagePanics(t) PROVE RecordsOK' /\ chunk' = chunk
    <2>1. /\ chunk' = chunk /\ pc'[t] \in {"open", "idle"} /\ arcs' = arcs
          /\ \A u \in Threads \ {t} : pc'[u] = pc[u] /\ reg'[u] = reg[u]
      BY <1>3 DEF ReturnRetired, NothingOpen, RawPagePanics
    <2>2. BlocksHeldOnce' /\ \A u \in Threads : RequestRecordOK(u)'
      BY <2>1 DEF RecordsOK, BlocksHeldOnce, RequestRecordOK
    <2> QED  BY <2>1, <2>2, QuietRecords
  <1>4. ASSUME NEW b \in Bufs, OpenNewPage(t, b) \/ AllocateDedicated(t, b)
        PROVE  RecordsOK' /\ chunk' = chunk
    <2>1. /\ chunk' = chunk
          /\ pc'[t] = "packed" \/ (pc'[t] = "account" /\ reg'[t].mem = b)
          /\ \A u \in Threads \ {t} : pc'[u] = pc[u] /\ reg'[u] = reg[u]
          /\ \A m \in Blocks : arcs'[m] = arcs[m]
      BY <1>0, <1>4 DEF OpenNewPage, AllocateDedicated
    <2>2. BlocksHeldOnce' /\ \A u \in Threads : RequestRecordOK(u)'
      BY <1>0, <2>1, Distinct DEF RecordsOK, BlocksHeldOnce, RequestRecordOK
    <2> QED  BY <2>1, <2>2, QuietRecords
  <1>5. ASSUME NEW m \in Blocks, AllocateOversized(t, m) PROVE RecordsOK' /\ chunk' = chunk
    <2>1. /\ chunk' = chunk /\ pc[t] = "oversized" /\ pc'[t] = "account"
          /\ reg'[t].mem = m /\ reg'[t].off = reg[t].off
          /\ \A u \in Threads \ {t} : pc'[u] = pc[u] /\ reg'[u] = reg[u]
          /\ arcs'[m] = {t} /\ \A k \in Blocks \ {m} : arcs'[k] = arcs[k]
      BY <1>0, <1>5 DEF AllocateOversized
    <2>2. BlocksHeldOnce'
      BY <2>1 DEF RecordsOK, BlocksHeldOnce
    <2>3. \A u \in Threads : RequestRecordOK(u)'
      BY <1>0, <2>1 DEF RecordsOK, RequestRecordOK
    <2> QED  BY <2>1, <2>2, <2>3, QuietRecords
  <1>6. ASSUME AllocateZero(t) PROVE RecordsOK' /\ chunk' = chunk
    <2>1. /\ chunk' = chunk /\ pc[t] = "zero" /\ pc'[t] = "account" /\ arcs' = arcs /\ reg' = reg
          /\ \A u \in Threads \ {t} : pc'[u] = pc[u] /\ reg[t].mem = NULL
      BY <1>6 DEF AllocateZero, RequestsOK
    <2>2. BlocksHeldOnce' /\ \A u \in Threads : RequestRecordOK(u)'
      BY <1>0, <1>6, <2>1 DEF RecordsOK, BlocksHeldOnce, RequestRecordOK, RequestsOK
    <2> QED  BY <2>1, <2>2, QuietRecords
  <1> QED  BY <1>1, <1>2, <1>3, <1>4, <1>5, <1>6 DEF AllocStep

\* A drop, from the accounting on.
LEMMA DropRecords ==
  ASSUME OwnershipInv, RecordsOK, NEW t \in Threads, DropStep(t)
  PROVE  RecordsOK' /\ chunk' = chunk
  <1>1. /\ chunk' = chunk /\ pc'[t] \in {"arc_drop", "free", "idle"}
        /\ \A u \in Threads \ {t} : pc'[u] = pc[u] /\ reg'[u] = reg[u]
        /\ \A m \in Blocks : arcs'[m] \subseteq arcs[m]
    BY DEF DropStep, ReleaseChunk, DropPackedArc, FreePacked, DropCurrent, Goto, OwnershipInv,
           ChunkTypeOK
  <1>2. BlocksHeldOnce' /\ \A u \in Threads : RequestRecordOK(u)'
    BY <1>1 DEF RecordsOK, BlocksHeldOnce, RequestRecordOK
  <1> QED  BY <1>1, <1>2, QuietRecords

\* Calls, and what the PagePool does by itself.
LEMMA CallRecords ==
  ASSUME OwnershipInv, RecordsOK,
         \/ \E t \in Threads, tn \in Tenants, size \in Sizes, align \in Aligns :
              AllocateAligned(t, tn, size, align)
         \/ \E t \in Threads : DropPages(t)
         \/ \E b \in Bufs : PrewarmOne(b) \/ PagePoolReleases(b)
         \/ UNCHANGED cvars
  PROVE  RecordsOK' /\ chunk' = chunk /\ arcs' = arcs
  <1>1. ASSUME NEW t \in Threads, NEW tn \in Tenants, NEW size \in Sizes, NEW align \in Aligns,
               AllocateAligned(t, tn, size, align)
        PROVE  RecordsOK' /\ chunk' = chunk /\ arcs' = arcs
    <2>1. /\ chunk' = chunk /\ arcs' = arcs /\ pc'[t] = Class(size, align)
          /\ reg'[t].size = size /\ reg'[t].off = 0
          /\ \A u \in Threads \ {t} : pc'[u] = pc[u] /\ reg'[u] = reg[u]
      BY <1>1 DEF AllocateAligned, Goto, NoReg, OwnershipInv, ChunkTypeOK
    <2>2. /\ Class(size, align) # "account"
          /\ Class(size, align) = "zero" => size = 0
      BY DEF Class
    <2>3. BlocksHeldOnce' /\ \A u \in Threads : RequestRecordOK(u)'
      <3>1. BlocksHeldOnce'
        BY <2>1 DEF RecordsOK, BlocksHeldOnce
      <3>2. RequestRecordOK(t)'
        BY <2>1, <2>2 DEF RequestRecordOK
      <3>3. \A u \in Threads \ {t} : RequestRecordOK(u)'
        BY <2>1 DEF RecordsOK, RequestRecordOK
      <3> QED  BY <3>1, <3>2, <3>3
    <2> QED  BY <2>1, <2>3, QuietRecords
  <1>2. ASSUME NEW t \in Threads, DropPages(t)
        PROVE  RecordsOK' /\ chunk' = chunk /\ arcs' = arcs
    <2>1. /\ chunk' = chunk /\ arcs' = arcs /\ pc'[t] = "drop_current" /\ reg' = reg
          /\ \A u \in Threads \ {t} : pc'[u] = pc[u]
      BY <1>2 DEF DropPages, Goto, OwnershipInv, ChunkTypeOK
    <2>2. BlocksHeldOnce' /\ \A u \in Threads : RequestRecordOK(u)'
      BY <2>1 DEF RecordsOK, BlocksHeldOnce, RequestRecordOK
    <2> QED  BY <2>1, <2>2, QuietRecords
  <1>3. ASSUME UNCHANGED cvars \/ \E b \in Bufs : PrewarmOne(b) \/ PagePoolReleases(b)
        PROVE  RecordsOK' /\ chunk' = chunk /\ arcs' = arcs
    <2>1. chunk' = chunk /\ arcs' = arcs /\ pc' = pc /\ reg' = reg
      BY <1>3 DEF PrewarmOne, PagePoolReleases, cvars
    <2>2. BlocksHeldOnce' /\ \A u \in Threads : RequestRecordOK(u)'
      BY <2>1 DEF RecordsOK, BlocksHeldOnce, RequestRecordOK
    <2> QED  BY <2>1, <2>2, QuietRecords
  <1> QED  BY <1>1, <1>2, <1>3

-----------------------------------------------------------------------------
(* Ranges of live chunks.                                                  *)

PoolInv == ChunkInv /\ RecordsOK

\* A step of ChunkContent is one of ChunkPool, or leaves the pool alone.
LEMMA ContentIsChunkStep == ASSUME [ContentNext]_contents PROVE [ChunkNext]_cvars
  <1>1. ASSUME PoolSide PROVE ChunkNext
    BY <1>1 DEF PoolSide, ChunkNext, ChunkCall, ChunkUser
  <1>2. ASSUME NEW c \in Chunks, BuilderSide(c) PROVE ChunkNext \/ UNCHANGED cvars
    <2>1. Seal(c) \/ UNCHANGED cvars
      BY <1>2 DEF BuilderSide, AllocFrom, AllocWith, AllocWithLen, FillAndSeal, UserSeal,
                  AppendBytes, WriteMut, SetLen
    <2> QED  BY <2>1 DEF ChunkNext, ChunkUser
  <1> QED  BY <1>1, <1>2 DEF ContentNext, ChunkFinished, contents

\* What ChunkPool keeps, it keeps under ChunkContent.
LEMMA PoolInvNext ==
  ASSUME PageBytes <= U32, PoolInv, [ChunkNext]_cvars
  PROVE  PoolInv'
  <1>1. OwnershipInv'
    BY OwnershipNext DEF PoolInv, ChunkInv
  <1>2. LayoutInv'
    BY <1>1, LayoutNext DEF PoolInv, ChunkInv
  <1>3. RecordsOK'
    <2> USE DEF PoolInv, ChunkInv
    <2>1. ASSUME NEW t \in Threads, ChunkStep(t) PROVE RecordsOK'
      BY <2>1, AllocRecords, AccountRecords, DropRecords DEF ChunkStep
    <2>2. ASSUME NEW t \in Threads, ChunkCall(t) PROVE RecordsOK'
      BY <2>2, CallRecords, DropChunkRecords DEF ChunkCall
    <2> QED  BY <2>1, <2>2, CallRecords, UserRecords DEF ChunkNext, ChunkFinished
  <1> QED  BY <1>1, <1>2, <1>3 DEF PoolInv, ChunkInv

\* The range of a chunk lies inside its memory, which it has an Arc on.
LEMMA RangeInside ==
  ASSUME PoolInv, MemOK, NEW c \in Chunks
  PROVE  /\ chunk[c].off \in Nat /\ chunk[c].cap \in Nat /\ chunk[c].mem \in Memory \cup {NULL}
         /\ chunk[c].mem = NULL => chunk[c].cap = 0
         /\ chunk[c].mem # NULL =>
              /\ chunk[c].mem \in Memory /\ chunk[c].st # "none" /\ c \in arcs[chunk[c].mem]
              /\ mem[chunk[c].mem] \in Seq(Bytes)
              /\ chunk[c].off + chunk[c].cap <= Len(mem[chunk[c].mem])
  <1>1. chunk[c].off \in Nat /\ chunk[c].cap \in Nat /\ chunk[c].mem \in Memory \cup {NULL}
    BY ChunkAssumption DEF PoolInv, ChunkInv, OwnershipInv, ChunkTypeOK
  <1>2. chunk[c].mem = NULL => chunk[c].cap = 0
    BY DEF PoolInv, RecordsOK, ChunkRecordOK
  <1>3. ASSUME chunk[c].mem # NULL
        PROVE  /\ chunk[c].mem \in Memory /\ chunk[c].st # "none" /\ c \in arcs[chunk[c].mem]
               /\ mem[chunk[c].mem] \in Seq(Bytes)
               /\ chunk[c].off + chunk[c].cap <= Len(mem[chunk[c].mem])
    <2>1. chunk[c].mem \in Memory /\ chunk[c].st # "none" /\ mem[chunk[c].mem] \in Seq(Bytes)
      BY <1>1, <1>3 DEF PoolInv, RecordsOK, ChunkRecordOK, NoChunk, MemOK
    <2>2. c \in arcs[chunk[c].mem]
      BY <2>1 DEF PoolInv, ChunkInv, OwnershipInv, ArcsExact, Uses
    <2>3. CASE chunk[c].mem \in Bufs
      <3>1. ClaimOK(c) /\ OffOf(c) = chunk[c].off /\ SizeOf(c) = chunk[c].cap
        BY <2>1, <2>3 DEF PoolInv, ChunkInv, LayoutInv, Claimants, MemOf, OffOf, SizeOf
      <3> QED  BY <2>1, <2>2, <2>3, <3>1 DEF ClaimOK, MemOK
    <2>4. CASE chunk[c].mem \in Blocks
      <3>1. chunk[c].off = 0 /\ chunk[c].cap <= Len(mem[chunk[c].mem])
        BY <2>4 DEF PoolInv, RecordsOK, ChunkRecordOK, MemOK
      <3> QED  BY <1>1, <2>1, <2>2, <3>1
    <2> QED  BY <2>1, <2>3, <2>4
  <1> QED  BY <1>1, <1>2, <1>3

\* as_mut_slice is as long as the capacity.
LEMMA SliceLen ==
  ASSUME PoolInv, MemOK, NEW c \in Chunks
  PROVE  AsMutSlice(c) \in Seq(Bytes) /\ Len(AsMutSlice(c)) = chunk[c].cap
  <1>1. CASE chunk[c].mem = NULL
    BY <1>1, RangeInside DEF AsMutSlice, SliceOf
  <1>2. CASE chunk[c].mem # NULL
    <2>1. /\ chunk[c].off \in Nat /\ chunk[c].cap \in Nat /\ mem[chunk[c].mem] \in Seq(Bytes)
          /\ chunk[c].off + chunk[c].cap <= Len(mem[chunk[c].mem])
      BY <1>2, RangeInside
    <2>2. AsMutSlice(c) = SubSeq(mem[chunk[c].mem], chunk[c].off + 1, chunk[c].off + chunk[c].cap)
      BY <1>2 DEF AsMutSlice, SliceOf
    <2> DEFINE q == mem[chunk[c].mem]
               a == chunk[c].off
               n == chunk[c].cap
    <2>3. a \in Nat /\ n \in Nat /\ q \in Seq(Bytes) /\ a + n <= Len(q)
      BY <2>1
    <2>4. AsMutSlice(c) = SubSeq(q, a + 1, a + n)
      BY <2>2
    <2> HIDE DEF q, a, n
    <2>5. SubSeq(q, a + 1, a + n) \in Seq(Bytes) /\ Len(SubSeq(q, a + 1, a + n)) = n
      BY <2>3, SliceFacts
    <2> QED  BY <2>4, <2>5 DEF n
  <1> QED  BY <1>1, <1>2

\* Two live chunks in one memory have ranges apart.
LEMMA RangesApart ==
  ASSUME PoolInv, MemOK, NEW c \in Chunks, NEW d \in Chunks \ {c},
         chunk[c].mem # NULL, chunk[c].mem = chunk[d].mem
  PROVE  \/ chunk[c].off + chunk[c].cap <= chunk[d].off
         \/ chunk[d].off + chunk[d].cap <= chunk[c].off
  <1>1. /\ chunk[c].mem \in Memory /\ chunk[c].st # "none" /\ chunk[d].st # "none"
        /\ c \in arcs[chunk[c].mem] /\ d \in arcs[chunk[c].mem]
    BY RangeInside
  <1>2. chunk[c].mem \in Bufs
    BY <1>1 DEF PoolInv, RecordsOK, BlocksHeldOnce
  <1>3. /\ c \in Claimants /\ d \in Claimants /\ MemOf(c) = chunk[c].mem /\ MemOf(d) = chunk[d].mem
        /\ OffOf(c) = chunk[c].off /\ SizeOf(c) = chunk[c].cap
        /\ OffOf(d) = chunk[d].off /\ SizeOf(d) = chunk[d].cap
    BY <1>1 DEF Claimants, MemOf, OffOf, SizeOf
  <1>4. Apart(c, d)
    BY <1>2, <1>3 DEF PoolInv, ChunkInv, LayoutInv
  <1> QED  BY <1>3, <1>4 DEF Apart

\* ContentTypeOK is part of the invariant.
LEMMA ContentTypes == ContentInv => ContentTypeOK
  <1> SUFFICES ASSUME ContentInv PROVE ContentTypeOK
    OBVIOUS
  <1>1. PoolInv /\ MemOK
    BY DEF ContentInv, PoolInv
  <1>2. Cardinality(call) <= 1
    <2>1. CASE call = {}
      BY <2>1, FS_EmptySet
    <2>2. ASSUME NEW c \in call PROVE Cardinality(call) <= 1
      <3>1. call = {c}
        BY <2>2 DEF ContentInv, CallOK
      <3> QED  BY <3>1, FS_Singleton
    <2> QED  BY <2>1, <2>2
  <1>3. \A c \in Chunks : len[c] \in 0 .. chunk[c].cap
    BY <1>1, RangeInside DEF ContentInv, LenOK
  <1>4. \A c \in Chunks : chunk[c].mem # NULL => chunk[c].off + chunk[c].cap <= Len(mem[chunk[c].mem])
    BY <1>1, RangeInside
  <1> QED  BY <1>2, <1>3, <1>4 DEF ContentInv, MemOK, CallOK, ContentTypeOK

-----------------------------------------------------------------------------
(* Steps of HandleStore.                                                   *)

\* What one chunk's step does to all that is shown.
LEMMA OneShown ==
  ASSUME NEW c \in Chunks, \A d \in Chunks \ {c} : Shown'[d] = Shown[d]
  PROVE  Shown' = [Shown EXCEPT ![c] = Shown'[c]]
  BY DEF Shown

\* A chunk that keeps its record and its bytes shows the same.
LEMMA ShownSame ==
  ASSUME NEW c \in Chunks, chunk'[c] = chunk[c],
         chunk[c].st # "none" => len'[c] = len[c] /\ AsMutSlice(c)' = AsMutSlice(c)
  PROVE  Shown'[c] = Shown[c]
  BY DEF Shown

\* append, as_mut_slice and set_len, as HandleStore has them.
LEMMA StoreEdit ==
  ASSUME NEW c \in Chunks, Shown' = [Shown EXCEPT ![c] = Shown'[c]], Shown[c].st = "builder",
         Shown'[c] = [st |-> "builder", refs |-> Shown[c].refs, len |-> Shown'[c].len,
                      data |-> Shown'[c].data],
         Len(Shown'[c].data) = Len(Shown[c].data), Shown'[c].len <= Len(Shown'[c].data)
  PROVE  Store!StoreNext
  <1>1. Store!Edit(c, Shown'[c].data, Shown'[c].len)
    BY DEF Store!Edit, Store!Becomes
  <1> QED  BY <1>1 DEF Store!StoreNext

\* seal, and the end of an alloc_* call.
LEMMA StoreComplete ==
  ASSUME NEW c \in Chunks, Shown' = [Shown EXCEPT ![c] = Shown'[c]], Shown[c].st = "builder",
         Shown'[c] = [st |-> "sealed", refs |-> 1, len |-> Shown'[c].len,
                      data |-> Shown'[c].data],
         Len(Shown'[c].data) = Len(Shown[c].data), Shown'[c].len <= Len(Shown'[c].data)
  PROVE  Store!StoreNext
  <1>1. Store!Complete(c, Shown'[c].data, Shown'[c].len)
    BY DEF Store!Complete, Store!Becomes
  <1> QED  BY <1>1 DEF Store!StoreNext

\* allocate.
LEMMA StoreCreate ==
  ASSUME NEW c \in Chunks, Shown' = [Shown EXCEPT ![c] = Shown'[c]], Shown[c].st = "none",
         Shown'[c] = [st |-> "builder", refs |-> 1, len |-> 0, data |-> Shown'[c].data]
  PROVE  Store!StoreNext
  <1>1. Store!Create(c, Shown'[c].data)
    BY DEF Store!Create, Store!Becomes
  <1> QED  BY <1>1 DEF Store!StoreNext

\* clone, and drop of one of several clones.
LEMMA StoreShare ==
  ASSUME NEW c \in Chunks, Shown' = [Shown EXCEPT ![c] = Shown'[c]], Shown[c].st = "sealed",
         \/ Shown'[c] = [Shown[c] EXCEPT !.refs = @ + 1]
         \/ Shown[c].refs > 1 /\ Shown'[c] = [Shown[c] EXCEPT !.refs = @ - 1]
  PROVE  Store!StoreNext
  <1>1. Store!Share(c) \/ Store!Unshare(c)
    BY DEF Store!Share, Store!Unshare, Store!Becomes
  <1> QED  BY <1>1 DEF Store!StoreNext

\* Drop of the last handle, or of a builder.
LEMMA StoreDiscard ==
  ASSUME NEW c \in Chunks, Shown' = [Shown EXCEPT ![c] = Shown'[c]], Shown[c].refs = 1,
         Shown'[c] = [st |-> "none", refs |-> 0, len |-> 0, data |-> <<>>]
  PROVE  Store!StoreNext
  <1>1. Store!Discard(c)
    BY DEF Store!Discard, Store!Becomes, Store!NoHandle
  <1> QED  BY <1>1 DEF Store!StoreNext

-----------------------------------------------------------------------------
(* The builder's steps.                                                    *)

\* A chunk keeps where it lies.
SamePlace(c) ==
  chunk'[c].mem = chunk[c].mem /\ chunk'[c].off = chunk[c].off /\ chunk'[c].cap = chunk[c].cap

\* A byte of a range apart from the one written is not among the bytes written.
LEMMA OutsideTheWrite ==
  ASSUME NEW off \in Nat, NEW cap \in Nat, NEW at \in Nat, NEW k \in Nat, at + k <= cap,
         NEW a \in Nat, NEW n \in Nat, off + cap <= a \/ a + n <= off, NEW i \in 1 .. n
  PROVE  ~((a + i) - (off + at) \in 1 .. k)
  OBVIOUS

\* A write inside the range of one chunk changes no other's bytes.
LEMMA PutInside ==
  ASSUME PoolInv, MemOK, NEW c \in Chunks, NEW at \in Nat, NEW s \in Seq(Bytes),
         at + Len(s) <= chunk[c].cap, mem' = Put(c, at, s), pc' = pc, reg' = reg,
         \A d \in Chunks : SamePlace(d)
  PROVE  /\ MemOK'
         /\ \A d \in Chunks \ {c} : AsMutSlice(d)' = AsMutSlice(d)
  <1>1. CASE s = <<>>
    <2>1. mem' = mem
      BY <1>1 DEF Put
    <2> QED  BY <2>1 DEF MemOK, SamePlace, AsMutSlice, SliceOf
  <1>2. CASE s # <<>>
    <2> DEFINE m == chunk[c].mem
               first == chunk[c].off + at
               w == Written(mem[m], first, s)
    <2>1. Len(s) > 0
      BY <1>2
    <2>2. /\ m \in Memory /\ mem[m] \in Seq(Bytes) /\ chunk[c].off \in Nat /\ chunk[c].cap \in Nat
          /\ first \in Nat /\ m # NULL
      BY <2>1, RangeInside
    <2>3. mem' = [mem EXCEPT ![m] = w]
      BY <1>2 DEF Put, Written
    <2>4. /\ w \in Seq(Bytes) /\ Len(w) = Len(mem[m])
          /\ \A i \in 1 .. Len(mem[m]) : ~(i - first \in 1 .. Len(s)) => w[i] = mem[m][i]
      BY <2>2, WrittenIsSeq
    <2> HIDE DEF w
    <2>5. /\ mem' \in [Memory -> Seq(Bytes)] /\ mem'[m] = w
          /\ \A k \in Memory \ {m} : mem'[k] = mem[k]
          /\ \A k \in Memory : Len(mem'[k]) = Len(mem[k])
      BY <2>2, <2>3, <2>4 DEF MemOK
    <2>6. MemOK'
      BY <2>5 DEF MemOK, SamePlace
    <2>7. ASSUME NEW d \in Chunks \ {c} PROVE AsMutSlice(d)' = AsMutSlice(d)
      <3>1. CASE chunk[d].mem = NULL
        BY <3>1 DEF AsMutSlice, SliceOf, SamePlace
      <3>2. CASE chunk[d].mem \notin {NULL, m}
        <4>1. chunk[d].mem \in Memory
          BY <3>2, RangeInside
        <4>2. mem'[chunk[d].mem] = mem[chunk[d].mem]
          BY <2>5, <3>2, <4>1
        <4> QED  BY <4>2 DEF AsMutSlice, SliceOf, SamePlace
      <3>3. CASE chunk[d].mem = m
        <4> DEFINE a == chunk[d].off
                   n == chunk[d].cap
        <4>1. /\ a \in Nat /\ n \in Nat /\ a + n <= Len(mem[m])
          BY <2>2, <3>3, RangeInside
        <4>2. chunk[c].off + chunk[c].cap <= a \/ a + n <= chunk[c].off
          BY <2>2, <3>3, RangesApart
        <4>3. /\ AsMutSlice(d) = SubSeq(mem[m], a + 1, a + n)
              /\ AsMutSlice(d)' = SubSeq(w, a + 1, a + n)
          BY <2>2, <2>5, <3>3 DEF AsMutSlice, SliceOf, SamePlace
        <4> HIDE DEF a, n
        <4>4. ASSUME NEW i \in 1 .. n PROVE w[a + i] = mem[m][a + i]
          <5>1. a + i \in 1 .. Len(mem[m])
            BY <4>1
          <5>2. ~((a + i) - first \in 1 .. Len(s))
            <6>1. Len(s) \in Nat /\ first = chunk[c].off + at
              OBVIOUS
            <6>2. ~((a + i) - (chunk[c].off + at) \in 1 .. Len(s))
              BY <2>2, <4>1, <4>2, <6>1, OutsideTheWrite
            <6> QED  BY <6>1, <6>2
          <5> QED  BY <2>4, <5>1, <5>2
        <4>5. SubSeq(mem[m], a + 1, a + n) = SubSeq(w, a + 1, a + n)
          <5> DEFINE q == mem[m]
          <5>2. /\ q \in Seq(Bytes) /\ w \in Seq(Bytes) /\ a + n <= Len(q) /\ a + n <= Len(w)
                /\ \A i \in 1 .. n : q[a + i] = w[a + i]
            BY <2>2, <2>4, <4>1, <4>4
          <5> HIDE DEF q
          <5>3. SubSeq(q, a + 1, a + n) = SubSeq(w, a + 1, a + n)
            BY <4>1, <5>2, SliceSame
          <5> QED  BY <5>3 DEF q
        <4> QED  BY <4>3, <4>5
      <3> QED  BY <3>1, <3>2, <3>3
    <2> QED  BY <2>6, <2>7
  <1> QED  BY <1>1, <1>2

\* A builder in the caller's hand writes, and keeps or changes its length.
LEMMA EditStep ==
  ASSUME ContentInv, PoolInv', NEW c \in Chunks, InHand(c), UNCHANGED <<call, cvars>>,
         NEW at \in Nat, NEW s \in Seq(Bytes), at + Len(s) <= chunk[c].cap, mem' = Put(c, at, s),
         NEW n \in Nat, n <= chunk[c].cap, len' = [len EXCEPT ![c] = n]
  PROVE  ContentInv' /\ Store!StoreNext
  <1>1. /\ PoolInv /\ MemOK /\ chunk' = chunk /\ pc' = pc /\ reg' = reg /\ call' = call
        /\ chunk[c].st = "builder"
    BY DEF ContentInv, PoolInv, cvars, InHand
  <1>2. \A d \in Chunks : SamePlace(d)
    BY <1>1 DEF SamePlace
  <1>3. MemOK' /\ \A d \in Chunks \ {c} : AsMutSlice(d)' = AsMutSlice(d)
    BY <1>1, <1>2, PutInside
  <1>4. len' \in [Chunks -> Nat] /\ len'[c] = n /\ \A d \in Chunks \ {c} : len'[d] = len[d]
    BY DEF ContentInv, LenOK
  <1>5. LenOK' /\ CallOK'
    BY <1>1, <1>4 DEF ContentInv, LenOK, CallOK
  <1>6. ContentInv'
    BY <1>3, <1>5 DEF ContentInv, PoolInv
  <1>7. Shown' = [Shown EXCEPT ![c] = Shown'[c]]
    BY <1>1, <1>3, <1>4, ShownSame, OneShown
  <1>8. /\ Len(AsMutSlice(c)) = chunk[c].cap /\ Len(AsMutSlice(c)') = chunk[c].cap
    <2>1. Len(AsMutSlice(c)) = chunk[c].cap
      BY <1>1, SliceLen
    <2>2. (PoolInv /\ MemOK => Len(AsMutSlice(c)) = chunk[c].cap)'
      BY SliceLen, PTL
    <2> QED  BY <1>1, <1>3, <2>1, <2>2
  <1>9. /\ Shown[c] = [st |-> "builder", refs |-> chunk[c].refs, len |-> len[c], data |-> AsMutSlice(c)]
        /\ Shown'[c] = [st |-> "builder", refs |-> chunk[c].refs, len |-> n, data |-> AsMutSlice(c)']
    BY <1>1, <1>4 DEF Shown
  <1>10. /\ Shown[c].st = "builder" /\ Shown[c].refs = chunk[c].refs /\ Shown[c].data = AsMutSlice(c)
         /\ Shown'[c].len = n /\ Shown'[c].data = AsMutSlice(c)'
    BY <1>9
  <1>11. Shown'[c] = [st |-> "builder", refs |-> Shown[c].refs, len |-> Shown'[c].len,
                      data |-> Shown'[c].data]
    BY <1>9, <1>10
  <1>12. Len(Shown'[c].data) = Len(Shown[c].data) /\ Shown'[c].len <= Len(Shown'[c].data)
    BY <1>8, <1>10
  <1> QED  BY <1>6, <1>7, <1>10, <1>11, <1>12, StoreEdit

\* A builder is sealed, after a last write.
LEMMA SealStep ==
  ASSUME ContentInv, PoolInv', NEW c \in Chunks, Seal(c), call' = call \ {c},
         NEW s \in Seq(Bytes), Len(s) <= chunk[c].cap, mem' = Put(c, 0, s),
         NEW n \in Nat, n <= chunk[c].cap, len' = [len EXCEPT ![c] = n]
  PROVE  ContentInv' /\ Store!StoreNext
  <1>1. /\ PoolInv /\ MemOK /\ pc' = pc /\ reg' = reg /\ chunk[c].st = "builder"
        /\ chunk' = [chunk EXCEPT ![c].st = "sealed"] /\ chunk[c].refs = 1
    BY DEF ContentInv, PoolInv, Seal, RecordsOK, ChunkRecordOK
  <1>2. /\ \A d \in Chunks : SamePlace(d) /\ chunk'[d].refs = chunk[d].refs
        /\ chunk'[c].st = "sealed" /\ \A d \in Chunks \ {c} : chunk'[d] = chunk[d]
    BY <1>1 DEF SamePlace, PoolInv, ChunkInv, OwnershipInv, ChunkTypeOK
  <1>3. MemOK' /\ \A d \in Chunks \ {c} : AsMutSlice(d)' = AsMutSlice(d)
    <2>1. 0 \in Nat /\ 0 + Len(s) <= chunk[c].cap
      OBVIOUS
    <2> QED  BY <1>1, <1>2, <2>1, PutInside
  <1>4. len' \in [Chunks -> Nat] /\ len'[c] = n /\ \A d \in Chunks \ {c} : len'[d] = len[d]
    BY DEF ContentInv, LenOK
  <1>5. LenOK' /\ CallOK'
    BY <1>1, <1>2, <1>4 DEF ContentInv, LenOK, CallOK, SamePlace
  <1>6. ContentInv'
    BY <1>3, <1>5 DEF ContentInv, PoolInv
  <1>7. Shown' = [Shown EXCEPT ![c] = Shown'[c]]
    BY <1>2, <1>3, <1>4, ShownSame, OneShown
  <1>8. /\ Len(AsMutSlice(c)) = chunk[c].cap /\ Len(AsMutSlice(c)') = chunk[c].cap
    <2>1. Len(AsMutSlice(c)) = chunk[c].cap
      BY <1>1, SliceLen
    <2>2. (PoolInv /\ MemOK => Len(AsMutSlice(c)) = chunk[c].cap)'
      BY SliceLen, PTL
    <2> QED  BY <1>2, <1>3, <2>1, <2>2 DEF SamePlace
  <1>9. /\ Shown[c] = [st |-> "builder", refs |-> 1, len |-> len[c], data |-> AsMutSlice(c)]
        /\ Shown'[c] = [st |-> "sealed", refs |-> 1, len |-> n, data |-> AsMutSlice(c)']
    BY <1>1, <1>2, <1>4 DEF Shown
  <1>10. /\ Shown[c].st = "builder" /\ Shown[c].data = AsMutSlice(c)
         /\ Shown'[c].len = n /\ Shown'[c].data = AsMutSlice(c)'
    BY <1>9
  <1>11. Shown'[c] = [st |-> "sealed", refs |-> 1, len |-> Shown'[c].len, data |-> Shown'[c].data]
    BY <1>9, <1>10
  <1>12. Len(Shown'[c].data) = Len(Shown[c].data) /\ Shown'[c].len <= Len(Shown'[c].data)
    BY <1>8, <1>10
  <1> QED  BY <1>6, <1>7, <1>10, <1>11, <1>12, StoreComplete

\* Nothing that the content has changes.
LEMMA ContentStutter ==
  ASSUME ContentInv, UNCHANGED contents
  PROVE  ContentInv' /\ Shown' = Shown
  <1>1. /\ mem' = mem /\ len' = len /\ call' = call /\ pc' = pc /\ reg' = reg /\ current' = current
        /\ arcs' = arcs /\ chunk' = chunk /\ cstats' = cstats /\ tstats' = tstats /\ owner' = owner
        /\ open' = open
    BY DEF contents, cells, cvars
  <1>2. OwnershipInv'
    BY <1>1, ChunkStutter DEF ContentInv, ChunkInv, cvars
  <1>3. LayoutInv'
    BY <1>1, <1>2, LayoutQuiet DEF ContentInv, ChunkInv
  <1>4. RecordsOK' /\ MemOK' /\ LenOK' /\ CallOK'
    BY <1>1 DEF ContentInv, RecordsOK, ChunkRecordOK, RequestRecordOK, BlocksHeldOnce, MemOK,
       LenOK, CallOK
  <1>5. Shown' = Shown
    BY <1>1 DEF Shown, AsMutSlice, SliceOf
  <1> QED  BY <1>2, <1>3, <1>4, <1>5 DEF ContentInv, ChunkInv

\* append, as_mut_slice, set_len, seal and the ends of the alloc_* calls.
LEMMA BuilderSideOK ==
  ASSUME ContentInv, PoolInv', NEW c \in Chunks, BuilderSide(c)
  PROVE  ContentInv' /\ [Store!StoreNext]_Shown
  <1>0. /\ PoolInv /\ MemOK /\ chunk[c].cap \in Nat /\ len[c] \in Nat /\ len[c] <= chunk[c].cap
        /\ len = [len EXCEPT ![c] = len[c]] /\ <<>> \in Seq(Bytes) /\ Len(<<>>) = 0
        /\ mem = Put(c, 0, <<>>)
    <2>1. PoolInv /\ MemOK /\ len \in [Chunks -> Nat] /\ len[c] <= chunk[c].cap
      BY DEF ContentInv, PoolInv, LenOK
    <2>2. chunk[c].cap \in Nat
      BY <2>1, RangeInside
    <2> QED  BY <2>1, <2>2 DEF Put
  <1>1. ASSUME NEW v \in Values, AllocFrom(c, Run(chunk[c].cap, v))
        PROVE  ContentInv' /\ Store!StoreNext
    <2>1. Run(chunk[c].cap, v) \in Seq(Bytes) /\ Len(Run(chunk[c].cap, v)) = chunk[c].cap
      BY <1>0, RunIsSeq
    <2>2. /\ Seal(c) /\ call' = call \ {c} /\ mem' = Put(c, 0, Run(chunk[c].cap, v))
          /\ len' = [len EXCEPT ![c] = chunk[c].cap] /\ chunk[c].cap <= chunk[c].cap
      BY <1>0, <1>1, <2>1 DEF AllocFrom, FillAndSeal
    <2> QED  BY <1>0, <2>1, <2>2, SealStep
  <1>2. ASSUME NEW v \in Values, NEW k \in Lengths, AppendBytes(c, Run(k, v))
        PROVE  ContentInv' /\ [Store!StoreNext]_Shown
    <2>1. Run(k, v) \in Seq(Bytes) /\ Len(Run(k, v)) = k /\ k \in Nat
      BY RunIsSeq, ContentAssumption
    <2>2. CASE len[c] + Len(Run(k, v)) > chunk[c].cap
      <3>1. UNCHANGED contents
        BY <1>2, <2>2 DEF AppendBytes, contents, cells
      <3> QED  BY <3>1, ContentStutter
    <2>3. CASE ~(len[c] + Len(Run(k, v)) > chunk[c].cap)
      <3>1. /\ InHand(c) /\ UNCHANGED <<call, cvars>> /\ mem' = Put(c, len[c], Run(k, v))
            /\ len' = [len EXCEPT ![c] = len[c] + Len(Run(k, v))]
        BY <1>2, <2>3 DEF AppendBytes
      <3>2. len[c] + Len(Run(k, v)) <= chunk[c].cap /\ len[c] + Len(Run(k, v)) \in Nat
        BY <1>0, <2>1, <2>3
      <3> QED  BY <1>0, <2>1, <3>1, <3>2, EditStep
    <2> QED  BY <2>2, <2>3
  <1>3. ASSUME NEW v \in Values, NEW k \in Lengths, WriteMut(c, Run(k, v))
        PROVE  ContentInv' /\ Store!StoreNext
    <2>1. Run(k, v) \in Seq(Bytes) /\ Len(Run(k, v)) = k /\ k \in Nat
      BY RunIsSeq, ContentAssumption
    <2>2. Len(Run(k, v)) <= chunk[c].cap /\ 0 + Len(Run(k, v)) <= chunk[c].cap
      BY <1>0, <1>3, <2>1, SliceLen DEF WriteMut
    <2>3. /\ InHand(c) /\ UNCHANGED <<call, cvars>> /\ mem' = Put(c, 0, Run(k, v))
          /\ len' = [len EXCEPT ![c] = len[c]]
      BY <1>0, <1>3 DEF WriteMut
    <2> QED  BY <1>0, <2>1, <2>2, <2>3, EditStep
  <1>4. ASSUME NEW v \in Values, NEW k \in Lengths, AllocWith(c, Run(k, v))
        PROVE  ContentInv' /\ Store!StoreNext
    <2>1. Run(k, v) \in Seq(Bytes) /\ Len(Run(k, v)) = k
      BY RunIsSeq, ContentAssumption
    <2>2. /\ Seal(c) /\ call' = call \ {c} /\ mem' = Put(c, 0, Run(k, v))
          /\ len' = [len EXCEPT ![c] = chunk[c].cap] /\ chunk[c].cap <= chunk[c].cap
          /\ Len(Run(k, v)) <= chunk[c].cap
      BY <1>0, <1>4 DEF AllocWith, FillAndSeal
    <2> QED  BY <1>0, <2>1, <2>2, SealStep
  <1>5. ASSUME NEW v \in Values, NEW k \in Lengths, NEW n \in Lengths, AllocWithLen(c, Run(k, v), n)
        PROVE  ContentInv' /\ Store!StoreNext
    <2>1. Run(k, v) \in Seq(Bytes) /\ Len(Run(k, v)) = k /\ n \in Nat
      BY RunIsSeq, ContentAssumption
    <2> QED  BY <1>0, <1>5, <2>1, SealStep DEF AllocWithLen, FillAndSeal
  <1>6. ASSUME NEW n \in Lengths, SetLen(c, n)
        PROVE  ContentInv' /\ Store!StoreNext
    <2>1. /\ InHand(c) /\ UNCHANGED <<call, cvars>> /\ mem' = Put(c, 0, <<>>)
          /\ len' = [len EXCEPT ![c] = n] /\ n \in Nat /\ n <= chunk[c].cap
          /\ 0 + Len(<<>>) <= chunk[c].cap
      BY <1>0, <1>6, ContentAssumption DEF SetLen
    <2> QED  BY <1>0, <2>1, EditStep
  <1>7. ASSUME UserSeal(c)
        PROVE  ContentInv' /\ Store!StoreNext
    <2>1. /\ Seal(c) /\ mem' = Put(c, 0, <<>>) /\ len' = [len EXCEPT ![c] = len[c]]
          /\ call' = call \ {c} /\ Len(<<>>) <= chunk[c].cap
      BY <1>0, <1>7 DEF UserSeal, InHand, cells
    <2> QED  BY <1>0, <2>1, SealStep
  <1> QED  BY <1>1, <1>2, <1>3, <1>4, <1>5, <1>6, <1>7 DEF BuilderSide

-----------------------------------------------------------------------------
(* The pool's steps.                                                       *)

\* Memory that has an Arc before and after the step keeps its bytes.
LEMMA HeldUntouched ==
  ASSUME OwnershipInv', NEW m \in Memory, arcs[m] # {}, arcs'[m] # {}
  PROVE  Refilled(m) = mem[m]
  <1>1. CASE m \in Blocks
    BY <1>1 DEF Refilled
  <1>2. CASE m \notin Blocks
    <2>1. owner'[m] = "user"
      BY <1>2 DEF OwnershipInv, OwnersOK
    <2> QED  BY <1>2, <2>1 DEF Refilled
  <1> QED  BY <1>1, <1>2

\* A block that gets its first Arc gets it from the thread that allocates it.
NewBlock(m, t) == arcs'[m] = {t} /\ pc'[t] = "account" /\ reg'[t].mem = m

\* Memory keeps its shape, and the block of a thread that has one its size.
LEMMA RefillOK ==
  ASSUME PoolInv, PoolInv', MemOK, FollowPool,
         \A m \in Blocks : arcs[m] = {} /\ arcs'[m] # {} => \E t \in Threads : NewBlock(m, t)
  PROVE  /\ mem' \in [Memory -> Seq(Bytes)] /\ \A b \in Bufs : Len(mem'[b]) = PageBytes
         /\ \A m \in Memory : arcs[m] # {} /\ arcs'[m] # {} => mem'[m] = mem[m]
         /\ \A m \in Blocks, t \in Threads :
              arcs[m] = {} /\ NewBlock(m, t) => Len(mem'[m]) = reg'[t].size
  <1>1. mem' = [m \in Memory |-> Refilled(m)]
    BY DEF FollowPool
  <1>2. PageBytes \in Nat
    BY LayoutAssumption
  <1>3. ASSUME NEW m \in Blocks, NEW t \in Threads, arcs[m] = {}, NewBlock(m, t)
        PROVE  Refilled(m) \in Seq(Bytes) /\ Len(Refilled(m)) = reg'[t].size
    <2>1. (CHOOSE u \in Threads : u \in arcs'[m]) = t
      BY <1>3 DEF NewBlock
    <2>2. Refilled(m) = Zeros(reg'[t].size)
      BY <1>3, <2>1 DEF Refilled, NewBlock
    <2>3. reg'[t].size \in Nat
      BY DEF PoolInv, ChunkInv, OwnershipInv, ChunkTypeOK
    <2> QED  BY <2>2, <2>3, ZerosIsSeq
  <1>4. ASSUME NEW m \in Blocks PROVE Refilled(m) \in Seq(Bytes)
    <2>1. CASE arcs'[m] = {}
      BY <2>1 DEF Refilled
    <2>2. CASE arcs[m] = {} /\ arcs'[m] # {}
      BY <1>3, <2>2
    <2>3. CASE arcs[m] # {} /\ arcs'[m] # {}
      BY <2>3 DEF Refilled, MemOK
    <2> QED  BY <2>1, <2>2, <2>3
  <1>5. ASSUME NEW b \in Bufs PROVE Refilled(b) \in Seq(Bytes) /\ Len(Refilled(b)) = PageBytes
    <2>1. b \notin Blocks /\ mem[b] \in Seq(Bytes) /\ Len(mem[b]) = PageBytes
      BY Distinct DEF MemOK
    <2>2. Refilled(b) \in {Zeros(PageBytes), [mem[b] EXCEPT ![1] = LINK], mem[b]}
      BY <2>1 DEF Refilled
    <2>3. Zeros(PageBytes) \in Seq(Bytes) /\ Len(Zeros(PageBytes)) = PageBytes
      BY <1>2, ZerosIsSeq
    <2>4. [mem[b] EXCEPT ![1] = LINK] \in Seq(Bytes) /\ Len([mem[b] EXCEPT ![1] = LINK]) = PageBytes
      BY <2>1, LinkIsSeq
    <2> QED  BY <2>1, <2>2, <2>3, <2>4
  <1>6. ASSUME NEW m \in Memory, arcs[m] # {}, arcs'[m] # {} PROVE mem'[m] = mem[m]
    BY <1>1, <1>6, HeldUntouched DEF PoolInv, ChunkInv
  <1> QED  BY <1>1, <1>3, <1>4, <1>5, <1>6

\* A live chunk that stays where it is keeps its bytes.
LEMMA KeptSlice ==
  ASSUME PoolInv, PoolInv', MemOK, NEW c \in Chunks, SamePlace(c),
         \A m \in Memory : arcs[m] # {} /\ arcs'[m] # {} => mem'[m] = mem[m]
  PROVE  AsMutSlice(c)' = AsMutSlice(c)
  <1>1. CASE chunk[c].mem = NULL
    BY <1>1 DEF SamePlace, AsMutSlice, SliceOf
  <1>2. CASE chunk[c].mem # NULL
    <2>1. chunk[c].mem \in Memory /\ c \in arcs[chunk[c].mem]
      BY <1>2, RangeInside
    <2>2. chunk'[c].mem # NULL /\ chunk'[c].mem \in Memory
      BY <1>2, <2>1 DEF SamePlace
    <2>3. c \in arcs'[chunk[c].mem]
      <3>1. chunk'[c].st # "none"
        BY <2>2 DEF PoolInv, RecordsOK, ChunkRecordOK, NoChunk
      <3> QED  BY <2>1, <3>1 DEF PoolInv, ChunkInv, OwnershipInv, ArcsExact, Uses, SamePlace
    <2>4. mem'[chunk[c].mem] = mem[chunk[c].mem]
      BY <2>1, <2>3
    <2> QED  BY <1>2, <2>4 DEF SamePlace, AsMutSlice, SliceOf
  <1> QED  BY <1>1, <1>2

\* A thread that is about to make a chunk was so before, or has just taken the
\* memory for it.
WasAccounting(t) ==
  \/ pc[t] = "account" /\ reg'[t] = reg[t]
  \/ reg'[t].mem \in Blocks => arcs[reg'[t].mem] = {} /\ NewBlock(reg'[t].mem, t)

\* The block of a thread that is about to make a chunk is long enough.
LEMMA AccountingOK ==
  ASSUME PoolInv, PoolInv', MemOK, NEW t \in Threads,
         pc'[t] = "account", reg'[t].mem \in Blocks, WasAccounting(t),
         \A m \in Memory : arcs[m] # {} /\ arcs'[m] # {} => mem'[m] = mem[m],
         \A m \in Blocks, u \in Threads :
              arcs[m] = {} /\ NewBlock(m, u) => Len(mem'[m]) = reg'[u].size
  PROVE  reg'[t].size <= Len(mem'[reg'[t].mem])
  <1>0. reg'[t].size \in Nat
    BY DEF PoolInv, ChunkInv, OwnershipInv, ChunkTypeOK
  <1>1. CASE pc[t] = "account" /\ reg'[t] = reg[t]
    <2>1. t \in arcs[reg[t].mem] /\ t \in arcs'[reg[t].mem]
      BY <1>1 DEF PoolInv, ChunkInv, OwnershipInv, ArcsExact, Uses
    <2> QED  BY <1>1, <2>1 DEF MemOK
  <1>2. CASE arcs[reg'[t].mem] = {} /\ NewBlock(reg'[t].mem, t)
    BY <1>0, <1>2
  <1> QED  BY <1>1, <1>2 DEF WasAccounting

\* Steps of the pool that no holder of a chunk sees.
LEMMA FollowQuiet ==
  ASSUME ContentInv, PoolInv', FollowPool, chunk' = chunk,
         \A m \in Blocks : arcs[m] = {} /\ arcs'[m] # {} => \E t \in Threads : NewBlock(m, t),
         \A t \in Threads : pc'[t] = "account" => WasAccounting(t),
         \A t \in Threads : pc'[t] \in AllocPcs => call = {}
  PROVE  ContentInv' /\ Shown' = Shown
  <1>1. PoolInv /\ MemOK /\ LenOK /\ CallOK
    BY DEF ContentInv, PoolInv
  <1>2. /\ mem' \in [Memory -> Seq(Bytes)] /\ \A b \in Bufs : Len(mem'[b]) = PageBytes
        /\ \A m \in Memory : arcs[m] # {} /\ arcs'[m] # {} => mem'[m] = mem[m]
        /\ \A m \in Blocks, t \in Threads :
             arcs[m] = {} /\ NewBlock(m, t) => Len(mem'[m]) = reg'[t].size
    BY <1>1, RefillOK
  <1>3. \A c \in Chunks : SamePlace(c) /\ AsMutSlice(c)' = AsMutSlice(c)
    <2>1. \A c \in Chunks : SamePlace(c)
      BY DEF SamePlace
    <2> QED  BY <1>1, <1>2, <2>1, KeptSlice
  <1>4. \A c \in Chunks : len[c] \in Nat /\ (chunk[c].st = "none" => len[c] = 0)
    BY <1>1 DEF LenOK, PoolInv, RecordsOK, ChunkRecordOK, NoChunk
  <1>5. len' = len
    BY <1>1, <1>4 DEF FollowPool, LenOK
  <1>6. call' = call
    BY <1>1 DEF FollowPool, CallOK
  <1>7. LenOK' /\ CallOK'
    BY <1>1, <1>5, <1>6 DEF LenOK, CallOK
  <1>8. MemOK'
    <2>1. ASSUME NEW c \in Chunks, chunk[c].mem \in Blocks
          PROVE  chunk[c].cap <= Len(mem'[chunk[c].mem])
      <3>1. chunk[c].mem # NULL /\ chunk[c].mem \in Memory
        BY <2>1, Distinct
      <3>2. c \in arcs[chunk[c].mem] /\ chunk[c].st # "none"
        BY <1>1, <3>1, RangeInside
      <3>3. c \in arcs'[chunk[c].mem]
        BY <3>1, <3>2 DEF PoolInv, ChunkInv, OwnershipInv, ArcsExact, Uses
      <3> QED  BY <1>1, <1>2, <2>1, <3>1, <3>2, <3>3 DEF MemOK
    <2>2. ASSUME NEW t \in Threads, pc'[t] = "account", reg'[t].mem \in Blocks
          PROVE  reg'[t].size <= Len(mem'[reg'[t].mem])
      BY <1>1, <1>2, <2>2, AccountingOK
    <2> QED  BY <1>2, <2>1, <2>2 DEF MemOK
  <1>9. Shown' = Shown
    BY <1>3, <1>5 DEF Shown
  <1> QED  BY <1>7, <1>8, <1>9 DEF ContentInv, PoolInv

\* A step of the pool that changes one chunk's record, and no thread's claim
\* on a block except that of a thread that has none any more.
LEMMA FollowOne ==
  ASSUME ContentInv, PoolInv', FollowPool, NEW c \in Chunks,
         \A d \in Chunks \ {c} : chunk'[d] = chunk[d],
         \A m \in Blocks : arcs'[m] # {} => arcs[m] # {},
         \A t \in Threads : pc'[t] = "account" => pc[t] = "account" /\ reg'[t] = reg[t],
         chunk'[c].mem \in Blocks =>
           arcs[chunk'[c].mem] # {} /\ chunk'[c].cap <= Len(mem[chunk'[c].mem])
  PROVE  /\ MemOK' /\ \A m \in Memory : arcs[m] # {} /\ arcs'[m] # {} => mem'[m] = mem[m]
         /\ \A d \in Chunks \ {c} : len'[d] = len[d] /\ Shown'[d] = Shown[d]
         /\ Shown' = [Shown EXCEPT ![c] = Shown'[c]]
         /\ len' \in [Chunks -> Nat]
         /\ len'[c] = IF chunk'[c].st = "none" THEN 0 ELSE len[c]
  <1>1. PoolInv /\ MemOK /\ LenOK
    BY DEF ContentInv, PoolInv
  <1>2. /\ mem' \in [Memory -> Seq(Bytes)] /\ \A b \in Bufs : Len(mem'[b]) = PageBytes
        /\ \A m \in Memory : arcs[m] # {} /\ arcs'[m] # {} => mem'[m] = mem[m]
        /\ \A m \in Blocks, t \in Threads :
             arcs[m] = {} /\ NewBlock(m, t) => Len(mem'[m]) = reg'[t].size
    BY <1>1, RefillOK
  <1>3. /\ len' = [d \in Chunks |-> IF chunk'[d].st = "none" THEN 0 ELSE len[d]]
        /\ \A d \in Chunks : len[d] \in Nat /\ (chunk[d].st = "none" => len[d] = 0)
    BY <1>1 DEF FollowPool, LenOK, PoolInv, RecordsOK, ChunkRecordOK, NoChunk
  <1>4. /\ len' \in [Chunks -> Nat] /\ len'[c] = IF chunk'[c].st = "none" THEN 0 ELSE len[c]
        /\ \A d \in Chunks \ {c} : len'[d] = len[d]
    BY <1>3
  <1>5. ASSUME NEW d \in Chunks \ {c} PROVE Shown'[d] = Shown[d]
    <2>1. SamePlace(d)
      BY DEF SamePlace
    <2>2. AsMutSlice(d)' = AsMutSlice(d)
      BY <1>1, <1>2, <2>1, KeptSlice
    <2> QED  BY <1>4, <2>2, ShownSame
  <1>6. MemOK'
    <2>1. ASSUME NEW d \in Chunks, chunk'[d].mem \in Blocks
          PROVE  chunk'[d].cap <= Len(mem'[chunk'[d].mem])
      <3>1. chunk'[d].mem # NULL /\ chunk'[d].mem \in Memory
        BY <2>1, Distinct
      <3>2. d \in arcs'[chunk'[d].mem]
        <4>1. chunk'[d].st # "none"
          BY <3>1 DEF PoolInv, RecordsOK, ChunkRecordOK, NoChunk
        <4> QED  BY <3>1, <4>1 DEF PoolInv, ChunkInv, OwnershipInv, ArcsExact, Uses
      <3>3. arcs[chunk'[d].mem] # {} /\ chunk'[d].cap <= Len(mem[chunk'[d].mem])
        <4>1. CASE d = c
          BY <2>1, <4>1
        <4>2. CASE d # c
          <5>1. d \in arcs[chunk[d].mem]
            BY <1>1, <3>1, <4>2, RangeInside
          <5> QED  BY <1>1, <2>1, <4>2, <5>1 DEF MemOK
        <4> QED  BY <4>1, <4>2
      <3> QED  BY <1>2, <3>1, <3>2, <3>3
    <2>2. ASSUME NEW t \in Threads, pc'[t] = "account", reg'[t].mem \in Blocks
          PROVE  reg'[t].size <= Len(mem'[reg'[t].mem])
      BY <1>1, <1>2, <2>2, AccountingOK DEF WasAccounting
    <2> QED  BY <1>2, <2>1, <2>2 DEF MemOK
  <1>7. Shown' = [Shown EXCEPT ![c] = Shown'[c]]
    BY <1>5, OneShown
  <1> QED  BY <1>2, <1>4, <1>5, <1>6, <1>7

\* allocate's last step: a new builder, empty, of the caller or of an alloc_*
\* call.
LEMMA FollowAccount ==
  ASSUME ContentInv, PoolInv', FollowPool, NEW t \in Threads, NEW c \in Chunks, Account(t, c)
  PROVE  ContentInv' /\ Store!StoreNext
  <1>1. /\ PoolInv /\ MemOK /\ LenOK /\ CallOK /\ pc[t] = "account" /\ chunk[c].st = "none"
        /\ pc' = [pc EXCEPT ![t] = "idle"] /\ reg' = [reg EXCEPT ![t] = NoReg]
        /\ arcs' = [m \in Memory |-> IF m = reg[t].mem THEN (arcs[m] \ {t}) \cup {c} ELSE arcs[m]]
    BY DEF ContentInv, PoolInv, Account, Goto
  <1>2. /\ \A d \in Chunks \ {c} : chunk'[d] = chunk[d]
        /\ chunk'[c].st = "builder" /\ chunk'[c].refs = 1 /\ chunk'[c].mem = reg[t].mem
        /\ chunk'[c].cap = reg[t].size % U32
    BY DEF Account, ContentInv, ChunkInv, OwnershipInv, ChunkTypeOK
  <1>3. /\ \A u \in Threads : pc'[u] = "account" => pc[u] = "account" /\ reg'[u] = reg[u]
        /\ \A u \in Threads : pc'[u] \in AllocPcs => pc[u] \in AllocPcs /\ u # t
    BY <1>1 DEF PoolInv, ChunkInv, OwnershipInv, ChunkTypeOK
  <1>4. reg[t].mem \in Blocks => t \in arcs[reg[t].mem]
    BY <1>1 DEF PoolInv, ChunkInv, OwnershipInv, ArcsExact, Uses
  <1>5. \A m \in Blocks : arcs'[m] # {} => arcs[m] # {}
    BY <1>1, <1>4
  <1>6. chunk'[c].mem \in Blocks =>
           arcs[chunk'[c].mem] # {} /\ chunk'[c].cap <= Len(mem[chunk'[c].mem])
    <2>1. reg[t].size \in Nat /\ U32 \in Nat \ {0}
      BY ChunkAssumption DEF PoolInv, ChunkInv, OwnershipInv, ChunkTypeOK, ContentInv
    <2>2. reg[t].size % U32 \in Nat /\ reg[t].size % U32 <= reg[t].size
      <3>1. \A a \in Nat, d \in Nat \ {0} : a % d \in Nat /\ a % d <= a
        <4> SUFFICES ASSUME NEW a \in Nat, NEW d \in Nat \ {0} PROVE a % d \in Nat /\ a % d <= a
          OBVIOUS
        <4>1. a = d * (a \div d) + (a % d) /\ a \div d \in Nat /\ a % d \in Nat
          OBVIOUS
        <4>2. d * (a \div d) \in Nat
          BY <4>1
        <4> QED  BY <4>1, <4>2
      <3> QED  BY <2>1, <3>1
    <2>3. ASSUME reg[t].mem \in Blocks PROVE reg[t].size <= Len(mem[reg[t].mem]) /\ Len(mem[reg[t].mem]) \in Nat
      BY <1>1, <2>3 DEF MemOK
    <2> QED  BY <1>2, <1>4, <2>1, <2>2, <2>3
  <1>7. /\ MemOK' /\ \A d \in Chunks \ {c} : len'[d] = len[d]
        /\ Shown' = [Shown EXCEPT ![c] = Shown'[c]] /\ len' \in [Chunks -> Nat]
        /\ len'[c] = IF chunk'[c].st = "none" THEN 0 ELSE len[c]
    BY <1>2, <1>3, <1>5, <1>6, FollowOne
  <1>8. len'[c] = 0
    BY <1>1, <1>2, <1>7 DEF LenOK, PoolInv, RecordsOK, ChunkRecordOK, NoChunk
  <1>9. LenOK'
    <2>1. chunk'[c].cap \in Nat
      BY ChunkAssumption DEF PoolInv, ChunkInv, OwnershipInv, ChunkTypeOK
    <2> QED  BY <1>1, <1>2, <1>7, <1>8, <2>1 DEF LenOK
  <1>10. CallOK'
    <2>1. call = {}
      BY <1>1 DEF CallOK
    <2>2. call' \subseteq {c}
      BY <1>2, <2>1 DEF FollowPool
    <2>3. \A u \in Threads : pc'[u] \notin AllocPcs
      BY <1>1, <1>3 DEF PoolInv, ChunkInv, OwnershipInv, OneInside
    <2> QED  BY <1>2, <2>2, <2>3 DEF CallOK
  <1>11. ContentInv'
    BY <1>7, <1>9, <1>10 DEF ContentInv, PoolInv
  <1>12. /\ Shown[c].st = "none"
         /\ Shown'[c] = [st |-> "builder", refs |-> 1, len |-> 0, data |-> AsMutSlice(c)']
    BY <1>1, <1>2, <1>8 DEF Shown
  <1>13. Shown'[c] = [st |-> "builder", refs |-> 1, len |-> 0, data |-> Shown'[c].data]
    BY <1>12
  <1> QED  BY <1>7, <1>11, <1>12, <1>13, StoreCreate

\* A drop: the slot is empty.
LEMMA FollowDropChunk ==
  ASSUME ContentInv, PoolInv', FollowPool, NEW t \in Threads, NEW c \in Chunks, DropChunk(t, c)
  PROVE  ContentInv' /\ Store!StoreNext
  <1>1. /\ PoolInv /\ MemOK /\ LenOK /\ CallOK /\ chunk[c].refs = 1
        /\ pc' = [pc EXCEPT ![t] = "release"] /\ chunk' = [chunk EXCEPT ![c] = NoChunk]
        /\ \A u \in Threads \ {t} : reg'[u] = reg[u]
        /\ arcs' = [m \in Memory |->
                      IF m = chunk[c].mem THEN (arcs[m] \ {c}) \cup {t} ELSE arcs[m]]
    BY DEF DropChunk, Goto, ContentInv, PoolInv, ChunkInv, OwnershipInv, ChunkTypeOK
  <1>2. chunk'[c] = NoChunk /\ \A d \in Chunks \ {c} : chunk'[d] = chunk[d]
    BY <1>1 DEF PoolInv, ChunkInv, OwnershipInv, ChunkTypeOK
  <1>3. /\ \A u \in Threads : pc'[u] = "account" => pc[u] = "account" /\ reg'[u] = reg[u]
        /\ \A u \in Threads : pc'[u] \in AllocPcs => pc[u] \in AllocPcs
    BY <1>1 DEF PoolInv, ChunkInv, OwnershipInv, ChunkTypeOK
  <1>4. chunk[c].st # "none"
    BY <1>1 DEF PoolInv, ChunkInv, OwnershipInv, LiveChunksOK
  <1>5. \A m \in Blocks : arcs'[m] # {} => arcs[m] # {}
    <2>1. chunk[c].mem \in Blocks => c \in arcs[chunk[c].mem]
      BY <1>4 DEF PoolInv, ChunkInv, OwnershipInv, ArcsExact, Uses, ContentInv
    <2> QED  BY <1>1, <2>1
  <1>6. chunk'[c].mem \notin Blocks /\ chunk'[c].st = "none" /\ chunk'[c].cap = 0
    BY <1>2, Distinct DEF NoChunk
  <1>7. /\ MemOK' /\ \A d \in Chunks \ {c} : len'[d] = len[d]
        /\ Shown' = [Shown EXCEPT ![c] = Shown'[c]] /\ len' \in [Chunks -> Nat]
        /\ len'[c] = IF chunk'[c].st = "none" THEN 0 ELSE len[c]
    BY <1>2, <1>3, <1>5, <1>6, FollowOne
  <1>8. LenOK'
    BY <1>1, <1>2, <1>6, <1>7 DEF LenOK
  <1>9. CallOK'
    <2>1. call' \subseteq call \ {c}
      BY <1>1, <1>2, <1>6 DEF FollowPool, CallOK
    <2> QED  BY <1>1, <1>2, <1>3, <2>1 DEF CallOK
  <1>10. ContentInv'
    BY <1>7, <1>8, <1>9 DEF ContentInv, PoolInv
  <1>11. Shown[c].refs = 1 /\ Shown'[c] = [st |-> "none", refs |-> 0, len |-> 0, data |-> <<>>]
    BY <1>1, <1>4, <1>6 DEF Shown
  <1> QED  BY <1>7, <1>10, <1>11, StoreDiscard

\* clone, and drop of one of several clones.
LEMMA FollowClone ==
  ASSUME ContentInv, PoolInv', FollowPool, NEW c \in Chunks, CloneChunk(c) \/ DropClone(c)
  PROVE  ContentInv' /\ Store!StoreNext
  <1>1. /\ PoolInv /\ MemOK /\ LenOK /\ CallOK /\ pc' = pc /\ reg' = reg /\ arcs' = arcs
        /\ chunk[c].st = "sealed"
        /\ chunk'[c].st = "sealed" /\ SamePlace(c) /\ \A d \in Chunks \ {c} : chunk'[d] = chunk[d]
        /\ \/ chunk'[c].refs = chunk[c].refs + 1
           \/ chunk[c].refs > 1 /\ chunk'[c].refs = chunk[c].refs - 1
    <2>1. PoolInv /\ MemOK /\ LenOK /\ CallOK /\ pc' = pc /\ reg' = reg /\ arcs' = arcs
      BY DEF ContentInv, PoolInv, CloneChunk, DropClone
    <2>2. chunk[c].st = "sealed"
      BY <2>1 DEF CloneChunk, DropClone, PoolInv, ChunkInv, OwnershipInv, ChunkTypeOK,
                  LiveChunksOK, RecordsOK, ChunkRecordOK
    <2> QED  BY <2>1, <2>2
             DEF CloneChunk, DropClone, SamePlace, PoolInv, ChunkInv, OwnershipInv, ChunkTypeOK
  <1>2. chunk'[c].mem \in Blocks =>
           arcs[chunk'[c].mem] # {} /\ chunk'[c].cap <= Len(mem[chunk'[c].mem])
    <2>1. chunk[c].mem \in Blocks => c \in arcs[chunk[c].mem]
      BY <1>1 DEF PoolInv, ChunkInv, OwnershipInv, ArcsExact, Uses
    <2> QED  BY <1>1, <2>1 DEF MemOK, SamePlace
  <1>3. /\ MemOK' /\ \A d \in Chunks \ {c} : len'[d] = len[d]
        /\ \A m \in Memory : arcs[m] # {} /\ arcs'[m] # {} => mem'[m] = mem[m]
        /\ Shown' = [Shown EXCEPT ![c] = Shown'[c]] /\ len' \in [Chunks -> Nat]
        /\ len'[c] = IF chunk'[c].st = "none" THEN 0 ELSE len[c]
    BY <1>1, <1>2, FollowOne
  <1>4. LenOK'
    BY <1>1, <1>3 DEF LenOK, SamePlace
  <1>5. CallOK'
    <2>1. call' = call
      BY <1>1 DEF FollowPool, CallOK
    <2> QED  BY <1>1, <2>1 DEF CallOK
  <1>6. ContentInv'
    BY <1>3, <1>4, <1>5 DEF ContentInv, PoolInv
  <1>7. AsMutSlice(c)' = AsMutSlice(c)
    BY <1>1, <1>3, KeptSlice
  <1>8. /\ Shown[c] = [st |-> "sealed", refs |-> chunk[c].refs, len |-> len[c], data |-> AsMutSlice(c)]
        /\ Shown'[c] = [st |-> "sealed", refs |-> chunk'[c].refs, len |-> len[c], data |-> AsMutSlice(c)]
    BY <1>1, <1>3, <1>7 DEF Shown
  <1>9. /\ Shown[c].st = "sealed" /\ Shown[c].refs = chunk[c].refs
        /\ \/ Shown'[c] = [Shown[c] EXCEPT !.refs = @ + 1]
           \/ Shown[c].refs > 1 /\ Shown'[c] = [Shown[c] EXCEPT !.refs = @ - 1]
    BY <1>1, <1>8
  <1> QED  BY <1>3, <1>6, <1>9, StoreShare

\* Everything the pool does.
LEMMA PoolSideOK ==
  ASSUME ContentInv, PoolInv', PoolSide, FollowPool
  PROVE  ContentInv' /\ [Store!StoreNext]_Shown
  <1>0. /\ PoolInv /\ OwnershipInv /\ RecordsOK /\ CallOK /\ ChunkTypeOK
        /\ \A m \in Blocks : m \notin Bufs /\ m # NULL
    BY Distinct DEF ContentInv, PoolInv, ChunkInv, OwnershipInv
  <1>1. ASSUME NEW t \in Threads, NEW c \in Chunks, Account(t, c) PROVE ContentInv' /\ Store!StoreNext
    BY <1>1, FollowAccount
  <1>2. ASSUME NEW t \in Threads, AllocStep(t), ~\E c \in Chunks : Account(t, c)
        PROVE  ContentInv' /\ Shown' = Shown
    <2>1. chunk' = chunk
      BY <1>0, <1>2, AllocRecords
    <2>2. /\ pc[t] \in AllocPcs /\ \A u \in Threads \ {t} : pc'[u] = pc[u] /\ reg'[u] = reg[u]
      BY <1>0, <1>2
      DEF AllocStep, Pack, Retire, ReturnRetired, NothingOpen, OpenNewPage, AllocateDedicated,
          AllocateOversized, AllocateZero, RawPagePanics, Goto, ChunkTypeOK
    <2>3. call = {}
      BY <1>0, <2>2 DEF CallOK
    <2>4. /\ pc'[t] = "account" => WasAccounting(t)
          /\ \A m \in Blocks : arcs[m] = {} /\ arcs'[m] # {} => \E u \in Threads : NewBlock(m, u)
      <3>1. CASE Pack(t)
        BY <1>0, <3>1 DEF Pack, HasRoom, Goto, ChunkTypeOK, WasAccounting
      <3>2. CASE Retire(t)
        BY <1>0, <3>2 DEF Retire, ChunkTypeOK
      <3>3. CASE ReturnRetired(t) \/ NothingOpen(t) \/ RawPagePanics(t)
        BY <1>0, <3>3 DEF ReturnRetired, NothingOpen, RawPagePanics, Goto, ChunkTypeOK
      <3>4. ASSUME NEW b \in Bufs, OpenNewPage(t, b) \/ AllocateDedicated(t, b)
            PROVE  /\ pc'[t] = "account" => WasAccounting(t)
                   /\ \A m \in Blocks : arcs[m] = {} /\ arcs'[m] # {} => \E u \in Threads : NewBlock(m, u)
        BY <1>0, <3>4 DEF OpenNewPage, AllocateDedicated, Goto, ChunkTypeOK, WasAccounting
      <3>5. ASSUME NEW m \in Blocks, AllocateOversized(t, m)
            PROVE  /\ pc'[t] = "account" => WasAccounting(t)
                   /\ \A k \in Blocks : arcs[k] = {} /\ arcs'[k] # {} => \E u \in Threads : NewBlock(k, u)
        <4>1. /\ arcs[m] = {} /\ NewBlock(m, t) /\ \A k \in Blocks \ {m} : arcs'[k] = arcs[k]
          BY <1>0, <3>5 DEF AllocateOversized, Goto, ChunkTypeOK, NewBlock
        <4> QED  BY <4>1 DEF WasAccounting, NewBlock
      <3>6. CASE AllocateZero(t)
        <4>1. arcs' = arcs /\ reg'[t].mem = NULL
          BY <1>0, <3>6 DEF AllocateZero, Goto, OwnershipInv, RequestsOK
        <4> QED  BY <1>0, <4>1 DEF WasAccounting
      <3> QED  BY <1>2, <3>1, <3>2, <3>3, <3>4, <3>5, <3>6 DEF AllocStep
    <2>5. \A u \in Threads : pc'[u] = "account" => WasAccounting(u)
      BY <2>2, <2>4 DEF WasAccounting
    <2> QED  BY <2>1, <2>3, <2>4, <2>5, FollowQuiet
  <1>3. ASSUME NEW t \in Threads, DropStep(t) PROVE ContentInv' /\ Shown' = Shown
    <2>1. /\ chunk' = chunk /\ pc'[t] \in {"arc_drop", "free", "idle"}
          /\ \A u \in Threads \ {t} : pc'[u] = pc[u] /\ reg'[u] = reg[u]
          /\ \A m \in Blocks : arcs'[m] \subseteq arcs[m]
      BY <1>0, <1>3 DEF DropStep, ReleaseChunk, DropPackedArc, FreePacked, DropCurrent, Goto,
         ChunkTypeOK
    <2>2. /\ \A u \in Threads : pc'[u] = "account" => WasAccounting(u)
          /\ \A u \in Threads : pc'[u] \in AllocPcs => call = {}
      BY <1>0, <2>1 DEF WasAccounting, CallOK
    <2> QED  BY <2>1, <2>2, FollowQuiet
  <1>4. ASSUME NEW t \in Threads, NEW c \in Chunks, DropChunk(t, c) PROVE ContentInv' /\ Store!StoreNext
    BY <1>4, FollowDropChunk
  <1>5. ASSUME NEW c \in Chunks, CloneChunk(c) \/ DropClone(c) PROVE ContentInv' /\ Store!StoreNext
    BY <1>5, FollowClone
  <1>6. ASSUME call = {},
               \/ \E t \in Threads, tn \in Tenants, size \in Sizes, align \in Aligns :
                    AllocateAligned(t, tn, size, align)
               \/ \E t \in Threads : DropPages(t)
               \/ \E b \in Bufs : PrewarmOne(b)
        PROVE  ContentInv' /\ Shown' = Shown
    <2>1. chunk' = chunk /\ arcs' = arcs
      BY <1>0, <1>6, CallRecords
    <2>2. \A u \in Threads : pc'[u] = "account" => pc[u] = "account" /\ reg'[u] = reg[u]
      <3>1. ASSUME NEW t \in Threads, NEW tn \in Tenants, NEW size \in Sizes, NEW align \in Aligns,
                   AllocateAligned(t, tn, size, align)
            PROVE  \A u \in Threads : pc'[u] = "account" => pc[u] = "account" /\ reg'[u] = reg[u]
        <4>1. Class(size, align) # "account"
          BY DEF Class
        <4> QED  BY <1>0, <3>1, <4>1 DEF AllocateAligned, Goto, ChunkTypeOK
      <3>2. ASSUME NEW t \in Threads, DropPages(t)
            PROVE  \A u \in Threads : pc'[u] = "account" => pc[u] = "account" /\ reg'[u] = reg[u]
        BY <1>0, <3>2 DEF DropPages, Goto, ChunkTypeOK
      <3> QED  BY <1>6, <3>1, <3>2 DEF PrewarmOne
    <2> QED  BY <1>6, <2>1, <2>2, FollowQuiet DEF WasAccounting
  <1>7. ASSUME NEW b \in Bufs, PagePoolReleases(b) PROVE ContentInv' /\ Shown' = Shown
    <2>1. chunk' = chunk /\ arcs' = arcs /\ pc' = pc /\ reg' = reg
      BY <1>7 DEF PagePoolReleases
    <2> QED  BY <1>0, <2>1, FollowQuiet DEF WasAccounting, CallOK
  <1> QED  BY <1>1, <1>2, <1>3, <1>4, <1>5, <1>6, <1>7 DEF PoolSide, ChunkStep

-----------------------------------------------------------------------------
(* The theorems.                                                           *)

\* No chunk, every buffer zero and with the source.
LEMMA ContentInitOK == ContentInit => ContentInv /\ Store!StoreInit
  <1> SUFFICES ASSUME ContentInit PROVE ContentInv /\ Store!StoreInit
    OBVIOUS
  <1>1. /\ ChunkInit /\ mem = [m \in Memory |-> IF m \in Bufs THEN Zeros(PageBytes) ELSE <<>>]
        /\ len = [c \in Chunks |-> 0] /\ call = {}
        /\ pc = [t \in Threads |-> "idle"] /\ chunk = [c \in Chunks |-> NoChunk]
        /\ arcs = [m \in Memory |-> {}]
    BY DEF ContentInit, ChunkInit
  <1>2. ChunkInv
    BY <1>1, ChunkInitInv
  <1>3. RecordsOK
    BY <1>1, Distinct DEF RecordsOK, ChunkRecordOK, RequestRecordOK, BlocksHeldOnce, NoChunk
  <1>4. MemOK
    <2>1. Zeros(PageBytes) \in Seq(Bytes) /\ Len(Zeros(PageBytes)) = PageBytes
      BY ZerosIsSeq, LayoutAssumption
    <2>2. mem \in [Memory -> Seq(Bytes)] /\ \A b \in Bufs : Len(mem[b]) = PageBytes
      BY <1>1, <2>1
    <2> QED  BY <1>1, <2>2, Distinct DEF MemOK, NoChunk
  <1>5. LenOK /\ CallOK
    BY <1>1 DEF LenOK, CallOK, NoChunk
  <1>6. Store!StoreInit
    BY <1>1 DEF Store!StoreInit, Store!NoHandle, Shown, NoChunk
  <1> QED  BY <1>2, <1>3, <1>4, <1>5, <1>6 DEF ContentInv

\* Every step keeps the invariant, and is a step of HandleStore or not seen
\* there.
LEMMA ContentNextOK ==
  ASSUME PageBytes <= U32, ContentInv, [ContentNext]_contents
  PROVE  ContentInv' /\ [Store!StoreNext]_Shown
  <1>1. PoolInv'
    BY ContentIsChunkStep, PoolInvNext DEF ContentInv, PoolInv
  <1>2. CASE PoolSide /\ FollowPool
    BY <1>1, <1>2, PoolSideOK
  <1>3. ASSUME NEW c \in Chunks, BuilderSide(c) PROVE ContentInv' /\ [Store!StoreNext]_Shown
    BY <1>1, <1>3, BuilderSideOK
  <1>4. CASE (ChunkFinished /\ UNCHANGED cells) \/ UNCHANGED contents
    <2>1. UNCHANGED contents
      BY <1>4 DEF ChunkFinished, contents
    <2> QED  BY <2>1, ContentStutter
  <1> QED  BY <1>2, <1>3, <1>4 DEF ContentNext

\* On pages of at most 2^32 bytes a chunk's length stays within its capacity
\* and its range within its page or block, and one alloc_* call runs at a time.
THEOREM ContentSound == ASSUME PageBytes <= U32 PROVE ContentSpec => []ContentTypeOK
  <1>1. ContentInit => ContentInv
    BY ContentInitOK
  <1>2. ContentInv /\ [ContentNext]_contents => ContentInv'
    BY ContentNextOK
  <1> QED  BY <1>1, <1>2, ContentTypes, PTL DEF ContentSpec

\* On pages of at most 2^32 bytes every chunk has its bytes to itself: what
\* user code sees of ChunkPool is HandleStore.
THEOREM ChunksImplementStore == ASSUME PageBytes <= U32 PROVE ContentSpec => ChunksKeepTheirBytes
  <1>1. ContentInit => ContentInv /\ Store!StoreInit
    BY ContentInitOK
  <1>2. ContentInv /\ [ContentNext]_contents => ContentInv' /\ [Store!StoreNext]_Shown
    BY ContentNextOK
  <1> QED  BY <1>1, <1>2, PTL DEF ContentSpec, ChunksKeepTheirBytes, Store!StoreSpec
=============================================================================
