---------------------------- MODULE ChunkContent ----------------------------
(***************************************************************************)
(* The bytes behind the chunks of one ChunkPool: memory that is recycled   *)
(* without being cleared, shared by the chunks packed on a page, and       *)
(* clobbered by list links while a page is free.  The pool underneath is   *)
(* module ChunkPool; ChunkBuilder's writes and the alloc_* calls of        *)
(* src/src/chunk.rs are added to it.                                       *)
(***************************************************************************)
EXTENDS ChunkPool, Sequences

CONSTANTS
  Values,  \* bytes user code writes
  ZERO,    \* a byte of memory fresh from the source or from alloc_zeroed
  LINK,    \* the byte (of several) of a page that holds a next pointer
  Lengths  \* bound: lengths user code writes or sets

ASSUME ContentAssumption == ZERO # LINK /\ Values \cap {ZERO, LINK} = {} /\ Lengths \subseteq Nat

VARIABLES
  mem,   \* [Memory -> the bytes of the page or block]
  len,   \* [Chunks -> ChunkBuilder::len, ChunkInner::length]
  call   \* chunks whose builder is still inside alloc_from, _with or _with_len

cells    == <<mem, len, call>>
contents == <<cells, cvars>>

Bytes  == Values \cup {ZERO, LINK}
Zeros(n) == [i \in 1 .. n |-> ZERO]

\* A chunk's length never exceeds its capacity, and its range is memory.
ContentTypeOK ==
  /\ mem \in [Memory -> Seq(Bytes)]
  /\ \A b \in Bufs : Len(mem[b]) = PageBytes
  /\ call \subseteq {c \in Chunks : chunk[c].st = "builder"} /\ Cardinality(call) <= 1
  /\ \A c \in Chunks : len[c] \in 0 .. chunk[c].cap
  /\ \A c \in Chunks : chunk[c].mem # NULL => chunk[c].off + chunk[c].cap <= Len(mem[chunk[c].mem])

ContentInit ==
  /\ ChunkInit
  /\ mem = [m \in Memory |-> IF m \in Bufs THEN Zeros(PageBytes) ELSE <<>>]
  /\ len = [c \in Chunks |-> 0]
  /\ call = {}

\* as_slice of Chunk and of ChunkBuilder, with n the length: base + offset.
\* A chunk without a page is empty.
SliceOf(c, n) ==
  IF chunk[c].mem = NULL THEN <<>>
  ELSE SubSeq(mem[chunk[c].mem], chunk[c].off + 1, chunk[c].off + n)

AsSlice(c)    == SliceOf(c, len[c])
AsMutSlice(c) == SliceOf(c, chunk[c].cap)   \* as_mut_slice: the whole capacity

\* Memory after s is written at position at of the chunk's range.
Put(c, at, s) ==
  IF s = <<>> THEN mem
  ELSE LET first == chunk[c].off + at
       IN  [mem EXCEPT ![chunk[c].mem] =
              [i \in DOMAIN @ |-> IF i - first \in 1 .. Len(s) THEN s[i - first] ELSE @[i]]]

-----------------------------------------------------------------------------
(* ChunkBuilder, in the hands of user code.                                *)

InHand(c) == chunk[c].st = "builder" /\ c \notin call

\* append: all of s, or Err(ChunkFull) and nothing.
AppendBytes(c, s) ==
  /\ InHand(c)
  /\ IF len[c] + Len(s) > chunk[c].cap
     THEN UNCHANGED <<mem, len>>
     ELSE mem' = Put(c, len[c], s) /\ len' = [len EXCEPT ![c] = @ + Len(s)]
  /\ UNCHANGED <<call, cvars>>

\* A write through as_mut_slice leaves the length alone.
WriteMut(c, s) ==
  /\ InHand(c)
  /\ Len(s) <= Len(AsMutSlice(c))
  /\ mem' = Put(c, 0, s)
  /\ UNCHANGED <<len, call, cvars>>

\* set_len: panics above the capacity, before anything is changed.
SetLen(c, n) ==
  /\ InHand(c)
  /\ n <= chunk[c].cap
  /\ len' = [len EXCEPT ![c] = n]
  /\ UNCHANGED <<mem, call, cvars>>

UserSeal(c) == InHand(c) /\ Seal(c) /\ UNCHANGED cells

-----------------------------------------------------------------------------
(* The alloc_* calls of ChunkPool: their allocate is ChunkPool's, what     *)
(* they do with the builder afterwards is one of these.                    *)

\* as_mut_slice gets s from its start, set_len(n), seal.
FillAndSeal(c, s, n) ==
  /\ c \in call
  /\ Seal(c)
  /\ mem' = Put(c, 0, s)
  /\ len' = [len EXCEPT ![c] = n]
  /\ call' = call \ {c}

\* data is as long as was asked for.  Both this and alloc_with panic, and so only
\* drop the builder, when the cast to u32 has made the capacity shorter.
AllocFrom(c, data) ==
  Len(data) = chunk[c].cap /\ FillAndSeal(c, data, Len(data))

\* init writes what it likes of the slice it is given; the length is size.
AllocWith(c, s) ==
  Len(s) <= chunk[c].cap /\ FillAndSeal(c, s, chunk[c].cap)

\* Mutant: the length init returns is taken unchecked.
AllocWithLenUnchecked(c, s, n) ==
  Len(s) <= chunk[c].cap /\ FillAndSeal(c, s, n)

\* The length is what init returns; set_len panics if that is too long.
AllocWithLen(c, s, n) ==
  Len(s) <= chunk[c].cap /\ n <= chunk[c].cap /\ FillAndSeal(c, s, n)

-----------------------------------------------------------------------------
(* What ChunkPool's steps do to the bytes.                                 *)

\* A page is zero-filled when the source produces it, and the first word of a
\* page that enters a free list, from a drop or from prewarm, becomes a link.
\* Otherwise what was written stays.
Refilled(m) ==
  IF m \in Blocks
  THEN CASE arcs'[m] = {} -> <<>>
         [] arcs[m] = {} /\ arcs'[m] # {} ->
              Zeros(reg'[CHOOSE t \in Threads : t \in arcs'[m]].size)
         [] OTHER -> mem[m]
  ELSE CASE owner'[m] = "source" -> Zeros(PageBytes)
         [] owner[m] # "pool" /\ owner'[m] = "pool" -> [mem[m] EXCEPT ![1] = LINK]
         [] OTHER -> mem[m]

\* A new builder is empty, and belongs to the caller of allocate_aligned or to
\* an alloc_* call, whose allocate asks for the default alignment.  Which of
\* the three calls it is matters only at their end.
FollowPool ==
  /\ mem' = [m \in Memory |-> Refilled(m)]
  /\ len' = [c \in Chunks |-> IF chunk'[c].st = "none" THEN 0 ELSE len[c]]
  /\ LET Alive == {c \in Chunks : chunk'[c].st # "none"}
         New   == {c \in Alive : chunk[c].st = "none" /\ chunk'[c].align = DefaultAlign}
     IN  \E inside \in SUBSET New : call' = (call \cap Alive) \cup inside

PoolSide ==
  \/ \E t \in Threads : ChunkStep(t)
  \/ \E t \in Threads, c \in Chunks : DropChunk(t, c)   \* or a panic of init
  \/ \E c \in Chunks : CloneChunk(c) \/ DropClone(c)
  \/ /\ call = {}      \* an alloc_* call holds &mut self until it returns
     /\ \/ \E t \in Threads :
             \/ \E tn \in Tenants, size \in Sizes, align \in Aligns :
                  AllocateAligned(t, tn, size, align)
             \/ DropPages(t)
        \/ \E b \in Bufs : PrewarmOne(b)
  \/ \E b \in Bufs : PagePoolReleases(b)

Run(k, v) == [i \in 1 .. k |-> v]

BuilderSide(c) ==
  \/ \E v \in Values :
       \/ AllocFrom(c, Run(chunk[c].cap, v))
       \/ \E k \in Lengths :
            \/ AppendBytes(c, Run(k, v)) \/ WriteMut(c, Run(k, v))
            \/ AllocWith(c, Run(k, v))
            \/ \E n \in Lengths : AllocWithLen(c, Run(k, v), n)
  \/ \E n \in Lengths : SetLen(c, n)
  \/ UserSeal(c)

ContentNext ==
  \/ PoolSide /\ FollowPool
  \/ \E c \in Chunks : BuilderSide(c)
  \/ ChunkFinished /\ UNCHANGED cells

ContentSpec == ContentInit /\ [][ContentNext]_contents

-----------------------------------------------------------------------------
\* What the holders of a chunk see of it.
Shown ==
  [c \in Chunks |->
     IF chunk[c].st = "none"
     THEN [st |-> "none", refs |-> 0, len |-> 0, data |-> <<>>]
     ELSE [st |-> chunk[c].st, refs |-> chunk[c].refs, len |-> len[c],
           data |-> AsMutSlice(c)]]

Store == INSTANCE HandleStore WITH Handles <- Chunks, Cells <- Bytes, handle <- Shown

\* Each chunk has its bytes to itself: whatever is packed next to it, dropped,
\* recycled, prewarmed or written through another builder, only the builder's
\* own operations change what a chunk reads, a failed append changes nothing,
\* and nothing changes a sealed chunk.
ChunksKeepTheirBytes == Store!StoreSpec
=============================================================================
