--------------------------- MODULE PagePoolProofs ---------------------------
(***************************************************************************)
(* The invariant of PagePoolInv is inductive: it holds initially, every    *)
(* action preserves it, so every reachable state satisfies it, for any     *)
(* number of threads, buffers, tenants and scrapers.                       *)
(*                                                                         *)
(* The lists are handled by three facts about ChainsOK: it depends only on *)
(* the free buffers, the heads and their words (ChainsSame); taking a head *)
(* off (ChainsUnlink) and putting a buffer in front (ChainsLink) keep it.  *)
(***************************************************************************)
EXTENDS PagePoolInv, CounterLemmas

-----------------------------------------------------------------------------
(* The shape of the lists, and who holds a buffer.                         *)

\* A step that leaves the free buffers, the heads and the links alone keeps
\* the lists well formed.
LEMMA ChainsSame ==
  ASSUME ChainsOK, NULL \notin Bufs, mapped \subseteq Bufs,
         FreeBufs' = FreeBufs,
         Heads' \cup {NULL} = Heads \cup {NULL},
         \A b \in FreeBufs : word'[b] = word[b]
  PROVE  ChainsOK'
  <1>1. NULL \notin FreeBufs
    BY DEF FreeBufs
  <1> QED  BY <1>1 DEF ChainsOK

\* pop_local and the release loops: the head h leaves, its next pointer
\* takes its place.
LEMMA ChainsUnlink ==
  ASSUME ChainsOK, NULL \notin Bufs, mapped \subseteq Bufs,
         NEW h \in FreeBufs, h \in Heads,
         FreeBufs' = FreeBufs \ {h},
         Heads' \cup {NULL} = (Heads \ {h}) \cup {word[h], NULL},
         word' = word
  PROVE  ChainsOK'
  <1>1. NULL \notin FreeBufs
    BY DEF FreeBufs
  <1>2. word[h] # h
    BY <1>1 DEF ChainsOK
  <1>3. Heads' \subseteq FreeBufs' \cup {NULL}
    BY <1>1, <1>2 DEF ChainsOK
  <1>4. \A b \in FreeBufs' : word'[b] \in (FreeBufs' \ Heads') \cup {NULL}
    BY <1>1, <1>2 DEF ChainsOK
  <1>5. \A b, c \in FreeBufs' : word'[b] = word'[c] /\ word'[b] # NULL => b = c
    BY DEF ChainsOK
  <1>6. ASSUME NEW S \in SUBSET FreeBufs', S # {}
        PROVE  Heads' \cap S # {} \/ \E c \in FreeBufs' \ S : word'[c] \in S
    <2>1. S \in SUBSET FreeBufs /\ h \notin S /\ NULL \notin S
      BY <1>1
    <2>2. CASE Heads \cap S # {}
      BY <2>1, <2>2
    <2>3. CASE \E c \in FreeBufs \ S : word[c] \in S
      <3>1. PICK c \in FreeBufs \ S : word[c] \in S
        BY <2>3
      <3>2. CASE c = h
        BY <3>1, <3>2, <2>1
      <3>3. CASE c # h
        BY <3>1, <3>3
      <3> QED  BY <3>2, <3>3
    <2> QED  BY <2>1, <2>2, <2>3, <1>6 DEF ChainsOK
  <1> QED  BY <1>3, <1>4, <1>5, <1>6 DEF ChainsOK

\* push_return and prewarm: b, linked to the head h, becomes the head.
LEMMA ChainsLink ==
  ASSUME ChainsOK, NULL \notin Bufs, mapped \subseteq Bufs,
         NEW b \in Bufs, b \notin FreeBufs, NEW h \in Heads,
         FreeBufs' = FreeBufs \cup {b},
         Heads' \cup {NULL} = (Heads \ {h}) \cup {b, NULL},
         word'[b] = h,
         \A c \in FreeBufs : word'[c] = word[c]
  PROVE  ChainsOK'
  <1>1. NULL \notin FreeBufs /\ b # NULL
    BY DEF FreeBufs
  <1>2. b \notin Heads
    BY <1>1 DEF ChainsOK
  <1>3. Heads' \subseteq FreeBufs' \cup {NULL}
    BY DEF ChainsOK
  <1>4. \A c \in FreeBufs' : word'[c] \in (FreeBufs' \ Heads') \cup {NULL}
    BY <1>1, <1>2 DEF ChainsOK
  <1>5. \A c, d \in FreeBufs' : word'[c] = word'[d] /\ word'[c] # NULL => c = d
    BY <1>1, <1>2 DEF ChainsOK
  <1>6. ASSUME NEW S \in SUBSET FreeBufs', S # {}
        PROVE  Heads' \cap S # {} \/ \E c \in FreeBufs' \ S : word'[c] \in S
    <2>1. CASE b \in S
      BY <2>1, <1>1
    <2>2. CASE b \notin S
      <3>1. S \in SUBSET FreeBufs /\ NULL \notin S
        BY <2>2, <1>1
      <3>2. CASE Heads \cap S # {}
        BY <3>1, <3>2, <2>2
      <3>3. CASE \E c \in FreeBufs \ S : word[c] \in S
        BY <3>1, <3>3
      <3> QED  BY <3>1, <3>2, <3>3, <1>6 DEF ChainsOK
    <2> QED  BY <2>1, <2>2
  <1> QED  BY <1>3, <1>4, <1>5, <1>6 DEF ChainsOK

\* A thread that comes to hold b adds it to the held buffers.
LEMMA HeldGain ==
  ASSUME NEW t \in Threads, NEW b,
         pc[t] \notin HoldPcs, pc'[t] \in HoldPcs, reg'[t].buf = b,
         \A u \in Threads \ {t} : pc'[u] = pc[u] /\ reg'[u] = reg[u]
  PROVE  At(HoldPcs)' = At(HoldPcs) \cup {t} /\ Held' = Held \cup {b}
  <1>1. At(HoldPcs)' = At(HoldPcs) \cup {t}
    BY DEF At
  <1>2. \A u \in At(HoldPcs) : reg'[u].buf = reg[u].buf
    BY DEF At
  <1> QED  BY <1>1, <1>2 DEF Held

\* Holders stay exclusive when a thread comes to hold a buffer nobody held.
LEMMA HoldersGain ==
  ASSUME HoldersOK, NEW t, NEW b, b \in mapped' \ Live', b \notin Held,
         At(HoldPcs)' = At(HoldPcs) \cup {t}, reg'[t].buf = b,
         \A u \in At(HoldPcs) : reg'[u].buf = reg[u].buf,
         mapped \subseteq mapped', Live' \subseteq Live
  PROVE  HoldersOK'
  <1>1. \A u \in At(HoldPcs) : reg[u].buf # b
    BY DEF Held
  <1> QED  BY <1>1 DEF HoldersOK

\* A thread that hands its buffer over takes it out of the held buffers.
LEMMA HeldLose ==
  ASSUME HoldersOK, NEW t \in Threads,
         pc[t] \in HoldPcs, pc'[t] \notin HoldPcs,
         \A u \in Threads \ {t} : pc'[u] = pc[u] /\ reg'[u] = reg[u]
  PROVE  At(HoldPcs)' = At(HoldPcs) \ {t} /\ Held' = Held \ {reg[t].buf}
  <1>1. At(HoldPcs)' = At(HoldPcs) \ {t} /\ t \in At(HoldPcs)
    BY DEF At
  <1>2. \A u \in At(HoldPcs) \ {t} : reg'[u].buf = reg[u].buf /\ reg[u].buf # reg[t].buf
    BY <1>1 DEF At, HoldersOK
  <1> QED  BY <1>1, <1>2 DEF Held

\* The held buffers depend only on which threads hold what.
LEMMA HeldSame ==
  ASSUME \A t \in Threads :
           /\ pc'[t] \in HoldPcs <=> pc[t] \in HoldPcs
           /\ pc[t] \in HoldPcs => reg'[t].buf = reg[t].buf
  PROVE  At(HoldPcs)' = At(HoldPcs) /\ Held' = Held
  <1>1. At(HoldPcs)' = At(HoldPcs)
    BY DEF At
  <1> QED  BY <1>1 DEF At, Held

\* A step that moves no buffer keeps the ownership part of the invariant.
LEMMA QuietStep ==
  ASSUME IInv, UNCHANGED lists, Live' = Live,
         \A t \in Threads :
           /\ pc'[t] \in HoldPcs <=> pc[t] \in HoldPcs
           /\ pc[t] \in HoldPcs => reg'[t].buf = reg[t].buf
           /\ pc'[t] = "cas" => pc[t] = "cas" /\ reg'[t].head = reg[t].head
           /\ pc'[t] = "shared_drop" <=> pc[t] = "shared_drop"
           /\ pc[t] = "shared_drop" => reg'[t].head = reg[t].head
  PROVE  HoldersOK' /\ ChainsOK' /\ HeadsOK'
  <1>1. At(HoldPcs)' = At(HoldPcs) /\ Held' = Held
    BY HeldSame
  <1>2. FreeBufs' = FreeBufs
    BY <1>1 DEF FreeBufs, lists
  <1>3. Heads' = Heads
    BY DEF At, Heads, lists
  <1>4. HoldersOK'
    BY <1>1 DEF IInv, HoldersOK, At, lists
  <1>5. ChainsOK'
    BY <1>2, <1>3 DEF IInv, ChainsOK, lists
  <1>6. HeadsOK'
    BY DEF IInv, HeadsOK, At, HoldPcs, PushPcs, lists
  <1> QED  BY <1>4, <1>5, <1>6

-----------------------------------------------------------------------------
(* One lemma per action: it preserves each part of the invariant.          *)

\* Program locations, Transition and the empty records are small: they are
\* visible in every proof from here on.
USE DEF AcquirePcs, RecordPcs, PrewarmPcs, PushPcs, PushedPcs, SharedDropPcs,
        PoolPcs, DropPcs, HoldPcs, Transition, lists, NoReg, NoPage

\* allocate enters with the tenant in its frame.
LEMMA AllocateInv ==
  ASSUME IInv, NEW t \in Threads, NEW tn \in Tenants, Allocate(t, tn)
  PROVE  IInv'
  <1> USE DEF IInv, Allocate, PoolFree
  <1>1. TypeOK'
    <2>1. reg' \in [Threads -> Regs]
      BY DEF TypeOK, Regs, Ptr
    <2> QED  BY <2>1 DEF TypeOK, TenantTypeOK, Pcs
  <1>2. LocalsOK'
    <2>1. \A u \in Threads \ {t} : pc'[u] = pc[u] /\ reg'[u] = reg[u]
      BY DEF TypeOK
    <2>2. pc'[t] = "pop_local" /\ reg'[t].ten = tn
      BY DEF TypeOK, Regs
    <2> QED  BY <2>1, <2>2 DEF LocalsOK, At, Live
  <1>3. HoldersOK' /\ ChainsOK' /\ HeadsOK'
    BY QuietStep DEF TypeOK, Live
  <1>4. ArcOK'
    BY PoolAssumption DEF TypeOK, Handles, ArcOK, HoldersOK, At, Live
  <1> QED  BY <1>1, <1>2, <1>3, <1>4

\* pop_local takes the head off the local list: the buffer changes from
\* the pool to the thread, the rest of the list stays linked.
LEMMA PopLocalInv ==
  ASSUME IInv, NEW t \in Threads, PopLocal(t)
  PROVE  IInv'
  <1> USE DEF IInv, PopLocal
  <1>1. TypeOK'
    <2>1. reg' \in [Threads -> Regs]
      BY DEF TypeOK, Regs, Ptr
    <2>2. pstats' \in PoolStats
      BY FetchType DEF TypeOK, PoolStats
    <2>3. local_head' \in Ptr
      BY DEF TypeOK, ChainsOK, Heads, FreeBufs, Ptr
    <2> QED  BY <2>1, <2>2, <2>3 DEF TypeOK, TenantTypeOK, Pcs
  <1>2. LocalsOK'
    <2>1. \A u \in Threads \ {t} : pc'[u] = pc[u] /\ reg'[u] = reg[u]
      BY DEF TypeOK
    <2>2. pc'[t] = "in_use" /\ reg'[t].ten = reg[t].ten
      BY DEF TypeOK, Regs
    <2> QED  BY <2>1, <2>2 DEF LocalsOK, At, Live
  <1>3. HoldersOK' /\ ChainsOK' /\ HeadsOK'
    <2>0. NULL \notin Bufs /\ mapped \subseteq Bufs
      BY PoolAssumption DEF TypeOK
    <2>1. \A u \in Threads \ {t} : pc'[u] = pc[u] /\ reg'[u] = reg[u]
      BY DEF TypeOK
    <2>2. local_head \in FreeBufs /\ local_head \in Heads
      BY <2>0 DEF ChainsOK, Heads
    <2>3. At({"shared_drop"}) = {} /\ At({"shared_drop"})' = {}
      BY DEF ArcOK, At, TypeOK
    <2>4. pc'[t] = "in_use" /\ reg'[t].buf = local_head
      BY DEF TypeOK, Regs
    <2>5. At(HoldPcs)' = At(HoldPcs) \cup {t} /\ Held' = Held \cup {local_head}
      BY <2>1, <2>4, HeldGain
    <2>6. FreeBufs' = FreeBufs \ {local_head}
      BY <2>5 DEF FreeBufs, Live
    <2>7. Heads = {local_head, return_head} /\ Heads' = {word[local_head], return_head}
      BY <2>3 DEF Heads
    <2>8. ChainsOK'
      BY <2>0, <2>2, <2>6, <2>7, ChainsUnlink DEF HeadsOK
    <2>9. HoldersOK'
      BY <2>1, <2>2, <2>4, <2>5 DEF HoldersOK, At, FreeBufs, Held, Live
    <2>10. HeadsOK'
      <3>1. word[local_head] = return_head => return_head = NULL
        BY <2>2, <2>7 DEF ChainsOK
      <3> QED  BY <3>1, <2>1, <2>4 DEF HeadsOK, At
    <2> QED  BY <2>8, <2>9, <2>10
  <1>4. ArcOK'
    BY PoolAssumption DEF TypeOK, Handles, ArcOK, HoldersOK, At, Live
  <1> QED  BY <1>1, <1>2, <1>3, <1>4

\* The swap of drain_return_queue moves the whole chain from return_head
\* to an empty local_head.
LEMMA DrainReturnQueueInv ==
  ASSUME IInv, NEW t \in Threads, DrainReturnQueue(t)
  PROVE  IInv'
  <1> USE DEF IInv, DrainReturnQueue
  <1>1. TypeOK'
    BY DEF TypeOK, TenantTypeOK, Pcs
  <1>2. LocalsOK'
    BY DEF TypeOK, LocalsOK, At, Live
  <1>3. HoldersOK' /\ ChainsOK' /\ HeadsOK'
    <2>0. NULL \notin Bufs /\ mapped \subseteq Bufs
      BY PoolAssumption DEF TypeOK
    <2>1. \A u \in Threads \ {t} : pc'[u] = pc[u] /\ reg'[u] = reg[u]
      BY DEF TypeOK
    <2>2. Held' = Held /\ At(HoldPcs)' = At(HoldPcs)
      BY HeldSame DEF TypeOK
    <2>3. FreeBufs' = FreeBufs
      BY <2>2 DEF FreeBufs, Live
    <2>4. At({"shared_drop"}) = {} /\ At({"shared_drop"})' = {}
      BY DEF ArcOK, At, TypeOK
    <2>5. Heads' \cup {NULL} = Heads \cup {NULL}
      BY <2>4 DEF Heads
    <2>6. ChainsOK'
      BY <2>0, <2>3, <2>5, ChainsSame
    <2> QED  BY <2>1, <2>2, <2>6 DEF HoldersOK, HeadsOK, At, Live, TypeOK
  <1>4. ArcOK'
    BY PoolAssumption DEF TypeOK, Handles, ArcOK, HoldersOK, At, Live
  <1> QED  BY <1>1, <1>2, <1>3, <1>4

\* Counting a drain touches one counter.
LEMMA CountDrainInv ==
  ASSUME IInv, NEW t \in Threads, CountDrain(t)
  PROVE  IInv'
  <1> USE DEF IInv, CountDrain
  <1>1. TypeOK'
    <2>1. pstats' \in PoolStats
      BY FetchType DEF TypeOK, PoolStats
    <2> QED  BY <2>1 DEF TypeOK, TenantTypeOK, Pcs
  <1>2. LocalsOK'
    BY DEF TypeOK, LocalsOK, At, Live
  <1>3. HoldersOK' /\ ChainsOK' /\ HeadsOK'
    BY QuietStep DEF TypeOK, Live
  <1>4. ArcOK'
    BY PoolAssumption DEF TypeOK, Handles, ArcOK, HoldersOK, At, Live
  <1> QED  BY <1>1, <1>2, <1>3, <1>4

\* Counting a heap allocation touches one counter.
LEMMA CountFreshInv ==
  ASSUME IInv, NEW t \in Threads, CountFresh(t)
  PROVE  IInv'
  <1> USE DEF IInv, CountFresh
  <1>1. TypeOK'
    <2>1. pstats' \in PoolStats
      BY FetchType DEF TypeOK, PoolStats
    <2> QED  BY <2>1 DEF TypeOK, TenantTypeOK, Pcs
  <1>2. LocalsOK'
    BY DEF TypeOK, LocalsOK, At, Live
  <1>3. HoldersOK' /\ ChainsOK' /\ HeadsOK'
    BY QuietStep DEF TypeOK, Live
  <1>4. ArcOK'
    BY PoolAssumption DEF TypeOK, Handles, ArcOK, HoldersOK, At, Live
  <1> QED  BY <1>1, <1>2, <1>3, <1>4

\* A buffer from the source was nobody's and is now the thread's.
LEMMA AllocateFreshInv ==
  ASSUME IInv, NEW t \in Threads, NEW b \in Bufs, AllocateFresh(t, b)
  PROVE  IInv'
  <1> USE DEF IInv, AllocateFresh, SourceAllocate
  <1>1. TypeOK'
    <2>1. reg' \in [Threads -> Regs]
      BY DEF TypeOK, Regs, Ptr
    <2>2. word' \in [Bufs -> Ptr \cup Data] /\ mapped' \in SUBSET Bufs
      BY DEF TypeOK, Ptr
    <2> QED  BY <2>1, <2>2 DEF TypeOK, TenantTypeOK, Pcs
  <1>2. LocalsOK'
    <2>1. \A u \in Threads \ {t} : pc'[u] = pc[u] /\ reg'[u] = reg[u]
      BY DEF TypeOK
    <2>2. pc'[t] = "in_use" /\ reg'[t].ten = reg[t].ten
      BY DEF TypeOK, Regs
    <2> QED  BY <2>1, <2>2 DEF LocalsOK, At, Live
  <1>3. HoldersOK' /\ ChainsOK' /\ HeadsOK'
    <2>0. NULL \notin Bufs /\ mapped \subseteq Bufs
      BY PoolAssumption DEF TypeOK
    <2>1. \A u \in Threads \ {t} : pc'[u] = pc[u] /\ reg'[u] = reg[u]
      BY DEF TypeOK
    <2>2. pc'[t] = "in_use" /\ reg'[t].buf = b
      BY DEF TypeOK, Regs
    <2>3. At(HoldPcs)' = At(HoldPcs) \cup {t} /\ Held' = Held \cup {b}
      BY <2>1, <2>2, HeldGain
    <2>4. b \notin mapped /\ b \notin Held /\ b \notin Live /\ Live' = Live
      BY DEF HoldersOK, Held, Live
    <2>5. FreeBufs' = FreeBufs
      BY <2>3, <2>4 DEF FreeBufs
    <2>6. Heads' = Heads
      BY <2>1, <2>2 DEF Heads, At
    <2>7. ChainsOK'
      BY <2>0, <2>4, <2>5, <2>6, ChainsSame DEF FreeBufs, TypeOK
    <2>8. HoldersOK'
      BY <2>1, <2>2, <2>3, <2>4 DEF HoldersOK, At
    <2>9. HeadsOK'
      BY <2>1, <2>2, <2>4 DEF HeadsOK, HoldersOK, At, TypeOK
    <2> QED  BY <2>7, <2>8, <2>9
  <1>4. ArcOK'
    BY PoolAssumption DEF TypeOK, Handles, ArcOK, HoldersOK, At, Live
  <1> QED  BY <1>1, <1>2, <1>3, <1>4

\* A panicking source leaves lists and handles as they were.
LEMMA AllocatePanicsInv ==
  ASSUME IInv, NEW t \in Threads, AllocatePanics(t)
  PROVE  IInv'
  <1> USE DEF IInv, AllocatePanics
  <1>1. TypeOK'
    <2>1. reg' \in [Threads -> Regs]
      BY DEF TypeOK, Regs, Ptr
    <2> QED  BY <2>1 DEF TypeOK, TenantTypeOK, Pcs
  <1>2. LocalsOK'
    BY DEF TypeOK, LocalsOK, At, Live
  <1>3. HoldersOK' /\ ChainsOK' /\ HeadsOK'
    BY QuietStep DEF TypeOK, Live
  <1>4. ArcOK'
    BY PoolAssumption DEF TypeOK, Handles, ArcOK, HoldersOK, At, Live
  <1> QED  BY <1>1, <1>2, <1>3, <1>4

\* The clone of Arc<PoolShared> is accounted to the new buffer.
LEMMA CountInUseInv ==
  ASSUME IInv, NEW t \in Threads, CountInUse(t)
  PROVE  IInv'
  <1> USE DEF IInv, CountInUse
  <1>1. TypeOK'
    <2>1. pstats' \in PoolStats
      BY FetchType DEF TypeOK, PoolStats
    <2>2. strong' \in SUBSET Handles
      BY DEF TypeOK, Handles, HoldersOK, At
    <2> QED  BY <2>1, <2>2 DEF TypeOK, TenantTypeOK, Pcs
  <1>2. LocalsOK'
    BY DEF TypeOK, LocalsOK, At, Live
  <1>3. HoldersOK' /\ ChainsOK' /\ HeadsOK'
    BY QuietStep DEF TypeOK, Live
  <1>4. ArcOK'
    BY PoolAssumption DEF TypeOK, Handles, ArcOK, HoldersOK, At, Live
  <1> QED  BY <1>1, <1>2, <1>3, <1>4

\* record_allocate, first counter.
LEMMA CountTotalInv ==
  ASSUME IInv, NEW t \in Threads, CountTotal(t)
  PROVE  IInv'
  <1> USE DEF IInv, CountTotal
  <1>1. TypeOK'
    <2>1. tstats' \in [Tenants -> TenantCounters]
      BY FetchType, PoolAssumption DEF TypeOK, TenantTypeOK, TenantCounters, RecordTotal
    <2>2. TenantTypeOK'
      BY <2>1 DEF TenantTypeOK
    <2> QED  BY <2>1, <2>2 DEF TypeOK, TenantTypeOK, Pcs
  <1>2. LocalsOK'
    BY DEF TypeOK, LocalsOK, At, Live
  <1>3. HoldersOK' /\ ChainsOK' /\ HeadsOK'
    BY QuietStep DEF TypeOK, Live
  <1>4. ArcOK'
    BY PoolAssumption DEF TypeOK, Handles, ArcOK, HoldersOK, At, Live
  <1> QED  BY <1>1, <1>2, <1>3, <1>4

\* record_allocate, second counter.
LEMMA CountPagesInv ==
  ASSUME IInv, NEW t \in Threads, CountPages(t)
  PROVE  IInv'
  <1> USE DEF IInv, CountPages
  <1>1. TypeOK'
    <2>1. tstats' \in [Tenants -> TenantCounters]
      BY FetchType, PoolAssumption DEF TypeOK, TenantTypeOK, TenantCounters, RecordPages
    <2>2. TenantTypeOK'
      BY <2>1 DEF TenantTypeOK
    <2> QED  BY <2>1, <2>2 DEF TypeOK, TenantTypeOK, Pcs
  <1>2. LocalsOK'
    BY DEF TypeOK, LocalsOK, At, Live
  <1>3. HoldersOK' /\ ChainsOK' /\ HeadsOK'
    BY QuietStep DEF TypeOK, Live
  <1>4. ArcOK'
    BY PoolAssumption DEF TypeOK, Handles, ArcOK, HoldersOK, At, Live
  <1> QED  BY <1>1, <1>2, <1>3, <1>4

\* record_allocate, third counter; new_bytes is a u64.
LEMMA CountBytesInv ==
  ASSUME IInv, NEW t \in Threads, CountBytes(t)
  PROVE  IInv'
  <1> USE DEF IInv, CountBytes
  <1>1. TypeOK'
    <2>1. tstats' \in [Tenants -> TenantCounters]
      BY FetchType, PoolAssumption DEF TypeOK, TenantTypeOK, TenantCounters, RecordBytes
    <2>2. TenantTypeOK'
      BY <2>1 DEF TenantTypeOK
    <2>3. tstats[reg[t].ten].bytes \in Counter /\ PageSize \in Nat
      BY PoolAssumption DEF TypeOK, LocalsOK, TenantTypeOK, TenantCounters
    <2>4. NewBytes(reg[t].ten, PageSize) \in Counter
      BY <2>3, FetchType DEF NewBytes
    <2>5. NewBytes(reg[t].ten, PageSize) \in Nat
      BY <2>4, U64Assumption DEF Counter
    <2>6. reg' \in [Threads -> Regs]
      BY <2>5 DEF TypeOK, Regs
    <2> QED  BY <2>1, <2>2, <2>3, <2>4, <2>5, <2>6 DEF TypeOK, TenantTypeOK, Pcs
  <1>2. LocalsOK'
    <2>1. \A u \in Threads \ {t} : pc'[u] = pc[u] /\ reg'[u] = reg[u]
      BY DEF TypeOK
    <2>2. tstats[reg[t].ten].bytes \in Counter /\ PageSize \in Nat
      BY PoolAssumption DEF TypeOK, LocalsOK, TenantTypeOK, TenantCounters
    <2>3. NewBytes(reg[t].ten, PageSize) \in Counter
      BY <2>2, FetchType DEF NewBytes
    <2>4. pc'[t] = "ra_peak" /\ reg'[t].ten = reg[t].ten /\ reg'[t].n \in Counter
      BY <2>3 DEF TypeOK, Regs
    <2> QED  BY <2>1, <2>4 DEF LocalsOK, At, Live
  <1>3. HoldersOK' /\ ChainsOK' /\ HeadsOK'
    BY QuietStep DEF TypeOK, Live
  <1>4. ArcOK'
    BY PoolAssumption DEF TypeOK, Handles, ArcOK, HoldersOK, At, Live
  <1> QED  BY <1>1, <1>2, <1>3, <1>4

\* record_allocate decides to raise the peak.
LEMMA RaisePeakInv ==
  ASSUME IInv, NEW t \in Threads, RaisePeak(t)
  PROVE  IInv'
  <1> USE DEF IInv, RaisePeak
  <1>1. TypeOK'
    BY DEF TypeOK, TenantTypeOK, Pcs
  <1>2. LocalsOK'
    BY DEF TypeOK, LocalsOK, At, Live
  <1>3. HoldersOK' /\ ChainsOK' /\ HeadsOK'
    BY QuietStep DEF TypeOK, Live
  <1>4. ArcOK'
    BY PoolAssumption DEF TypeOK, Handles, ArcOK, HoldersOK, At, Live
  <1> QED  BY <1>1, <1>2, <1>3, <1>4

\* allocate returns: the buffer changes from the thread to the builder.
LEMMA KeepPeakInv ==
  ASSUME IInv, NEW t \in Threads, KeepPeak(t)
  PROVE  IInv'
  <1> USE DEF IInv, KeepPeak, GiveBuilder
  <1>1. TypeOK'
    <2>1. reg' \in [Threads -> Regs]
      BY DEF TypeOK, Regs, Ptr
    <2>2. page' \in [Bufs -> PageStates]
      BY DEF TypeOK, PageStates, Regs
    <2> QED  BY <2>1, <2>2 DEF TypeOK, TenantTypeOK, Pcs
  <1>2. LocalsOK'
    BY DEF TypeOK, LocalsOK, At, Live
  <1>3. HoldersOK' /\ ChainsOK' /\ HeadsOK'
    <2>0. NULL \notin Bufs /\ mapped \subseteq Bufs
      BY PoolAssumption DEF TypeOK
    <2>1. \A u \in Threads \ {t} : pc'[u] = pc[u] /\ reg'[u] = reg[u]
      BY DEF TypeOK
    <2>2. At(HoldPcs)' = At(HoldPcs) \ {t} /\ Held' = Held \ {reg[t].buf}
      BY <2>1, HeldLose DEF TypeOK
    <2>3. reg[t].buf \in Held /\ reg[t].buf \in mapped \ Live
      BY DEF HoldersOK, Held, At
    <2>4. Live' = Live \cup {reg[t].buf}
      BY <2>0, <2>3 DEF Live, TypeOK
    <2>5. FreeBufs' = FreeBufs
      BY <2>2, <2>3, <2>4 DEF FreeBufs
    <2>6. Heads' = Heads
      BY <2>1 DEF Heads, At, TypeOK
    <2>7. ChainsOK'
      BY <2>0, <2>5, <2>6, ChainsSame
    <2>8. HoldersOK'
      BY <2>1, <2>2, <2>3, <2>4 DEF HoldersOK, At
    <2>9. HeadsOK'
      BY <2>1 DEF HeadsOK, At, TypeOK
    <2> QED  BY <2>7, <2>8, <2>9
  <1>4. ArcOK'
    BY PoolAssumption DEF TypeOK, Handles, ArcOK, HoldersOK, At, Live
  <1> QED  BY <1>1, <1>2, <1>3, <1>4

\* allocate stores the peak and returns the builder.
LEMMA WritePeakInv ==
  ASSUME IInv, NEW t \in Threads, WritePeak(t)
  PROVE  IInv'
  <1> USE DEF IInv, WritePeak, GiveBuilder
  <1>1. TypeOK'
    <2>1. tstats' \in [Tenants -> TenantCounters]
      BY DEF TypeOK, LocalsOK, At, TenantTypeOK, TenantCounters, StorePeak
    <2>2. TenantTypeOK'
      BY <2>1 DEF TenantTypeOK
    <2>3. reg' \in [Threads -> Regs]
      BY DEF TypeOK, Regs, Ptr
    <2>4. page' \in [Bufs -> PageStates]
      BY DEF TypeOK, PageStates, Regs
    <2> QED  BY <2>1, <2>2, <2>3, <2>4 DEF TypeOK, TenantTypeOK, Pcs
  <1>2. LocalsOK'
    BY DEF TypeOK, LocalsOK, At, Live
  <1>3. HoldersOK' /\ ChainsOK' /\ HeadsOK'
    <2>0. NULL \notin Bufs /\ mapped \subseteq Bufs
      BY PoolAssumption DEF TypeOK
    <2>1. \A u \in Threads \ {t} : pc'[u] = pc[u] /\ reg'[u] = reg[u]
      BY DEF TypeOK
    <2>2. At(HoldPcs)' = At(HoldPcs) \ {t} /\ Held' = Held \ {reg[t].buf}
      BY <2>1, HeldLose DEF TypeOK
    <2>3. reg[t].buf \in Held /\ reg[t].buf \in mapped \ Live
      BY DEF HoldersOK, Held, At
    <2>4. Live' = Live \cup {reg[t].buf}
      BY <2>0, <2>3 DEF Live, TypeOK
    <2>5. FreeBufs' = FreeBufs
      BY <2>2, <2>3, <2>4 DEF FreeBufs
    <2>6. Heads' = Heads
      BY <2>1 DEF Heads, At, TypeOK
    <2>7. ChainsOK'
      BY <2>0, <2>5, <2>6, ChainsSame
    <2>8. HoldersOK'
      BY <2>1, <2>2, <2>3, <2>4 DEF HoldersOK, At
    <2>9. HeadsOK'
      BY <2>1 DEF HeadsOK, At, TypeOK
    <2> QED  BY <2>7, <2>8, <2>9
  <1>4. ArcOK'
    BY PoolAssumption DEF TypeOK, Handles, ArcOK, HoldersOK, At, Live
  <1> QED  BY <1>1, <1>2, <1>3, <1>4

\* User code writes into its own buffer, which is on no list.
LEMMA WriteInv ==
  ASSUME IInv, NEW b \in Bufs, NEW d \in Data, Write(b, d)
  PROVE  IInv'
  <1> USE DEF IInv, Write
  <1>1. TypeOK'
    BY DEF TypeOK, TenantTypeOK, Pcs
  <1>2. LocalsOK'
    BY DEF TypeOK, LocalsOK, At, Live
  <1>3. HoldersOK' /\ ChainsOK' /\ HeadsOK'
    <2>0. NULL \notin Bufs /\ mapped \subseteq Bufs
      BY PoolAssumption DEF TypeOK
    <2>1. Held' = Held /\ Live' = Live /\ Heads' = Heads
      BY DEF Held, Live, At, Heads
    <2>2. FreeBufs' = FreeBufs /\ b \notin FreeBufs
      BY <2>1 DEF FreeBufs, Live
    <2>3. ChainsOK'
      BY <2>0, <2>1, <2>2, ChainsSame DEF FreeBufs, TypeOK
    <2>4. HeadsOK'
      BY DEF HeadsOK, HoldersOK, At, Live, TypeOK
    <2> QED  BY <2>1, <2>3, <2>4 DEF HoldersOK, At
  <1>4. ArcOK'
    BY PoolAssumption DEF TypeOK, Handles, ArcOK, HoldersOK, At, Live
  <1> QED  BY <1>1, <1>2, <1>3, <1>4

\* seal keeps the buffer with the same owner.
LEMMA SealInv ==
  ASSUME IInv, NEW b \in Bufs, Seal(b)
  PROVE  IInv'
  <1> USE DEF IInv, Seal
  <1>1. TypeOK'
    <2>1. page' \in [Bufs -> PageStates]
      BY DEF TypeOK, PageStates
    <2> QED  BY <2>1 DEF TypeOK, TenantTypeOK, Pcs
  <1>2. LocalsOK'
    <2>1. Live' = Live /\ \A c \in Bufs : page'[c].ten = page[c].ten
      BY DEF TypeOK, PageStates, Live
    <2> QED  BY <2>1 DEF LocalsOK, At, Live
  <1>3. HoldersOK' /\ ChainsOK' /\ HeadsOK'
    <2>1. Live' = Live
      BY DEF Live, TypeOK, PageStates
    <2> QED  BY <2>1, QuietStep DEF TypeOK
  <1>4. ArcOK'
    BY PoolAssumption DEF TypeOK, Handles, ArcOK, HoldersOK, At, Live
  <1> QED  BY <1>1, <1>2, <1>3, <1>4

\* Cloning a sealed page changes its reference count only.
LEMMA ClonePageInv ==
  ASSUME IInv, NEW b \in Bufs, ClonePage(b)
  PROVE  IInv'
  <1> USE DEF IInv, ClonePage
  <1>1. TypeOK'
    <2>1. page' \in [Bufs -> PageStates]
      BY DEF TypeOK, PageStates
    <2> QED  BY <2>1 DEF TypeOK, TenantTypeOK, Pcs
  <1>2. LocalsOK'
    <2>1. Live' = Live /\ \A c \in Bufs : page'[c].ten = page[c].ten
      BY DEF TypeOK, PageStates, Live
    <2> QED  BY <2>1 DEF LocalsOK, At, Live
  <1>3. HoldersOK' /\ ChainsOK' /\ HeadsOK'
    <2>1. Live' = Live
      BY DEF Live, TypeOK, PageStates
    <2> QED  BY <2>1, QuietStep DEF TypeOK
  <1>4. ArcOK'
    BY PoolAssumption DEF TypeOK, Handles, ArcOK, HoldersOK, At, Live
  <1> QED  BY <1>1, <1>2, <1>3, <1>4

\* Dropping a clone that is not the last changes the count only.
LEMMA DropCloneInv ==
  ASSUME IInv, NEW b \in Bufs, DropClone(b)
  PROVE  IInv'
  <1> USE DEF IInv, DropClone
  <1>1. TypeOK'
    <2>1. page' \in [Bufs -> PageStates]
      BY DEF TypeOK, PageStates
    <2> QED  BY <2>1 DEF TypeOK, TenantTypeOK, Pcs
  <1>2. LocalsOK'
    <2>1. Live' = Live /\ \A c \in Bufs : page'[c].ten = page[c].ten
      BY DEF TypeOK, PageStates, Live
    <2> QED  BY <2>1 DEF LocalsOK, At, Live
  <1>3. HoldersOK' /\ ChainsOK' /\ HeadsOK'
    <2>1. Live' = Live
      BY DEF Live, TypeOK, PageStates
    <2> QED  BY <2>1, QuietStep DEF TypeOK
  <1>4. ArcOK'
    BY PoolAssumption DEF TypeOK, Handles, ArcOK, HoldersOK, At, Live
  <1> QED  BY <1>1, <1>2, <1>3, <1>4

\* The last handle drops: the buffer and the Arc<PoolShared> change from
\* the page to the dropping thread.
LEMMA DropPageInv ==
  ASSUME IInv, NEW t \in Threads, NEW b \in Bufs, DropPage(t, b)
  PROVE  IInv'
  <1> USE DEF IInv, DropPage
  <1>1. TypeOK'
    <2>1. page[b].ten \in Tenants \cup {NULL}
      BY DEF TypeOK, PageStates
    <2>2. reg' \in [Threads -> Regs]
      BY <2>1 DEF TypeOK, Regs, Ptr
    <2>3. page' \in [Bufs -> PageStates]
      BY DEF TypeOK, PageStates, Regs
    <2>4. strong' \in SUBSET Handles
      BY DEF TypeOK, Handles
    <2> QED  BY <2>1, <2>2, <2>3, <2>4 DEF TypeOK, TenantTypeOK, Pcs
  <1>2. LocalsOK'
    <2>1. \A u \in Threads \ {t} : pc'[u] = pc[u] /\ reg'[u] = reg[u]
      BY DEF TypeOK
    <2>2. pc'[t] = "rr_bytes" /\ reg'[t].ten \in Tenants
      BY DEF TypeOK, Regs, LocalsOK, Live
    <2>3. Live' \subseteq Live /\ \A c \in Live' : page'[c] = page[c]
      BY DEF Live, TypeOK
    <2> QED  BY <2>1, <2>2, <2>3 DEF LocalsOK, At
  <1>3. HoldersOK' /\ ChainsOK' /\ HeadsOK'
    <2>0. NULL \notin Bufs /\ mapped \subseteq Bufs
      BY PoolAssumption DEF TypeOK
    <2>1. \A u \in Threads \ {t} : pc'[u] = pc[u] /\ reg'[u] = reg[u]
      BY DEF TypeOK
    <2>2. pc'[t] = "rr_bytes" /\ reg'[t].buf = b
      BY DEF TypeOK, Regs
    <2>3. At(HoldPcs)' = At(HoldPcs) \cup {t} /\ Held' = Held \cup {b}
      BY <2>1, <2>2, HeldGain
    <2>4. b \in Live /\ b \notin Held /\ Live' = Live \ {b}
      BY DEF HoldersOK, Held, Live, TypeOK
    <2>5. FreeBufs' = FreeBufs
      BY <2>3, <2>4 DEF FreeBufs
    <2>6. Heads' = Heads
      BY <2>1, <2>2 DEF Heads, At
    <2>7. ChainsOK'
      BY <2>0, <2>5, <2>6, ChainsSame
    <2>8. HoldersOK'
      <3>1. \A u \in At(HoldPcs) : reg'[u].buf = reg[u].buf
        BY <2>1 DEF At
      <3>2. b \in mapped' \ Live' /\ mapped \subseteq mapped' /\ Live' \subseteq Live
        BY <2>4 DEF HoldersOK
      <3> QED  BY <3>1, <3>2, <2>2, <2>3, <2>4, HoldersGain
    <2>9. HeadsOK'
      BY <2>1, <2>2 DEF HeadsOK, At
    <2> QED  BY <2>7, <2>8, <2>9
  <1>4. ArcOK'
    <2>1. \A u \in Threads \ {t} : pc'[u] = pc[u] /\ reg'[u] = reg[u]
      BY DEF TypeOK
    <2>2. b \in Live /\ Live' = Live \ {b} /\ t \notin Bufs /\ b # POOL /\ b \notin Threads
      BY PoolAssumption DEF Live, TypeOK
    <2>3. At(RecordPcs)' = At(RecordPcs) /\ \A u \in At(RecordPcs) : reg'[u].buf = reg[u].buf /\ reg[u].buf # b
      BY <2>1, <2>2 DEF At, HoldersOK, TypeOK
    <2>4. ASSUME NEW c \in Bufs
          PROVE  c \in strong' <=> c \in Live' \/ \E u \in At(RecordPcs)' : reg'[u].buf = c
      <3>1. CASE c = b
        BY <2>2, <2>3, <3>1
      <3>2. CASE c # b
        <4>1. c # t
          BY PoolAssumption
        <4>2. c \in strong' <=> c \in strong
          BY <4>1, <3>2
        <4>3. c \in Live' <=> c \in Live
          BY <3>2, <2>2
        <4>4. (\E u \in At(RecordPcs)' : reg'[u].buf = c) <=> (\E u \in At(RecordPcs) : reg[u].buf = c)
          BY <2>3
        <4> QED  BY <4>2, <4>3, <4>4 DEF ArcOK
      <3> QED  BY <3>1, <3>2
    <2>5. b \in strong /\ POOL \in strong' <=> POOL \in strong
      BY <2>2, PoolAssumption DEF ArcOK
    <2> QED  BY <2>1, <2>2, <2>4, <2>5 DEF ArcOK, At, TypeOK
  <1> QED  BY <1>1, <1>2, <1>3, <1>4

\* record_release, first counter.
LEMMA UncountBytesInv ==
  ASSUME IInv, NEW t \in Threads, UncountBytes(t)
  PROVE  IInv'
  <1> USE DEF IInv, UncountBytes
  <1>1. TypeOK'
    <2>1. tstats' \in [Tenants -> TenantCounters]
      BY FetchType, PoolAssumption DEF TypeOK, TenantTypeOK, TenantCounters, ReleaseBytes
    <2>2. TenantTypeOK'
      BY <2>1 DEF TenantTypeOK
    <2> QED  BY <2>1, <2>2 DEF TypeOK, TenantTypeOK, Pcs
  <1>2. LocalsOK'
    BY DEF TypeOK, LocalsOK, At, Live
  <1>3. HoldersOK' /\ ChainsOK' /\ HeadsOK'
    BY QuietStep DEF TypeOK, Live
  <1>4. ArcOK'
    BY PoolAssumption DEF TypeOK, Handles, ArcOK, HoldersOK, At, Live
  <1> QED  BY <1>1, <1>2, <1>3, <1>4

\* record_release, second counter.
LEMMA UncountPagesInv ==
  ASSUME IInv, NEW t \in Threads, UncountPages(t)
  PROVE  IInv'
  <1> USE DEF IInv, UncountPages
  <1>1. TypeOK'
    <2>1. tstats' \in [Tenants -> TenantCounters]
      BY FetchType, PoolAssumption DEF TypeOK, TenantTypeOK, TenantCounters, ReleasePages
    <2>2. TenantTypeOK'
      BY <2>1 DEF TenantTypeOK
    <2> QED  BY <2>1, <2>2 DEF TypeOK, TenantTypeOK, Pcs
  <1>2. LocalsOK'
    BY DEF TypeOK, LocalsOK, At, Live
  <1>3. HoldersOK' /\ ChainsOK' /\ HeadsOK'
    BY QuietStep DEF TypeOK, Live
  <1>4. ArcOK'
    BY PoolAssumption DEF TypeOK, Handles, ArcOK, HoldersOK, At, Live
  <1> QED  BY <1>1, <1>2, <1>3, <1>4

\* push_return links its private buffer to the head it loaded.
LEMMA LoadHeadInv ==
  ASSUME IInv, NEW t \in Threads, LoadHead(t)
  PROVE  IInv'
  <1> USE DEF IInv, LoadHead
  <1>1. TypeOK'
    <2>1. reg' \in [Threads -> Regs]
      BY DEF TypeOK, Regs, Ptr
    <2>2. word' \in [Bufs -> Ptr \cup Data]
      BY DEF TypeOK, Ptr
    <2> QED  BY <2>1, <2>2 DEF TypeOK, TenantTypeOK, Pcs
  <1>2. LocalsOK'
    BY DEF TypeOK, LocalsOK, At, Live
  <1>3. HoldersOK' /\ ChainsOK' /\ HeadsOK'
    <2>0. NULL \notin Bufs /\ mapped \subseteq Bufs
      BY PoolAssumption DEF TypeOK
    <2>1. \A u \in Threads \ {t} : pc'[u] = pc[u] /\ reg'[u] = reg[u]
      BY DEF TypeOK
    <2>2. pc'[t] = "cas" /\ reg'[t].head = return_head /\ reg'[t].buf = reg[t].buf
      BY DEF TypeOK, Regs
    <2>3. At(HoldPcs)' = At(HoldPcs) /\ Held' = Held
      BY <2>1, <2>2, HeldSame
    <2>4. FreeBufs' = FreeBufs /\ reg[t].buf \in Held /\ reg[t].buf \in Bufs
      BY <2>0, <2>3 DEF FreeBufs, Live, Held, At, HoldersOK
    <2>5. Heads' = Heads
      BY <2>1, <2>2 DEF Heads, At
    <2>6. ChainsOK'
      BY <2>0, <2>4, <2>5, ChainsSame DEF FreeBufs, TypeOK
    <2>7. HeadsOK'
      BY <2>1, <2>2, <2>4 DEF HeadsOK, HoldersOK, At, TypeOK
    <2>8. HoldersOK'
      BY <2>1, <2>2, <2>3 DEF HoldersOK, At, Live
    <2> QED  BY <2>6, <2>7, <2>8
  <1>4. ArcOK'
    BY PoolAssumption DEF TypeOK, Handles, ArcOK, HoldersOK, At, Live
  <1> QED  BY <1>1, <1>2, <1>3, <1>4

\* The compare-exchange succeeds: the buffer changes from the thread to
\* the pool, in front of the chain it is linked to.
LEMMA CasOkInv ==
  ASSUME IInv, NEW t \in Threads, CasOk(t)
  PROVE  IInv'
  <1> USE DEF IInv, CasOk
  <1>1. TypeOK'
    <2>1. reg' \in [Threads -> Regs]
      BY DEF TypeOK, Regs, Ptr
    <2>2. return_head' \in Ptr
      BY DEF TypeOK, Regs
    <2> QED  BY <2>1, <2>2 DEF TypeOK, TenantTypeOK, Pcs
  <1>2. LocalsOK'
    BY DEF TypeOK, LocalsOK, At, Live
  <1>3. HoldersOK' /\ ChainsOK' /\ HeadsOK'
    <2>0. NULL \notin Bufs /\ mapped \subseteq Bufs
      BY PoolAssumption DEF TypeOK
    <2>1. \A u \in Threads \ {t} : pc'[u] = pc[u] /\ reg'[u] = reg[u]
      BY DEF TypeOK
    <2>2. At(HoldPcs)' = At(HoldPcs) \ {t} /\ Held' = Held \ {reg[t].buf}
      BY <2>1, HeldLose DEF TypeOK
    <2>3. reg[t].buf \in Held /\ reg[t].buf \in mapped \ Live /\ reg[t].buf \in Bufs
      BY <2>0 DEF HoldersOK, Held, At
    <2>4. FreeBufs' = FreeBufs \cup {reg[t].buf} /\ reg[t].buf \notin FreeBufs
      BY <2>2, <2>3 DEF FreeBufs, Live
    <2>5. At({"shared_drop"}) = {} /\ At({"shared_drop"})' = {}
      BY DEF ArcOK, At, TypeOK
    <2>6. Heads = {local_head, return_head} /\ Heads' = {local_head, reg[t].buf}
      BY <2>5 DEF Heads
    <2>7. word[reg[t].buf] = return_head
      BY DEF HeadsOK, At
    <2>8. ChainsOK'
      BY <2>0, <2>3, <2>4, <2>6, <2>7, ChainsLink DEF HeadsOK
    <2>9. HoldersOK'
      BY <2>1, <2>2 DEF HoldersOK, At, Live
    <2>10. HeadsOK'
      <3>1. local_head # reg[t].buf
        BY <2>0, <2>3, <2>4, <2>6 DEF ChainsOK
      <3> QED  BY <3>1, <2>1 DEF HeadsOK, At, TypeOK
    <2> QED  BY <2>8, <2>9, <2>10
  <1>4. ArcOK'
    BY PoolAssumption DEF TypeOK, Handles, ArcOK, HoldersOK, At, Live
  <1> QED  BY <1>1, <1>2, <1>3, <1>4

\* A failed compare-exchange changes nothing but the retry.
LEMMA CasFailInv ==
  ASSUME IInv, NEW t \in Threads, CasFail(t)
  PROVE  IInv'
  <1> USE DEF IInv, CasFail
  <1>1. TypeOK'
    <2>1. reg' \in [Threads -> Regs]
      BY DEF TypeOK, Regs, Ptr
    <2> QED  BY <2>1 DEF TypeOK, TenantTypeOK, Pcs
  <1>2. LocalsOK'
    BY DEF TypeOK, LocalsOK, At, Live
  <1>3. HoldersOK' /\ ChainsOK' /\ HeadsOK'
    BY QuietStep DEF TypeOK, Live
  <1>4. ArcOK'
    BY PoolAssumption DEF TypeOK, Handles, ArcOK, HoldersOK, At, Live
  <1> QED  BY <1>1, <1>2, <1>3, <1>4

\* push_return, pages_in_use.
LEMMA UncountInUseInv ==
  ASSUME IInv, NEW t \in Threads, UncountInUse(t)
  PROVE  IInv'
  <1> USE DEF IInv, UncountInUse
  <1>1. TypeOK'
    <2>1. pstats' \in PoolStats
      BY FetchType DEF TypeOK, PoolStats
    <2> QED  BY <2>1 DEF TypeOK, TenantTypeOK, Pcs
  <1>2. LocalsOK'
    BY DEF TypeOK, LocalsOK, At, Live
  <1>3. HoldersOK' /\ ChainsOK' /\ HeadsOK'
    BY QuietStep DEF TypeOK, Live
  <1>4. ArcOK'
    BY PoolAssumption DEF TypeOK, Handles, ArcOK, HoldersOK, At, Live
  <1> QED  BY <1>1, <1>2, <1>3, <1>4

\* push_return, free_pages.
LEMMA CountFreeInv ==
  ASSUME IInv, NEW t \in Threads, CountFree(t)
  PROVE  IInv'
  <1> USE DEF IInv, CountFree
  <1>1. TypeOK'
    <2>1. pstats' \in PoolStats
      BY FetchType DEF TypeOK, PoolStats
    <2> QED  BY <2>1 DEF TypeOK, TenantTypeOK, Pcs
  <1>2. LocalsOK'
    BY DEF TypeOK, LocalsOK, At, Live
  <1>3. HoldersOK' /\ ChainsOK' /\ HeadsOK'
    BY QuietStep DEF TypeOK, Live
  <1>4. ArcOK'
    BY PoolAssumption DEF TypeOK, Handles, ArcOK, HoldersOK, At, Live
  <1> QED  BY <1>1, <1>2, <1>3, <1>4

\* The dropped handle gives up its Arc<PoolShared>, perhaps the last one.
LEMMA DropPageArcInv ==
  ASSUME IInv, NEW t \in Threads, DropPageArc(t)
  PROVE  IInv'
  <1> USE DEF IInv, DropPageArc, DropArc
  <1>1. TypeOK'
    <2>1. reg' \in [Threads -> Regs]
      BY DEF TypeOK, Regs, Ptr
    <2> QED  BY <2>1 DEF TypeOK, TenantTypeOK, Pcs
  <1>2. LocalsOK'
    BY DEF TypeOK, LocalsOK, At, Live
  <1>3. HoldersOK' /\ ChainsOK' /\ HeadsOK'
    BY QuietStep DEF TypeOK, Live
  <1>4. ArcOK'
    BY PoolAssumption DEF TypeOK, Handles, ArcOK, HoldersOK, At, Live
  <1> QED  BY <1>1, <1>2, <1>3, <1>4

\* prewarm enters.
LEMMA PrewarmInv ==
  ASSUME IInv, NEW t \in Threads, NEW n \in 0 .. MaxPrewarm, Prewarm(t, n)
  PROVE  IInv'
  <1> USE DEF IInv, Prewarm, PoolFree
  <1>1. TypeOK'
    <2>1. n \in Nat
      BY PoolAssumption
    <2>2. reg' \in [Threads -> Regs]
      BY <2>1 DEF TypeOK, Regs
    <2> QED  BY <2>1, <2>2 DEF TypeOK, TenantTypeOK, Pcs
  <1>2. LocalsOK'
    BY DEF TypeOK, LocalsOK, At, Live
  <1>3. HoldersOK' /\ ChainsOK' /\ HeadsOK'
    BY QuietStep DEF TypeOK, Live
  <1>4. ArcOK'
    BY PoolAssumption DEF TypeOK, Handles, ArcOK, HoldersOK, At, Live
  <1> QED  BY <1>1, <1>2, <1>3, <1>4

\* prewarm puts a buffer from the source in front of the local list.
LEMMA PrewarmPageInv ==
  ASSUME IInv, NEW t \in Threads, NEW b \in Bufs, PrewarmPage(t, b)
  PROVE  IInv'
  <1> USE DEF IInv, PrewarmPage, SourceAllocate
  <1>1. TypeOK'
    <2>1. reg' \in [Threads -> Regs]
      BY DEF TypeOK, Regs, Ptr
    <2>2. word' \in [Bufs -> Ptr \cup Data] /\ mapped' \in SUBSET Bufs /\ local_head' \in Ptr
      BY DEF TypeOK, Ptr
    <2> QED  BY <2>1, <2>2 DEF TypeOK, TenantTypeOK, Pcs
  <1>2. LocalsOK'
    <2>1. \A u \in Threads \ {t} : pc'[u] = pc[u] /\ reg'[u] = reg[u]
      BY DEF TypeOK
    <2>2. pc'[t] = "prewarm" /\ TRUE
      BY DEF TypeOK, Regs
    <2> QED  BY <2>1, <2>2 DEF LocalsOK, At, Live
  <1>3. HoldersOK' /\ ChainsOK' /\ HeadsOK'
    <2>0. NULL \notin Bufs /\ mapped \subseteq Bufs
      BY PoolAssumption DEF TypeOK
    <2>1. \A u \in Threads \ {t} : pc'[u] = pc[u] /\ reg'[u] = reg[u]
      BY DEF TypeOK
    <2>2. pc'[t] = "prewarm" /\ Live' = Live
      BY DEF TypeOK, Live
    <2>3. At(HoldPcs)' = At(HoldPcs) /\ Held' = Held
      BY <2>1, <2>2, HeldSame
    <2>4. b \notin mapped /\ b \notin Held /\ b \notin Live
      BY DEF HoldersOK, Held
    <2>5. FreeBufs' = FreeBufs \cup {b} /\ b \notin FreeBufs
      BY <2>2, <2>3, <2>4 DEF FreeBufs
    <2>6. At({"shared_drop"}) = {} /\ At({"shared_drop"})' = {}
      BY DEF ArcOK, At, TypeOK
    <2>7. Heads = {local_head, return_head} /\ Heads' = {b, return_head}
      BY <2>6 DEF Heads
    <2>8. word'[b] = local_head /\ \A c \in Bufs \ {b} : word'[c] = word[c]
      BY DEF TypeOK
    <2>9. \A c \in FreeBufs : word'[c] = word[c]
      BY <2>0, <2>5, <2>8 DEF FreeBufs
    <2>10. ChainsOK'
      BY <2>0, <2>5, <2>7, <2>8, <2>9, ChainsLink DEF HeadsOK
    <2>11. HoldersOK'
      BY <2>1, <2>2, <2>3 DEF HoldersOK, At
    <2>12. HeadsOK'
      <3>1. return_head # b
        BY <2>0, <2>5, <2>7 DEF ChainsOK
      <3>2. \A u \in At({"cas"})' : u \in At({"cas"}) /\ reg'[u] = reg[u] /\ reg[u].buf \in Bufs \ {b}
        BY <2>0, <2>1, <2>2, <2>4 DEF At, HoldersOK
      <3> QED  BY <3>1, <3>2, <2>8 DEF HeadsOK
    <2> QED  BY <2>10, <2>11, <2>12
  <1>4. ArcOK'
    BY PoolAssumption DEF TypeOK, Handles, ArcOK, HoldersOK, At, Live
  <1> QED  BY <1>1, <1>2, <1>3, <1>4

\* A source that panics inside prewarm leaves the list well formed.
LEMMA PrewarmPanicsInv ==
  ASSUME IInv, NEW t \in Threads, PrewarmPanics(t)
  PROVE  IInv'
  <1> USE DEF IInv, PrewarmPanics
  <1>1. TypeOK'
    <2>1. reg' \in [Threads -> Regs]
      BY DEF TypeOK, Regs, Ptr
    <2> QED  BY <2>1 DEF TypeOK, TenantTypeOK, Pcs
  <1>2. LocalsOK'
    BY DEF TypeOK, LocalsOK, At, Live
  <1>3. HoldersOK' /\ ChainsOK' /\ HeadsOK'
    BY QuietStep DEF TypeOK, Live
  <1>4. ArcOK'
    BY PoolAssumption DEF TypeOK, Handles, ArcOK, HoldersOK, At, Live
  <1> QED  BY <1>1, <1>2, <1>3, <1>4

\* The prewarm loop ends.
LEMMA PrewarmDoneInv ==
  ASSUME IInv, NEW t \in Threads, PrewarmDone(t)
  PROVE  IInv'
  <1> USE DEF IInv, PrewarmDone
  <1>1. TypeOK'
    BY DEF TypeOK, TenantTypeOK, Pcs
  <1>2. LocalsOK'
    BY DEF TypeOK, LocalsOK, At, Live
  <1>3. HoldersOK' /\ ChainsOK' /\ HeadsOK'
    BY QuietStep DEF TypeOK, Live
  <1>4. ArcOK'
    BY PoolAssumption DEF TypeOK, Handles, ArcOK, HoldersOK, At, Live
  <1> QED  BY <1>1, <1>2, <1>3, <1>4

\* prewarm, allocations_from_heap.
LEMMA PrewarmHeapInv ==
  ASSUME IInv, NEW t \in Threads, PrewarmHeap(t)
  PROVE  IInv'
  <1> USE DEF IInv, PrewarmHeap
  <1>1. TypeOK'
    <2>1. reg[t].n \in Nat
      BY DEF TypeOK, Regs
    <2>2. pstats' \in PoolStats
      BY <2>1, FetchType DEF TypeOK, PoolStats
    <2> QED  BY <2>1, <2>2 DEF TypeOK, TenantTypeOK, Pcs
  <1>2. LocalsOK'
    BY DEF TypeOK, LocalsOK, At, Live
  <1>3. HoldersOK' /\ ChainsOK' /\ HeadsOK'
    BY QuietStep DEF TypeOK, Live
  <1>4. ArcOK'
    BY PoolAssumption DEF TypeOK, Handles, ArcOK, HoldersOK, At, Live
  <1> QED  BY <1>1, <1>2, <1>3, <1>4

\* prewarm, free_pages.
LEMMA PrewarmFreeInv ==
  ASSUME IInv, NEW t \in Threads, PrewarmFree(t)
  PROVE  IInv'
  <1> USE DEF IInv, PrewarmFree
  <1>1. TypeOK'
    <2>1. reg[t].n \in Nat
      BY DEF TypeOK, Regs
    <2>2. pstats' \in PoolStats
      BY <2>1, FetchType DEF TypeOK, PoolStats
    <2> QED  BY <2>1, <2>2 DEF TypeOK, TenantTypeOK, Pcs
  <1>2. LocalsOK'
    BY DEF TypeOK, LocalsOK, At, Live
  <1>3. HoldersOK' /\ ChainsOK' /\ HeadsOK'
    BY QuietStep DEF TypeOK, Live
  <1>4. ArcOK'
    BY PoolAssumption DEF TypeOK, Handles, ArcOK, HoldersOK, At, Live
  <1> QED  BY <1>1, <1>2, <1>3, <1>4

\* prewarm, prewarmed_pages.
LEMMA PrewarmCountInv ==
  ASSUME IInv, NEW t \in Threads, PrewarmCount(t)
  PROVE  IInv'
  <1> USE DEF IInv, PrewarmCount
  <1>1. TypeOK'
    <2>1. reg[t].n \in Nat
      BY DEF TypeOK, Regs
    <2>2. pstats' \in PoolStats
      BY <2>1, FetchType DEF TypeOK, PoolStats
    <2>3. reg' \in [Threads -> Regs]
      BY DEF TypeOK, Regs, Ptr
    <2> QED  BY <2>1, <2>2, <2>3 DEF TypeOK, TenantTypeOK, Pcs
  <1>2. LocalsOK'
    BY DEF TypeOK, LocalsOK, At, Live
  <1>3. HoldersOK' /\ ChainsOK' /\ HeadsOK'
    BY QuietStep DEF TypeOK, Live
  <1>4. ArcOK'
    BY PoolAssumption DEF TypeOK, Handles, ArcOK, HoldersOK, At, Live
  <1> QED  BY <1>1, <1>2, <1>3, <1>4

\* PagePool::drop enters.
LEMMA DropPoolInv ==
  ASSUME IInv, NEW t \in Threads, DropPool(t)
  PROVE  IInv'
  <1> USE DEF IInv, DropPool, PoolFree
  <1>1. TypeOK'
    BY DEF TypeOK, TenantTypeOK, Pcs
  <1>2. LocalsOK'
    BY DEF TypeOK, LocalsOK, At, Live
  <1>3. HoldersOK' /\ ChainsOK' /\ HeadsOK'
    BY QuietStep DEF TypeOK, Live
  <1>4. ArcOK'
    BY PoolAssumption DEF TypeOK, Handles, ArcOK, HoldersOK, At, Live
  <1> QED  BY <1>1, <1>2, <1>3, <1>4

\* PagePool::drop releases the head of the local list.
LEMMA ReleaseLocalInv ==
  ASSUME IInv, NEW t \in Threads, ReleaseLocal(t)
  PROVE  IInv'
  <1> USE DEF IInv, ReleaseLocal, SourceRelease
  <1>1. TypeOK'
    <2>1. local_head' \in Ptr
      BY DEF TypeOK, ChainsOK, Heads, FreeBufs, Ptr
    <2> QED  BY <2>1 DEF TypeOK, TenantTypeOK, Pcs
  <1>2. LocalsOK'
    BY DEF TypeOK, LocalsOK, At, Live
  <1>3. HoldersOK' /\ ChainsOK' /\ HeadsOK'
    <2>0. NULL \notin Bufs /\ mapped \subseteq Bufs
      BY PoolAssumption DEF TypeOK
    <2>1. \A u \in Threads \ {t} : pc'[u] = pc[u] /\ reg'[u] = reg[u]
      BY DEF TypeOK
    <2>2. local_head \in FreeBufs /\ local_head \in Heads
      BY <2>0 DEF ChainsOK, Heads
    <2>3. At({"shared_drop"}) = {} /\ At({"shared_drop"})' = {}
      BY DEF ArcOK, At, TypeOK
    <2>4. At(HoldPcs)' = At(HoldPcs) /\ Held' = Held /\ Live' = Live
      BY HeldSame DEF TypeOK, Live
    <2>6. FreeBufs' = FreeBufs \ {local_head}
      BY <2>4 DEF FreeBufs
    <2>7. Heads = {local_head, return_head} /\ Heads' = {word[local_head], return_head}
      BY <2>3 DEF Heads
    <2>8. ChainsOK'
      BY <2>0, <2>2, <2>6, <2>7, ChainsUnlink DEF HeadsOK
    <2>9. HoldersOK'
      BY <2>2, <2>4 DEF HoldersOK, At, FreeBufs, Held
    <2>10. HeadsOK'
      <3>1. word[local_head] = return_head => return_head = NULL
        BY <2>2, <2>7 DEF ChainsOK
      <3> QED  BY <3>1, <2>1 DEF HeadsOK, At, TypeOK
    <2> QED  BY <2>8, <2>9, <2>10
  <1>4. ArcOK'
    BY PoolAssumption DEF TypeOK, Handles, ArcOK, HoldersOK, At, Live
  <1> QED  BY <1>1, <1>2, <1>3, <1>4

\* The local list is empty when the pool gives up its Arc<PoolShared>.
LEMMA DropPoolArcInv ==
  ASSUME IInv, NEW t \in Threads, DropPoolArc(t)
  PROVE  IInv'
  <1> USE DEF IInv, DropPoolArc, DropArc
  <1>1. TypeOK'
    <2>1. reg' \in [Threads -> Regs]
      BY DEF TypeOK, Regs, Ptr
    <2> QED  BY <2>1 DEF TypeOK, TenantTypeOK, Pcs
  <1>2. LocalsOK'
    BY DEF TypeOK, LocalsOK, At, Live
  <1>3. HoldersOK' /\ ChainsOK' /\ HeadsOK'
    BY QuietStep DEF TypeOK, Live
  <1>4. ArcOK'
    BY PoolAssumption DEF TypeOK, Handles, ArcOK, HoldersOK, At, Live
  <1> QED  BY <1>1, <1>2, <1>3, <1>4

\* PoolShared::drop takes the whole return queue.
LEMMA SwapReturnQueueInv ==
  ASSUME IInv, NEW t \in Threads, SwapReturnQueue(t)
  PROVE  IInv'
  <1> USE DEF IInv, SwapReturnQueue
  <1>1. TypeOK'
    <2>1. reg' \in [Threads -> Regs]
      BY DEF TypeOK, Regs, Ptr
    <2>2. return_head' \in Ptr
      BY DEF Ptr
    <2> QED  BY <2>1, <2>2 DEF TypeOK, TenantTypeOK, Pcs
  <1>2. LocalsOK'
    BY DEF TypeOK, LocalsOK, At, Live
  <1>3. HoldersOK' /\ ChainsOK' /\ HeadsOK'
    <2>0. NULL \notin Bufs /\ mapped \subseteq Bufs
      BY PoolAssumption DEF TypeOK
    <2>1. \A u \in Threads \ {t} : pc'[u] = pc[u] /\ reg'[u] = reg[u]
      BY DEF TypeOK
    <2>2. At(HoldPcs)' = At(HoldPcs) /\ Held' = Held /\ Live' = Live
      BY HeldSame DEF TypeOK, Live
    <2>3. FreeBufs' = FreeBufs
      BY <2>2 DEF FreeBufs
    <2>4. At({"shared_drop"}) = {} /\ At({"shared_drop"})' = {t} /\ local_head = NULL
      BY <2>1 DEF ArcOK, At, TypeOK
    <2>5. reg'[t].head = return_head
      BY DEF TypeOK, Regs
    <2>6. Heads' \cup {NULL} = Heads \cup {NULL}
      BY <2>4, <2>5 DEF Heads
    <2>7. ChainsOK'
      BY <2>0, <2>3, <2>6, ChainsSame
    <2> QED  BY <2>1, <2>2, <2>4, <2>7 DEF HoldersOK, HeadsOK, At, TypeOK
  <1>4. ArcOK'
    BY PoolAssumption DEF TypeOK, Handles, ArcOK, HoldersOK, At, Live
  <1> QED  BY <1>1, <1>2, <1>3, <1>4

\* PoolShared::drop releases the head of the chain it took.
LEMMA ReleaseReturnedInv ==
  ASSUME IInv, NEW t \in Threads, ReleaseReturned(t)
  PROVE  IInv'
  <1> USE DEF IInv, ReleaseReturned, SourceRelease
  <1>1. TypeOK'
    <2>1. reg[t].head \in FreeBufs
      BY DEF ChainsOK, Heads, At
    <2>2. word[reg[t].head] \in Ptr
      BY <2>1 DEF TypeOK, ChainsOK, FreeBufs, Ptr
    <2>3. reg' \in [Threads -> Regs]
      BY <2>2 DEF TypeOK, Regs
    <2> QED  BY <2>1, <2>2, <2>3 DEF TypeOK, TenantTypeOK, Pcs
  <1>2. LocalsOK'
    BY DEF TypeOK, LocalsOK, At, Live
  <1>3. HoldersOK' /\ ChainsOK' /\ HeadsOK'
    <2>0. NULL \notin Bufs /\ mapped \subseteq Bufs
      BY PoolAssumption DEF TypeOK
    <2>1. \A u \in Threads \ {t} : pc'[u] = pc[u] /\ reg'[u] = reg[u]
      BY DEF TypeOK
    <2>2. At({"shared_drop"}) = {t} /\ local_head = NULL /\ return_head = NULL
      BY DEF ArcOK, At
    <2>3. reg[t].head \in FreeBufs /\ reg[t].head \in Heads
      BY <2>2 DEF ChainsOK, Heads
    <2>4. At(HoldPcs)' = At(HoldPcs) /\ Held' = Held /\ Live' = Live
      BY <2>1, HeldSame DEF TypeOK, Live
    <2>5. FreeBufs' = FreeBufs \ {reg[t].head}
      BY <2>4 DEF FreeBufs
    <2>6. At({"shared_drop"})' = {t} /\ reg'[t].head = word[reg[t].head]
      BY <2>2 DEF At, TypeOK, Regs
    <2>7. Heads = {reg[t].head, NULL} /\ Heads' = {word[reg[t].head], NULL}
      BY <2>2, <2>6 DEF Heads
    <2>8. ChainsOK'
      BY <2>0, <2>3, <2>5, <2>7, ChainsUnlink
    <2>9. HoldersOK'
      <3>1. \A u \in At(HoldPcs) : reg'[u].buf = reg[u].buf /\ reg[u].buf # reg[t].head
        BY <2>1, <2>3 DEF At, FreeBufs, Held
      <3> QED  BY <3>1, <2>3, <2>4 DEF HoldersOK, FreeBufs
    <2>10. HeadsOK'
      BY <2>1, <2>2 DEF HeadsOK, At, TypeOK
    <2> QED  BY <2>8, <2>9, <2>10
  <1>4. ArcOK'
    BY PoolAssumption DEF TypeOK, Handles, ArcOK, HoldersOK, At, Live
  <1> QED  BY <1>1, <1>2, <1>3, <1>4

\* PoolShared::drop is over.
LEMMA SharedDroppedInv ==
  ASSUME IInv, NEW t \in Threads, SharedDropped(t)
  PROVE  IInv'
  <1> USE DEF IInv, SharedDropped
  <1>1. TypeOK'
    BY DEF TypeOK, TenantTypeOK, Pcs
  <1>2. LocalsOK'
    BY DEF TypeOK, LocalsOK, At, Live
  <1>3. HoldersOK' /\ ChainsOK' /\ HeadsOK'
    <2>0. NULL \notin Bufs /\ mapped \subseteq Bufs
      BY PoolAssumption DEF TypeOK
    <2>1. Held' = Held /\ At(HoldPcs)' = At(HoldPcs) /\ Live' = Live
      BY HeldSame DEF TypeOK, Live
    <2>2. FreeBufs' = FreeBufs
      BY <2>1 DEF FreeBufs
    <2>3. At({"shared_drop"}) = {t} /\ At({"shared_drop"})' = {}
      BY DEF ArcOK, At, TypeOK
    <2>4. Heads' \cup {NULL} = Heads \cup {NULL}
      BY <2>3 DEF Heads
    <2>5. ChainsOK'
      BY <2>0, <2>2, <2>4, ChainsSame
    <2> QED  BY <2>1, <2>5 DEF HoldersOK, HeadsOK, At, TypeOK
  <1>4. ArcOK'
    BY PoolAssumption DEF TypeOK, Handles, ArcOK, HoldersOK, At, Live
  <1> QED  BY <1>1, <1>2, <1>3, <1>4

\* A scraper clones the Arc<PoolShared> of an idle pool.
LEMMA CloneSharedInv ==
  ASSUME IInv, NEW s \in Scrapers, CloneShared(s)
  PROVE  IInv'
  <1> USE DEF IInv, CloneShared, PoolFree
  <1>1. TypeOK'
    <2>1. strong' \in SUBSET Handles
      BY DEF TypeOK, Handles
    <2> QED  BY <2>1 DEF TypeOK, TenantTypeOK, Pcs
  <1>2. LocalsOK'
    BY DEF TypeOK, LocalsOK, At, Live
  <1>3. HoldersOK' /\ ChainsOK' /\ HeadsOK'
    BY QuietStep DEF Live
  <1>4. ArcOK'
    BY PoolAssumption DEF TypeOK, Handles, ArcOK, HoldersOK, At, Live
  <1> QED  BY <1>1, <1>2, <1>3, <1>4

\* A scraper drops its Arc<PoolShared>, perhaps the last one.
LEMMA DropSharedInv ==
  ASSUME IInv, NEW t \in Threads, NEW s \in Scrapers, DropShared(t, s)
  PROVE  IInv'
  <1> USE DEF IInv, DropShared, DropArc
  <1>1. TypeOK'
    <2>1. reg' \in [Threads -> Regs]
      BY DEF TypeOK, Regs, Ptr
    <2> QED  BY <2>1 DEF TypeOK, TenantTypeOK, Pcs
  <1>2. LocalsOK'
    BY DEF TypeOK, LocalsOK, At, Live
  <1>3. HoldersOK' /\ ChainsOK' /\ HeadsOK'
    BY QuietStep DEF TypeOK, Live
  <1>4. ArcOK'
    BY PoolAssumption DEF TypeOK, Handles, ArcOK, HoldersOK, At, Live
  <1> QED  BY <1>1, <1>2, <1>3, <1>4

-----------------------------------------------------------------------------
(* The invariant is inductive.                                             *)

\* A new pool, PagePool::with_source, satisfies the invariant.
LEMMA InitInv == Init => IInv
  <1> SUFFICES ASSUME Init PROVE IInv
    OBVIOUS
  <1>0. 0 \in Counter
    BY U64Assumption DEF Counter
  <1>1. Live = {} /\ Held = {} /\ FreeBufs = {} /\ Heads = {NULL}
    BY DEF Init, Live, Held, At, FreeBufs, Heads
  <1>2. TypeOK
    BY <1>0 DEF Init, TypeOK, Pcs, Regs, Ptr, PageStates, PoolStats, Handles,
                TenantInit, TenantTypeOK, TenantCounters
  <1>3. LocalsOK /\ HoldersOK /\ HeadsOK
    BY <1>1 DEF Init, LocalsOK, HoldersOK, HeadsOK, At
  <1>4. ChainsOK
    BY <1>1 DEF ChainsOK
  <1>5. ArcOK
    BY <1>1, PoolAssumption DEF Init, ArcOK, At
  <1> QED  BY <1>2, <1>3, <1>4, <1>5 DEF IInv

\* Every step of every thread, of user code and of a scraper preserves it.
LEMMA NextInv == IInv /\ [Next]_vars => IInv'
  <1> SUFFICES ASSUME IInv, [Next]_vars PROVE IInv'
    OBVIOUS
  <1>1. ASSUME NEW t \in Threads, AllocateStep(t) PROVE IInv'
    BY <1>1, PopLocalInv, DrainReturnQueueInv, CountDrainInv, CountFreshInv,
       AllocateFreshInv, AllocatePanicsInv, CountInUseInv, CountTotalInv,
       CountPagesInv, CountBytesInv, RaisePeakInv, KeepPeakInv,
       WritePeakInv DEF AllocateStep
  <1>2. ASSUME NEW t \in Threads, DropPageStep(t) PROVE IInv'
    BY <1>2, UncountBytesInv, UncountPagesInv, LoadHeadInv, CasOkInv, CasFailInv,
       UncountInUseInv, CountFreeInv, DropPageArcInv DEF DropPageStep
  <1>3. ASSUME NEW t \in Threads, PrewarmStep(t) PROVE IInv'
    BY <1>3, PrewarmPageInv, PrewarmPanicsInv, PrewarmDoneInv, PrewarmHeapInv,
       PrewarmFreeInv, PrewarmCountInv DEF PrewarmStep
  <1>4. ASSUME NEW t \in Threads, ShutdownStep(t) PROVE IInv'
    BY <1>4, ReleaseLocalInv, DropPoolArcInv, SwapReturnQueueInv,
       ReleaseReturnedInv, SharedDroppedInv DEF ShutdownStep
  <1>5. ASSUME NEW t \in Threads, Call(t) PROVE IInv'
    BY <1>5, AllocateInv, PrewarmInv, DropPageInv, DropSharedInv, DropPoolInv DEF Call
  <1>6. ASSUME NEW b \in Bufs, UserStep(b) PROVE IInv'
    BY <1>6, WriteInv, SealInv, ClonePageInv, DropCloneInv DEF UserStep
  <1>7. ASSUME NEW s \in Scrapers, CloneShared(s) PROVE IInv'
    BY <1>7, CloneSharedInv
  <1>8. CASE UNCHANGED vars
    <2> USE <1>8 DEF vars
    <2>1. TypeOK' /\ LocalsOK' /\ ArcOK'
      BY DEF IInv, TypeOK, TenantTypeOK, LocalsOK, ArcOK, At, Live
    <2>2. HoldersOK' /\ ChainsOK' /\ HeadsOK'
      BY QuietStep DEF Live
    <2> QED  BY <2>1, <2>2 DEF IInv
  <1> QED
    BY <1>1, <1>2, <1>3, <1>4, <1>5, <1>6, <1>7, <1>8 DEF Next, Step, Finished

\* IInv holds in every state a pool can reach.
THEOREM InvariantHolds == Spec => []IInv
  BY InitInv, NextInv, PTL DEF Spec

-----------------------------------------------------------------------------
(* What the invariant gives: safety and action properties.                 *)

\* Every variable keeps its type; in particular the pool never reads user
\* data from a buffer as a list pointer (pop_local, both drop walks).
THEOREM TypeCorrect == Spec => []TypeOK
  BY InvariantHolds, PTL DEF IInv

\* Every buffer has exactly one owner, in any interleaving of allocate,
\* prewarm, page drops on any thread, and shutdown.
THEOREM OwnershipSafe == Spec => []ExclusiveOwnership
  <1>1. IInv => ExclusiveOwnership
    BY DEF IInv, HoldersOK, ChainsOK, HeadsOK, Heads, ExclusiveOwnership
  <1> QED  BY <1>1, InvariantHolds, PTL

\* source.release is only called with a buffer of this source that is not
\* released yet and that nobody uses (PagePool::drop, PoolShared::drop).
THEOREM ReleaseSafe == Spec => []ReleaseContract
  <1>1. IInv => ReleaseContract
    BY DEF IInv, ChainsOK, Heads, ReleaseContract
  <1> QED  BY <1>1, InvariantHolds, PTL

\* No thread is inside pool code and no page is alive once the last
\* Arc<PoolShared> is gone.
THEOREM SharedOutlivesUsers == Spec => []NoUseAfterFree
  <1>1. ASSUME IInv PROVE NoUseAfterFree
    <2>1. ASSUME strong = {} PROVE Live = {} /\ At(Pcs \ (SharedDropPcs \cup {"idle"})) = {}
      <3>1. Live = {}
        BY <1>1, <2>1 DEF IInv, ArcOK, Live
      <3>2. \A t \in Threads : pc[t] \notin DropPcs /\ pc[t] \notin PoolPcs
        BY <1>1, <2>1 DEF IInv, ArcOK, At
      <3> QED  BY <3>1, <3>2 DEF At, Pcs
    <2> QED  BY <1>1, <2>1 DEF IInv, ArcOK, NoUseAfterFree
  <1> QED  BY <1>1, InvariantHolds, PTL

\* When the last handle is gone and its drop is over, no buffer is left.
THEOREM NothingLeaks == Spec => []NoLeak
  <1>1. ASSUME IInv, Freed PROVE mapped = {}
    <2>1. strong = {} /\ At(SharedDropPcs) = {}
      BY <1>1 DEF Freed
    <2>2. Live = {}
      BY <1>1, <2>1 DEF IInv, ArcOK, Live
    <2>3. At(HoldPcs) = {}
      BY <1>1, <2>1 DEF IInv, ArcOK, At, HoldPcs, PoolPcs, DropPcs
    <2>4. FreeBufs = mapped
      BY <2>2, <2>3 DEF FreeBufs, Held
    <2>5. Heads = {NULL}
      <3>1. At({"shared_drop"}) = {} /\ At({"shared_swap"}) = {}
        BY <2>1 DEF At, SharedDropPcs
      <3>2. local_head = NULL /\ return_head = NULL
        BY <1>1, <2>1, <3>1 DEF IInv, ArcOK
      <3> QED  BY <3>1, <3>2 DEF Heads
    <2>6. NULL \notin mapped
      BY <1>1, PoolAssumption DEF IInv, TypeOK
    <2> QED  BY <1>1, <2>4, <2>5, <2>6 DEF IInv, ChainsOK
  <1> QED  BY <1>1, InvariantHolds, PTL DEF NoLeak

\* allocate calls the source only at a moment when no buffer is free.
THEOREM RecyclesFirst == Spec => RecycleBeforeGrow
  <1>1. ASSUME IInv, Next, NEW t \in Threads, pc[t] = "pop_local", pc'[t] = "fresh"
        PROVE  FreeBufs = {}
    <2>1. local_head = NULL /\ return_head = NULL
      <3> USE DEF IInv, TypeOK, Transition, DropArc, PoolFree
      <3>1. ASSUME NEW u \in Threads, AllocateStep(u) PROVE local_head = NULL /\ return_head = NULL
        BY <1>1, <3>1 DEF AllocateStep, PopLocal, DrainReturnQueue, CountDrain, CountFresh,
           AllocateFresh, AllocatePanics, CountInUse, CountTotal, CountPages, CountBytes,
           RaisePeak, KeepPeak, WritePeak
      <3>2. ASSUME NEW u \in Threads, DropPageStep(u) PROVE FALSE
        BY <1>1, <3>2 DEF DropPageStep, UncountBytes, UncountPages, LoadHead, CasOk, CasFail,
           UncountInUse, CountFree, DropPageArc
      <3>3. ASSUME NEW u \in Threads, PrewarmStep(u) PROVE FALSE
        BY <1>1, <3>3 DEF PrewarmStep, PrewarmPage, PrewarmPanics, PrewarmDone, PrewarmHeap,
           PrewarmFree, PrewarmCount
      <3>4. ASSUME NEW u \in Threads, ShutdownStep(u) PROVE FALSE
        BY <1>1, <3>4 DEF ShutdownStep, ReleaseLocal, DropPoolArc, SwapReturnQueue,
           ReleaseReturned, SharedDropped
      <3>5. ASSUME NEW u \in Threads, Call(u) PROVE FALSE
        BY <1>1, <3>5 DEF Call, Allocate, Prewarm, DropPage, DropShared, DropPool
      <3>6. ASSUME NEW b \in Bufs, UserStep(b) PROVE FALSE
        BY <1>1, <3>6 DEF UserStep, Write, Seal, ClonePage, DropClone
      <3>7. ASSUME NEW s \in Scrapers, CloneShared(s) PROVE FALSE
        BY <1>1, <3>7 DEF CloneShared
      <3> QED
        BY <1>1, <3>1, <3>2, <3>3, <3>4, <3>5, <3>6, <3>7 DEF Next, Step, Finished, vars
    <2>2. At({"shared_drop"}) = {}
      BY <1>1 DEF IInv, ArcOK, At, SharedDropPcs, PoolPcs, AcquirePcs
    <2>3. Heads = {NULL} /\ NULL \notin FreeBufs
      BY <1>1, <2>1, <2>2, PoolAssumption DEF Heads, FreeBufs, IInv, TypeOK
    <2> QED  BY <1>1, <2>3 DEF IInv, ChainsOK
  <1>2. IInv /\ [Next]_vars => [RecycleStep]_vars
    BY <1>1 DEF RecycleStep
  <1> QED  BY <1>2, InvariantHolds, PTL DEF RecycleBeforeGrow, Spec

\* No step changes the contents of a sealed page or releases its buffer.
THEOREM SealedSafe == Spec => SealedImmutable
  <1>1. ASSUME IInv, IInv', Next, NEW b \in Bufs,
               page[b].st = "sealed", page'[b].st = "sealed"
        PROVE  word'[b] = word[b] /\ b \in mapped'
    <2>1. b \in mapped' /\ b \in mapped /\ b \in Live
      BY <1>1 DEF IInv, HoldersOK, Live
    <2>2. word'[b] = word[b]
      <3> USE DEF IInv, TypeOK, lists
      <3>1. ASSUME NEW u \in Threads, AllocateStep(u) PROVE word'[b] = word[b]
        BY <1>1, <2>1, <3>1 DEF AllocateStep, PopLocal, DrainReturnQueue, CountDrain, CountFresh,
           AllocateFresh, SourceAllocate, AllocatePanics, CountInUse, CountTotal, CountPages,
           CountBytes, RaisePeak, KeepPeak, WritePeak
      <3>2. ASSUME NEW u \in Threads, DropPageStep(u) PROVE word'[b] = word[b]
        <4>1. CASE LoadHead(u)
          BY <1>1, <2>1, <4>1 DEF LoadHead, Transition, HoldersOK, At, HoldPcs, PushPcs
        <4> QED
          BY <3>2, <4>1 DEF DropPageStep, UncountBytes, UncountPages, CasOk, CasFail,
             UncountInUse, CountFree, DropPageArc
      <3>3. ASSUME NEW u \in Threads, PrewarmStep(u) PROVE word'[b] = word[b]
        BY <1>1, <2>1, <3>3 DEF PrewarmStep, PrewarmPage, SourceAllocate, PrewarmPanics,
           PrewarmDone, PrewarmHeap, PrewarmFree, PrewarmCount
      <3>4. ASSUME NEW u \in Threads, ShutdownStep(u) PROVE word'[b] = word[b]
        BY <3>4 DEF ShutdownStep, ReleaseLocal, DropPoolArc, SwapReturnQueue,
           ReleaseReturned, SharedDropped
      <3>5. ASSUME NEW u \in Threads, Call(u) PROVE word'[b] = word[b]
        BY <3>5 DEF Call, Allocate, Prewarm, DropPage, DropShared, DropPool
      <3>6. ASSUME NEW c \in Bufs, UserStep(c) PROVE word'[b] = word[b]
        BY <1>1, <3>6 DEF UserStep, Write, Seal, ClonePage, DropClone
      <3>7. ASSUME NEW s \in Scrapers, CloneShared(s) PROVE word'[b] = word[b]
        BY <3>7 DEF CloneShared
      <3> QED
        BY <1>1, <3>1, <3>2, <3>3, <3>4, <3>5, <3>6, <3>7 DEF Next, Step, Finished, vars
    <2> QED  BY <2>1, <2>2
  <1>2. IInv /\ IInv' /\ [Next]_vars => [SealedStep]_vars
    BY <1>1 DEF SealedStep
  <1> QED  BY <1>2, InvariantHolds, PTL DEF SealedImmutable, Spec

-----------------------------------------------------------------------------
(* PagePool implements PageLedger.                                         *)


\* A step that moves no buffer in or out of the pool, and leaves it open or
\* closed, is no step of the ledger.
LEMMA LedgerQuiet ==
  ASSUME mapped' = mapped, FreeBufs' = FreeBufs, PoolOpen' <=> PoolOpen
  PROVE  UNCHANGED Ledger!ledger
  BY DEF Ledger!ledger

\* One buffer changes hands: where it was and where it is now decide which
\* step of the ledger that is.
LEMMA LedgerMove ==
  ASSUME NEW b \in Bufs, PoolOpen' <=> PoolOpen,
         \A c \in Bufs \ {b} : /\ c \in mapped' <=> c \in mapped
                               /\ c \in FreeBufs' <=> c \in FreeBufs,
         NEW from, NEW to,
         from = IF b \notin mapped THEN "source" ELSE IF b \in FreeBufs THEN "pool" ELSE "user",
         to = IF b \notin mapped' THEN "source" ELSE IF b \in FreeBufs' THEN "pool" ELSE "user"
  PROVE  Ledger!Move(b, from, to)
  BY DEF Ledger!Move

\* A thread inside an operation on the pool finds it open, unless it is the one
\* that drops it.
LEMMA OpenInside ==
  ASSUME IInv, NEW t \in Threads, pc[t] \in PoolPcs \ {"pool_drop"}
  PROVE  PoolOpen
  BY DEF IInv, ArcOK, PoolOpen, At

\* Most steps move no buffer.
LEMMA QuietImplements ==
  ASSUME IInv, UNCHANGED mapped, Live' = Live, PoolOpen' <=> PoolOpen,
         \A t \in Threads :
           /\ pc'[t] \in HoldPcs <=> pc[t] \in HoldPcs
           /\ pc[t] \in HoldPcs => reg'[t].buf = reg[t].buf
  PROVE  UNCHANGED Ledger!ledger
  <1>1. Held' = Held
    BY HeldSame
  <1>2. FreeBufs' = FreeBufs
    BY <1>1 DEF FreeBufs
  <1> QED  BY <1>2, LedgerQuiet

\* allocate: Grant when a buffer is popped, Obtain when the source gives one.
LEMMA AllocateImplements ==
  ASSUME IInv, NEW t \in Threads, AllocateStep(t)
  PROVE  [Ledger!LedgerNext]_(Ledger!ledger)
  <1> USE DEF IInv, TypeOK, Regs
  <1>0. /\ NULL \notin Bufs /\ mapped \subseteq Bufs
        /\ \A u \in Threads \ {t} : pc'[u] = pc[u] /\ reg'[u] = reg[u]
        /\ pc[t] \in PoolPcs \ {"pool_drop"} /\ pc'[t] # "pool_drop"
        /\ POOL \in strong' <=> POOL \in strong
    BY PoolAssumption
       DEF AllocateStep, PopLocal, DrainReturnQueue, CountDrain, CountFresh, AllocateFresh,
           AllocatePanics, CountInUse, CountTotal, CountPages, CountBytes, RaisePeak,
           KeepPeak, WritePeak, GiveBuilder, HoldersOK, At
  <1>1. PoolOpen /\ PoolOpen'
    BY <1>0, OpenInside DEF PoolOpen, At
  <1>2. CASE PopLocal(t)
    <2>1. local_head \in FreeBufs
      BY <1>0, <1>2 DEF PopLocal, ChainsOK, Heads
    <2>2. Held' = Held \cup {local_head}
      BY <1>0, <1>2, HeldGain DEF PopLocal
    <2>3. FreeBufs' = FreeBufs \ {local_head} /\ mapped' = mapped
      BY <1>2, <2>2 DEF PopLocal, FreeBufs, Live
    <2>4. Ledger!Move(local_head, "pool", "user")
      BY <1>0, <1>1, <2>1, <2>3, LedgerMove DEF FreeBufs
    <2> QED  BY <1>0, <1>1, <2>1, <2>4 DEF Ledger!LedgerNext, Ledger!Grant, FreeBufs
  <1>3. ASSUME NEW b \in Bufs, AllocateFresh(t, b) PROVE Ledger!LedgerNext
    <2>1. Held' = Held \cup {b}
      BY <1>0, <1>3, HeldGain DEF AllocateFresh
    <2>2. b \notin mapped /\ mapped' = mapped \cup {b} /\ Live' = Live
      BY <1>3 DEF AllocateFresh, SourceAllocate, Live
    <2>3. FreeBufs' = FreeBufs
      BY <2>1, <2>2 DEF FreeBufs
    <2>4. Ledger!Move(b, "source", "user")
      BY <1>1, <2>2, <2>3, LedgerMove DEF FreeBufs
    <2> QED  BY <1>1, <2>4 DEF Ledger!LedgerNext, Ledger!Obtain
  <1>4. CASE KeepPeak(t) \/ WritePeak(t)
    <2>1. reg[t].buf \in Bufs /\ reg[t].buf \in Held /\ reg[t].buf \notin Live
      BY <1>0, <1>4 DEF HoldersOK, Held, At, KeepPeak, WritePeak
    <2>2. Live' = Live \cup {reg[t].buf} /\ mapped' = mapped
      BY <1>4, <2>1 DEF KeepPeak, WritePeak, GiveBuilder, Live
    <2>3. Held' = Held \ {reg[t].buf}
      BY <1>0, <1>4, HeldLose DEF KeepPeak, WritePeak
    <2>4. FreeBufs' = FreeBufs
      BY <2>1, <2>2, <2>3 DEF FreeBufs
    <2> QED  BY <1>1, <2>2, <2>4, LedgerQuiet
  <1>5. CASE DrainReturnQueue(t) \/ CountDrain(t) \/ CountFresh(t) \/ AllocatePanics(t)
    BY <1>0, <1>1, <1>5, QuietImplements
       DEF DrainReturnQueue, CountDrain, CountFresh, AllocatePanics, Live
  <1>6. CASE CountInUse(t) \/ CountTotal(t) \/ CountPages(t) \/ CountBytes(t) \/ RaisePeak(t)
    BY <1>0, <1>1, <1>6, QuietImplements
       DEF CountInUse, CountTotal, CountPages, CountBytes, RaisePeak, Live
  <1> QED  BY <1>2, <1>3, <1>4, <1>5, <1>6 DEF AllocateStep

\* A page drop: Return, at the compare-exchange that succeeds.
LEMMA DropPageImplements ==
  ASSUME IInv, NEW t \in Threads, DropPageStep(t)
  PROVE  [Ledger!LedgerNext]_(Ledger!ledger)
  <1> USE DEF IInv, TypeOK, Regs
  <1>0. /\ NULL \notin Bufs /\ mapped \subseteq Bufs
        /\ \A u \in Threads \ {t} : pc'[u] = pc[u] /\ reg'[u] = reg[u]
        /\ pc[t] # "pool_drop" /\ pc'[t] # "pool_drop"
        /\ POOL \in strong' <=> POOL \in strong
    BY PoolAssumption
       DEF DropPageStep, UncountBytes, UncountPages, LoadHead, CasOk, CasFail, UncountInUse,
           CountFree, DropPageArc, DropArc
  <1>1. PoolOpen' <=> PoolOpen
    BY <1>0 DEF PoolOpen, At
  <1>2. CASE CasOk(t)
    <2>1. reg[t].buf \in Held /\ reg[t].buf \in mapped \ Live
      BY <1>2 DEF CasOk, HoldersOK, Held, At
    <2>2. Held' = Held \ {reg[t].buf}
      BY <1>0, <1>2, HeldLose DEF CasOk
    <2>3. FreeBufs' = FreeBufs \cup {reg[t].buf} /\ mapped' = mapped
      BY <1>2, <2>1, <2>2 DEF CasOk, FreeBufs, Live
    <2>4. Ledger!Move(reg[t].buf, "user", "pool")
      BY <1>0, <1>1, <2>1, <2>3, LedgerMove DEF FreeBufs
    <2> QED  BY <1>0, <2>1, <2>4 DEF Ledger!LedgerNext, Ledger!Return
  <1>3. CASE UncountBytes(t) \/ UncountPages(t) \/ LoadHead(t) \/ CasFail(t)
    BY <1>0, <1>1, <1>3, QuietImplements
       DEF UncountBytes, UncountPages, LoadHead, CasFail, Live
  <1>4. CASE UncountInUse(t) \/ CountFree(t) \/ DropPageArc(t)
    BY <1>0, <1>1, <1>4, QuietImplements DEF UncountInUse, CountFree, DropPageArc, DropArc, Live
  <1> QED  BY <1>2, <1>3, <1>4 DEF DropPageStep

\* prewarm: Reserve, for each page.
LEMMA PrewarmImplements ==
  ASSUME IInv, NEW t \in Threads, PrewarmStep(t)
  PROVE  [Ledger!LedgerNext]_(Ledger!ledger)
  <1> USE DEF IInv, TypeOK, Regs
  <1>0. /\ NULL \notin Bufs /\ mapped \subseteq Bufs /\ Live' = Live
        /\ \A u \in Threads \ {t} : pc'[u] = pc[u] /\ reg'[u] = reg[u]
        /\ pc[t] \in PoolPcs \ {"pool_drop"} /\ pc'[t] # "pool_drop"
        /\ pc[t] \notin HoldPcs /\ pc'[t] \notin HoldPcs
        /\ strong' = strong
    BY PoolAssumption
       DEF PrewarmStep, PrewarmPage, PrewarmPanics, PrewarmDone, PrewarmHeap, PrewarmFree,
           PrewarmCount, Live
  <1>1. PoolOpen /\ PoolOpen'
    BY <1>0, OpenInside DEF PoolOpen, At
  <1>2. ASSUME NEW b \in Bufs, PrewarmPage(t, b) PROVE Ledger!LedgerNext
    <2>1. Held' = Held
      BY <1>0, HeldSame
    <2>2. b \notin mapped /\ mapped' = mapped \cup {b} /\ b \notin Held /\ b \notin Live
      BY <1>2 DEF PrewarmPage, SourceAllocate, HoldersOK, Held
    <2>3. FreeBufs' = FreeBufs \cup {b}
      BY <1>0, <2>1, <2>2 DEF FreeBufs
    <2>4. Ledger!Move(b, "source", "pool")
      BY <1>1, <2>2, <2>3, LedgerMove
    <2> QED  BY <1>1, <2>4 DEF Ledger!LedgerNext, Ledger!Reserve
  <1>3. CASE mapped' = mapped
    BY <1>0, <1>1, <1>3, QuietImplements
  <1> QED
    BY <1>2, <1>3 DEF PrewarmStep, PrewarmPanics, PrewarmDone, PrewarmHeap, PrewarmFree,
       PrewarmCount

\* Shutdown: Release, for each buffer the two walks hand to the source.
LEMMA ShutdownImplements ==
  ASSUME IInv, NEW t \in Threads, ShutdownStep(t)
  PROVE  [Ledger!LedgerNext]_(Ledger!ledger)
  <1> USE DEF IInv, TypeOK, Regs
  <1>0. /\ NULL \notin Bufs /\ mapped \subseteq Bufs /\ Live' = Live
        /\ \A u \in Threads \ {t} : pc'[u] = pc[u] /\ reg'[u] = reg[u]
        /\ pc[t] \in {"pool_drop", "shared_swap", "shared_drop"}
        /\ pc[t] \notin HoldPcs /\ pc'[t] \notin HoldPcs
        /\ pc'[t] = pc[t] \/ POOL \notin strong'
        /\ POOL \in strong' => POOL \in strong
    BY PoolAssumption
       DEF ShutdownStep, ReleaseLocal, DropPoolArc, DropArc, SwapReturnQueue, ReleaseReturned,
           SharedDropped, Live, ArcOK, At
  <1>1. ~PoolOpen /\ ~PoolOpen'
    <2>1. pc[t] = "pool_drop" \/ strong = {}
      BY <1>0 DEF ArcOK, At
    <2> QED  BY <1>0, <2>1 DEF PoolOpen, At
  <1>2. ASSUME NEW b \in FreeBufs, mapped' = mapped \ {b} PROVE Ledger!LedgerNext
    <2>1. Held' = Held
      BY <1>0, HeldSame
    <2>2. FreeBufs' = FreeBufs \ {b} /\ b \in mapped
      BY <1>0, <1>2, <2>1 DEF FreeBufs
    <2>3. Ledger!Move(b, "pool", "source")
      BY <1>0, <1>1, <1>2, <2>2, LedgerMove
    <2> QED  BY <1>0, <1>1, <2>2, <2>3 DEF Ledger!LedgerNext, Ledger!Release
  <1>3. CASE ReleaseLocal(t)
    <2>1. local_head \in FreeBufs
      BY <1>0, <1>3 DEF ReleaseLocal, ChainsOK, Heads
    <2> QED  BY <1>2, <1>3, <2>1 DEF ReleaseLocal, SourceRelease
  <1>4. CASE ReleaseReturned(t)
    <2>1. reg[t].head \in FreeBufs
      BY <1>0, <1>4 DEF ReleaseReturned, ChainsOK, Heads, At
    <2> QED  BY <1>2, <1>4, <2>1 DEF ReleaseReturned, SourceRelease
  <1>5. CASE mapped' = mapped
    BY <1>0, <1>1, <1>5, QuietImplements
  <1> QED  BY <1>3, <1>4, <1>5 DEF ShutdownStep, DropPoolArc, SwapReturnQueue, SharedDropped

\* The start of a call: Close when it drops the pool.  A dropped page is in the
\* hands of the dropping thread until it is pushed.
LEMMA CallImplements ==
  ASSUME IInv, NEW t \in Threads, Call(t)
  PROVE  [Ledger!LedgerNext]_(Ledger!ledger)
  <1> USE DEF IInv, TypeOK, Regs
  <1>0. /\ NULL \notin Bufs /\ mapped \subseteq Bufs /\ mapped' = mapped
        /\ \A u \in Threads \ {t} : pc'[u] = pc[u] /\ reg'[u] = reg[u]
        /\ pc[t] = "idle"
        /\ POOL \in strong' <=> POOL \in strong
    BY PoolAssumption DEF Call, Allocate, Prewarm, DropPage, DropShared, DropPool, DropArc
  <1>1. CASE DropPool(t)
    <2>1. Held' = Held /\ Live' = Live
      BY <1>0, <1>1, HeldSame DEF DropPool, Live
    <2>2. FreeBufs' = FreeBufs
      BY <1>0, <2>1 DEF FreeBufs
    <2>3. PoolOpen /\ ~PoolOpen'
      BY <1>1 DEF DropPool, PoolFree, PoolOpen, At
    <2> QED  BY <1>0, <2>2, <2>3 DEF Ledger!LedgerNext, Ledger!Close
  <1>2. ASSUME NEW b \in Bufs, DropPage(t, b) PROVE UNCHANGED Ledger!ledger
    <2>1. b \in Live /\ b \notin Held /\ Live' = Live \ {b}
      BY <1>2 DEF DropPage, Live, HoldersOK, Held
    <2>2. Held' = Held \cup {b}
      BY <1>0, <1>2, HeldGain DEF DropPage
    <2>3. FreeBufs' = FreeBufs
      BY <1>0, <2>1, <2>2 DEF FreeBufs
    <2>4. PoolOpen' <=> PoolOpen
      BY <1>0, <1>2 DEF DropPage, PoolOpen, At
    <2> QED  BY <1>0, <2>3, <2>4, LedgerQuiet
  <1>3. ASSUME pc'[t] \notin HoldPcs \cup {"pool_drop"}, page' = page
        PROVE  UNCHANGED Ledger!ledger
    BY <1>0, <1>3, QuietImplements DEF PoolOpen, At, Live
  <1> QED
    BY <1>0, <1>1, <1>2, <1>3 DEF Call, Allocate, Prewarm, DropShared, DropArc

\* Every reachable step of the pool, whatever the threads do, is a step of the
\* ledger or none: buffers change owner one at a time, get to users only while
\* the pool is open and back to the source only from the pool and after it is
\* closed.
THEOREM LedgerImplemented == Spec => ImplementsLedger
  <1>1. Init => Ledger!LedgerInit
    BY DEF Init, Ledger!LedgerInit, PoolOpen, At
  <1>2. ASSUME IInv, Next PROVE [Ledger!LedgerNext]_(Ledger!ledger)
    <2>1. ASSUME NEW b \in Bufs, UserStep(b) PROVE UNCHANGED Ledger!ledger
      <3>1. mapped' = mapped /\ pc' = pc /\ reg' = reg /\ strong' = strong
        BY <2>1 DEF UserStep, Write, Seal, ClonePage, DropClone
      <3>2. Live' = Live
        BY <1>2, <2>1 DEF UserStep, Write, Seal, ClonePage, DropClone, Live, IInv, TypeOK,
           PageStates
      <3> QED  BY <1>2, <3>1, <3>2, QuietImplements DEF PoolOpen, At
    <2>2. ASSUME NEW s \in Scrapers, CloneShared(s) PROVE UNCHANGED Ledger!ledger
      BY <1>2, <2>2, PoolAssumption, QuietImplements DEF CloneShared, PoolOpen, At, Live
    <2>3. CASE Finished
      BY <1>2, <2>3, QuietImplements DEF Finished, vars, PoolOpen, At, Live
    <2> QED
      BY <1>2, <2>1, <2>2, <2>3, AllocateImplements, DropPageImplements, PrewarmImplements,
         ShutdownImplements, CallImplements DEF Next, Step
  <1>3. ASSUME IInv, UNCHANGED vars PROVE UNCHANGED Ledger!ledger
    BY <1>3, QuietImplements DEF vars, PoolOpen, At, Live
  <1>4. IInv /\ [Next]_vars => [Ledger!LedgerNext]_(Ledger!ledger)
    BY <1>2, <1>3
  <1> QED  BY <1>1, <1>4, InvariantHolds, PTL DEF Spec, ImplementsLedger, Ledger!LedgerSpec

-----------------------------------------------------------------------------
(* Counters: u64 arithmetic and the sizes of sets.                         *)

\* The steps of record_allocate and record_release, from c pages.
LEMMA FetchPage ==
  ASSUME NEW c \in Int
  PROVE  /\ FetchAdd(c % U64, 1) = (c + 1) % U64
         /\ FetchSub(c % U64, 1) = (c - 1) % U64
         /\ FetchAdd((PageSize * c) % U64, PageSize) = (PageSize * (c + 1)) % U64
         /\ FetchSub((PageSize * c) % U64, PageSize) = (PageSize * (c - 1)) % U64
  <1>1. /\ PageSize \in Int /\ PageSize * c \in Int
        /\ PageSize * (c + 1) = PageSize * c + PageSize
        /\ PageSize * (c - 1) = PageSize * c - PageSize
    BY PoolAssumption, SMT
  <1>2. FetchAdd(c % U64, 1) = (c + 1) % U64 /\ FetchSub(c % U64, 1) = (c - 1) % U64
    BY FetchMod
  <1>3. /\ FetchAdd((PageSize * c) % U64, PageSize) = (PageSize * c + PageSize) % U64
        /\ FetchSub((PageSize * c) % U64, PageSize) = (PageSize * c - PageSize) % U64
    BY <1>1, FetchMod
  <1> QED  BY <1>1, <1>2, <1>3

\* How the number of threads at some locations changes when t moves.
LEMMA AtChange ==
  ASSUME NEW t \in Threads, NEW S, \A u \in Threads \ {t} : pc'[u] = pc[u]
  PROVE  /\ Cardinality(At(S)) \in Nat /\ Cardinality(At(S)') \in Nat
         /\ Cardinality(At(S)') = Cardinality(At(S)) + (IF pc'[t] \in S THEN 1 ELSE 0)
                                                     - (IF pc[t] \in S THEN 1 ELSE 0)
  <1>1. At(S) \in SUBSET Threads
    BY DEF At
  <1>2. IsFiniteSet(At(S))
    BY <1>1, PoolAssumption, FS_Subset
  <1>3. \A u : u # t => (u \in At(S) <=> u \in At(S)')
    BY DEF At
  <1>4. (t \in At(S) <=> pc[t] \in S) /\ (t \in At(S)' <=> pc'[t] \in S)
    BY DEF At
  <1> QED  BY <1>2, <1>3, <1>4, OneChange

-----------------------------------------------------------------------------
(* The tenant counters.                                                    *)

\* Locations at which a page counts in the tenant's bytes, or in its pages,
\* though no handle owns it.
BytesPcs == {"ra_peak", "ra_store", "rr_bytes"}
PagesPcs == {"ra_bytes", "ra_peak", "ra_store", "rr_bytes", "rr_pages"}

\* The pages that count for tn: the live ones, and those of the threads at S.
Charged(tn, S) == Cardinality(OfTenant(tn)) + Cardinality(Within(tn, S))

\* TenantCountersExact, for one tenant.
TenantExact(tn) ==
  /\ tstats[tn].bytes = (PageSize * Charged(tn, BytesPcs)) % U64
  /\ tstats[tn].pages = Charged(tn, PagesPcs) % U64

\* The exact counters of all tenants.
TenantInv == \A tn \in Tenants : TenantExact(tn)

\* The count is finite.
LEMMA ChargedIsNat ==
  ASSUME NEW tn, NEW S
  PROVE  Charged(tn, S) \in Nat
  <1>1. OfTenant(tn) \in SUBSET Bufs /\ Within(tn, S) \in SUBSET Threads
    BY DEF OfTenant, Within, At, Live
  <1>2. IsFiniteSet(OfTenant(tn)) /\ IsFiniteSet(Within(tn, S))
    BY <1>1, PoolAssumption, FS_Subset
  <1> QED  BY <1>2, FS_CardinalityType DEF Charged

\* How it changes when thread t moves and the page on buffer b changes ...
LEMMA ChargedChange ==
  ASSUME NEW t \in Threads, NEW b, NEW tn, NEW S,
         \A u \in Threads \ {t} : pc'[u] = pc[u] /\ reg'[u] = reg[u],
         \A c \in Bufs \ {b} : page'[c] = page[c]
  PROVE  /\ Charged(tn, S) \in Nat /\ Charged(tn, S)' \in Nat
         /\ Charged(tn, S)' = Charged(tn, S)
              + (IF b \in OfTenant(tn)' THEN 1 ELSE 0) - (IF b \in OfTenant(tn) THEN 1 ELSE 0)
              + (IF t \in Within(tn, S)' THEN 1 ELSE 0) - (IF t \in Within(tn, S) THEN 1 ELSE 0)
  <1>1. OfTenant(tn) \in SUBSET Bufs /\ Within(tn, S) \in SUBSET Threads
    BY DEF OfTenant, Within, At, Live
  <1>2. IsFiniteSet(OfTenant(tn)) /\ IsFiniteSet(Within(tn, S))
    BY <1>1, PoolAssumption, FS_Subset
  <1>3. \A c : c # b => (c \in OfTenant(tn) <=> c \in OfTenant(tn)')
    BY DEF OfTenant, Live
  <1>4. \A u : u # t => (u \in Within(tn, S) <=> u \in Within(tn, S)')
    BY DEF Within, At
  <1>5. /\ Cardinality(OfTenant(tn)) \in Nat /\ Cardinality(OfTenant(tn)') \in Nat
        /\ Cardinality(OfTenant(tn)') = Cardinality(OfTenant(tn))
              + (IF b \in OfTenant(tn)' THEN 1 ELSE 0) - (IF b \in OfTenant(tn) THEN 1 ELSE 0)
    BY <1>2, <1>3, OneChange
  <1>6. /\ Cardinality(Within(tn, S)) \in Nat /\ Cardinality(Within(tn, S)') \in Nat
        /\ Cardinality(Within(tn, S)') = Cardinality(Within(tn, S))
              + (IF t \in Within(tn, S)' THEN 1 ELSE 0) - (IF t \in Within(tn, S) THEN 1 ELSE 0)
    BY <1>2, <1>4, OneChange
  <1> QED  BY <1>5, <1>6 DEF Charged

\* ... and when no page changes.
LEMMA ChargedThread ==
  ASSUME NEW t \in Threads, NEW tn, NEW S, page' = page,
         \A u \in Threads \ {t} : pc'[u] = pc[u] /\ reg'[u] = reg[u]
  PROVE  /\ Charged(tn, S) \in Nat
         /\ Charged(tn, S)' = Charged(tn, S)
              + (IF t \in Within(tn, S)' THEN 1 ELSE 0) - (IF t \in Within(tn, S) THEN 1 ELSE 0)
  <1>1. OfTenant(tn)' = OfTenant(tn)
    BY DEF OfTenant, Live
  <1>2. /\ Charged(tn, S) \in Nat /\ Charged(tn, S)' \in Nat
        /\ Charged(tn, S)' = Charged(tn, S)
              + (IF NULL \in OfTenant(tn)' THEN 1 ELSE 0) - (IF NULL \in OfTenant(tn) THEN 1 ELSE 0)
              + (IF t \in Within(tn, S)' THEN 1 ELSE 0) - (IF t \in Within(tn, S) THEN 1 ELSE 0)
    BY ChargedChange
  <1> QED  BY <1>1, <1>2

\* A step outside record_allocate and record_release, which leaves the counters
\* and the live pages of the tenant alone.
LEMMA TenantQuiet ==
  ASSUME NEW t \in Threads, NEW tn \in Tenants, TenantExact(tn),
         \A u \in Threads \ {t} : pc'[u] = pc[u] /\ reg'[u] = reg[u],
         pc[t] \notin PagesPcs /\ pc'[t] \notin PagesPcs,
         OfTenant(tn)' = OfTenant(tn),
         tstats'[tn].bytes = tstats[tn].bytes, tstats'[tn].pages = tstats[tn].pages
  PROVE  TenantExact(tn)'
  <1>1. Within(tn, BytesPcs)' = Within(tn, BytesPcs) /\ Within(tn, PagesPcs)' = Within(tn, PagesPcs)
    BY DEF Within, At, BytesPcs, PagesPcs
  <1> QED  BY <1>1 DEF TenantExact, Charged

\* allocate: pages first, then bytes; the builder takes the page over.
LEMMA TenantAllocate ==
  ASSUME IInv, NEW t \in Threads, AllocateStep(t), NEW tn \in Tenants, TenantExact(tn)
  PROVE  TenantExact(tn)'
  <1> USE DEF IInv, TypeOK, Regs, TenantTypeOK, TenantCounters
  <1>0. /\ \A u \in Threads \ {t} : pc'[u] = pc[u] /\ reg'[u] = reg[u]
        /\ NULL \notin Bufs
    BY PoolAssumption
       DEF AllocateStep, PopLocal, DrainReturnQueue, CountDrain, CountFresh, AllocateFresh,
           AllocatePanics, CountInUse, CountTotal, CountPages, CountBytes, RaisePeak,
           KeepPeak, WritePeak, GiveBuilder
  <1>1. CASE PopLocal(t) \/ DrainReturnQueue(t) \/ CountDrain(t) \/ CountFresh(t)
             \/ (\E b \in Bufs : AllocateFresh(t, b)) \/ AllocatePanics(t) \/ CountInUse(t)
    BY <1>0, <1>1, TenantQuiet
       DEF PopLocal, DrainReturnQueue, CountDrain, CountFresh, AllocateFresh, AllocatePanics,
           CountInUse, OfTenant, Live, PagesPcs
  <1>2. CASE CountTotal(t)
    BY <1>0, <1>2, TenantQuiet DEF CountTotal, RecordTotal, LocalsOK, OfTenant, Live, PagesPcs
  <1>3. CASE CountPages(t)
    <2>0. /\ page' = page /\ pc[t] = "ra_pages" /\ pc'[t] = "ra_bytes" /\ reg'[t] = reg[t]
          /\ tstats'[tn].bytes = tstats[tn].bytes
          /\ tstats'[tn].pages = IF reg[t].ten = tn THEN FetchAdd(tstats[tn].pages, 1)
                                                    ELSE tstats[tn].pages
      BY <1>3 DEF CountPages, RecordPages, LocalsOK
    <2>2. /\ t \notin Within(tn, BytesPcs) /\ t \notin Within(tn, BytesPcs)'
          /\ t \notin Within(tn, PagesPcs) /\ (t \in Within(tn, PagesPcs)' <=> reg[t].ten = tn)
      BY <2>0 DEF Within, At, BytesPcs, PagesPcs
    <2>3. /\ Charged(tn, BytesPcs)' = Charged(tn, BytesPcs) /\ Charged(tn, PagesPcs) \in Nat
          /\ Charged(tn, PagesPcs)' = IF reg[t].ten = tn THEN Charged(tn, PagesPcs) + 1
                                                         ELSE Charged(tn, PagesPcs)
      BY <1>0, <2>0, <2>2, ChargedThread
    <2> QED  BY <2>0, <2>3, FetchPage DEF TenantExact
  <1>4. CASE CountBytes(t)
    <2>0. /\ page' = page /\ pc[t] = "ra_bytes" /\ pc'[t] = "ra_peak" /\ reg'[t].ten = reg[t].ten
          /\ tstats'[tn].pages = tstats[tn].pages
          /\ tstats'[tn].bytes = IF reg[t].ten = tn THEN FetchAdd(tstats[tn].bytes, PageSize)
                                                    ELSE tstats[tn].bytes
      BY <1>4 DEF CountBytes, RecordBytes, LocalsOK
    <2>2. /\ t \notin Within(tn, BytesPcs) /\ (t \in Within(tn, BytesPcs)' <=> reg[t].ten = tn)
          /\ (t \in Within(tn, PagesPcs)' <=> t \in Within(tn, PagesPcs))
      BY <2>0 DEF Within, At, BytesPcs, PagesPcs
    <2>3. /\ Charged(tn, PagesPcs)' = Charged(tn, PagesPcs) /\ Charged(tn, BytesPcs) \in Nat
          /\ Charged(tn, BytesPcs)' = IF reg[t].ten = tn THEN Charged(tn, BytesPcs) + 1
                                                         ELSE Charged(tn, BytesPcs)
      BY <1>0, <2>0, <2>2, ChargedThread
    <2> QED  BY <2>0, <2>3, FetchPage DEF TenantExact
  <1>5. CASE RaisePeak(t)
    <2>1. /\ page' = page /\ tstats' = tstats /\ pc[t] = "ra_peak" /\ pc'[t] = "ra_store"
          /\ reg'[t] = reg[t]
      BY <1>5 DEF RaisePeak
    <2>2. OfTenant(tn)' = OfTenant(tn)
      BY <2>1 DEF OfTenant, Live
    <2>3. /\ Within(tn, BytesPcs)' = Within(tn, BytesPcs)
          /\ Within(tn, PagesPcs)' = Within(tn, PagesPcs)
      BY <1>0, <2>1 DEF Within, At, BytesPcs, PagesPcs
    <2> QED  BY <2>1, <2>2, <2>3 DEF TenantExact, Charged
  <1>6. CASE KeepPeak(t) \/ WritePeak(t)
    <2>1. pc[t] \in {"ra_peak", "ra_store"} /\ pc'[t] = "idle"
      BY <1>6 DEF KeepPeak, WritePeak
    <2>2. PICK b \in Bufs : b = reg[t].buf /\ b \notin Live
      BY <2>1 DEF HoldersOK, At
    <2>3. page' = [page EXCEPT ![b] = [st |-> "builder", refs |-> 0, ten |-> reg[t].ten]]
      BY <1>6, <2>2 DEF KeepPeak, WritePeak, GiveBuilder
    <2>4. b \notin OfTenant(tn) /\ (b \in OfTenant(tn)' <=> reg[t].ten = tn)
      BY <2>2, <2>3 DEF OfTenant, Live
    <2>5. /\ (t \in Within(tn, BytesPcs) <=> reg[t].ten = tn)
          /\ (t \in Within(tn, PagesPcs) <=> reg[t].ten = tn)
          /\ t \notin Within(tn, BytesPcs)' /\ t \notin Within(tn, PagesPcs)'
      BY <2>1 DEF Within, At, BytesPcs, PagesPcs
    <2>6. \A c \in Bufs \ {b} : page'[c] = page[c]
      BY <2>3
    <2>7. /\ Charged(tn, PagesPcs)' = Charged(tn, PagesPcs)
          /\ Charged(tn, BytesPcs)' = Charged(tn, BytesPcs)
      BY <1>0, <2>4, <2>5, <2>6, ChargedChange
    <2>8. tstats'[tn].bytes = tstats[tn].bytes /\ tstats'[tn].pages = tstats[tn].pages
      BY <1>6 DEF KeepPeak, WritePeak, StorePeak
    <2> QED  BY <2>7, <2>8 DEF TenantExact
  <1> QED  BY <1>1, <1>2, <1>3, <1>4, <1>5, <1>6 DEF AllocateStep

\* A page drop: bytes first, then pages.
LEMMA TenantDrop ==
  ASSUME IInv, NEW t \in Threads, DropPageStep(t), NEW tn \in Tenants, TenantExact(tn)
  PROVE  TenantExact(tn)'
  <1> USE DEF IInv, TypeOK, Regs, TenantTypeOK, TenantCounters
  <1>0. \A u \in Threads \ {t} : pc'[u] = pc[u] /\ reg'[u] = reg[u]
    BY DEF DropPageStep, UncountBytes, UncountPages, LoadHead, CasOk, CasFail, UncountInUse,
           CountFree, DropPageArc, DropArc
  <1>1. CASE UncountBytes(t)
    <2>0. /\ page' = page /\ pc[t] = "rr_bytes" /\ pc'[t] = "rr_pages" /\ reg'[t] = reg[t]
          /\ tstats'[tn].pages = tstats[tn].pages
          /\ tstats'[tn].bytes = IF reg[t].ten = tn THEN FetchSub(tstats[tn].bytes, PageSize)
                                                    ELSE tstats[tn].bytes
      BY <1>1 DEF UncountBytes, ReleaseBytes, LocalsOK
    <2>2. /\ t \notin Within(tn, BytesPcs)' /\ (t \in Within(tn, BytesPcs) <=> reg[t].ten = tn)
          /\ (t \in Within(tn, PagesPcs)' <=> t \in Within(tn, PagesPcs))
      BY <2>0 DEF Within, At, BytesPcs, PagesPcs
    <2>3. /\ Charged(tn, PagesPcs)' = Charged(tn, PagesPcs) /\ Charged(tn, BytesPcs) \in Nat
          /\ Charged(tn, BytesPcs)' = IF reg[t].ten = tn THEN Charged(tn, BytesPcs) - 1
                                                         ELSE Charged(tn, BytesPcs)
      BY <1>0, <2>0, <2>2, ChargedThread
    <2> QED  BY <2>0, <2>3, FetchPage DEF TenantExact
  <1>2. CASE UncountPages(t)
    <2>0. /\ page' = page /\ pc[t] = "rr_pages" /\ pc'[t] = "push" /\ reg'[t] = reg[t]
          /\ tstats'[tn].bytes = tstats[tn].bytes
          /\ tstats'[tn].pages = IF reg[t].ten = tn THEN FetchSub(tstats[tn].pages, 1)
                                                    ELSE tstats[tn].pages
      BY <1>2 DEF UncountPages, ReleasePages, LocalsOK
    <2>2. /\ t \notin Within(tn, BytesPcs) /\ t \notin Within(tn, BytesPcs)'
          /\ t \notin Within(tn, PagesPcs)' /\ (t \in Within(tn, PagesPcs) <=> reg[t].ten = tn)
      BY <2>0 DEF Within, At, BytesPcs, PagesPcs
    <2>3. /\ Charged(tn, BytesPcs)' = Charged(tn, BytesPcs) /\ Charged(tn, PagesPcs) \in Nat
          /\ Charged(tn, PagesPcs)' = IF reg[t].ten = tn THEN Charged(tn, PagesPcs) - 1
                                                         ELSE Charged(tn, PagesPcs)
      BY <1>0, <2>0, <2>2, ChargedThread
    <2> QED  BY <2>0, <2>3, FetchPage DEF TenantExact
  <1>3. CASE LoadHead(t) \/ CasOk(t) \/ CasFail(t) \/ UncountInUse(t) \/ CountFree(t)
             \/ DropPageArc(t)
    BY <1>0, <1>3, TenantQuiet
       DEF LoadHead, CasOk, CasFail, UncountInUse, CountFree, DropPageArc, DropArc, OfTenant,
           Live, PagesPcs
  <1> QED  BY <1>1, <1>2, <1>3 DEF DropPageStep

\* Prewarming and shutdown charge nobody; the start of a page drop moves the
\* page from its handle to the dropping thread.
LEMMA TenantOther ==
  ASSUME IInv, NEW t \in Threads, PrewarmStep(t) \/ ShutdownStep(t) \/ Call(t),
         NEW tn \in Tenants, TenantExact(tn)
  PROVE  TenantExact(tn)'
  <1> USE DEF IInv, TypeOK, Regs
  <1>0. tstats' = tstats /\ \A u \in Threads \ {t} : pc'[u] = pc[u] /\ reg'[u] = reg[u]
    BY DEF PrewarmStep, PrewarmPage, PrewarmPanics, PrewarmDone, PrewarmHeap, PrewarmFree,
           PrewarmCount, ShutdownStep, ReleaseLocal, DropPoolArc, DropArc, SwapReturnQueue,
           ReleaseReturned, SharedDropped, Call, Allocate, Prewarm, DropPage, DropShared, DropPool
  <1>1. ASSUME NEW b \in Bufs, DropPage(t, b) PROVE TenantExact(tn)'
    <2>0. /\ pc[t] = "idle" /\ pc'[t] = "rr_bytes" /\ reg'[t].ten = page[b].ten
          /\ b \in Live /\ page' = [page EXCEPT ![b] = NoPage]
      BY <1>1 DEF DropPage, Live
    <2>1. b \notin OfTenant(tn)' /\ (b \in OfTenant(tn) <=> page[b].ten = tn)
      BY <2>0 DEF OfTenant, Live
    <2>2. /\ (t \in Within(tn, BytesPcs)' <=> page[b].ten = tn)
          /\ (t \in Within(tn, PagesPcs)' <=> page[b].ten = tn)
          /\ t \notin Within(tn, BytesPcs) /\ t \notin Within(tn, PagesPcs)
      BY <2>0 DEF Within, At, BytesPcs, PagesPcs
    <2>3. \A c \in Bufs \ {b} : page'[c] = page[c]
      BY <2>0
    <2>4. /\ Charged(tn, PagesPcs)' = Charged(tn, PagesPcs)
          /\ Charged(tn, BytesPcs)' = Charged(tn, BytesPcs)
      BY <1>0, <2>1, <2>2, <2>3, ChargedChange
    <2> QED  BY <1>0, <2>4 DEF TenantExact
  <1>2. ASSUME page' = page, pc[t] \notin PagesPcs, pc'[t] \notin PagesPcs
        PROVE  TenantExact(tn)'
    BY <1>0, <1>2, TenantQuiet DEF OfTenant, Live
  <1>3. CASE PrewarmStep(t)
    BY <1>2, <1>3 DEF PrewarmStep, PrewarmPage, PrewarmPanics, PrewarmDone, PrewarmHeap,
       PrewarmFree, PrewarmCount, PagesPcs
  <1>4. CASE ShutdownStep(t)
    BY <1>2, <1>4 DEF ShutdownStep, ReleaseLocal, DropPoolArc, DropArc, SwapReturnQueue,
       ReleaseReturned, SharedDropped, PagesPcs
  <1>5. CASE Call(t)
    BY <1>1, <1>2, <1>5 DEF Call, Allocate, Prewarm, DropShared, DropPool, DropArc, PagesPcs
  <1> QED  BY <1>3, <1>4, <1>5

\* They are exact in every reachable state.
LEMMA TenantInvHolds == Spec => []TenantInv
  <1>1. Init => TenantInv
    <2>1. ASSUME Init, NEW tn \in Tenants PROVE TenantExact(tn)
      <3>1. OfTenant(tn) = {} /\ Within(tn, BytesPcs) = {} /\ Within(tn, PagesPcs) = {}
        BY <2>1 DEF Init, OfTenant, Live, Within, At, BytesPcs, PagesPcs
      <3>2. Charged(tn, BytesPcs) = 0 /\ Charged(tn, PagesPcs) = 0
        BY <3>1, FS_EmptySet DEF Charged
      <3>3. PageSize * 0 = 0 /\ 0 % U64 = 0
        BY PoolAssumption, U64Assumption
      <3> QED  BY <2>1, <3>2, <3>3 DEF TenantExact, Init, TenantInit
    <2> QED  BY <2>1 DEF TenantInv
  <1>2. ASSUME IInv, Next, NEW tn \in Tenants, TenantExact(tn) PROVE TenantExact(tn)'
    <2> DEFINE Same == pc' = pc /\ reg' = reg /\ tstats' = tstats /\ OfTenant(tn)' = OfTenant(tn)
    <2>1. Same => TenantExact(tn)'
      BY <1>2 DEF TenantExact, Charged, Within, At
    <2>2. ASSUME NEW b \in Bufs, UserStep(b) PROVE Same
      BY <1>2, <2>2 DEF UserStep, Write, Seal, ClonePage, DropClone, OfTenant, Live, IInv, TypeOK,
         PageStates
    <2>3. ASSUME NEW s \in Scrapers, CloneShared(s) PROVE Same
      BY <2>3 DEF CloneShared, OfTenant, Live
    <2>4. Finished => Same
      BY DEF Finished, vars, OfTenant, Live
    <2> QED
      BY <1>2, <2>1, <2>2, <2>3, <2>4, TenantAllocate, TenantDrop, TenantOther DEF Next, Step
  <1>3. IInv /\ TenantInv /\ [Next]_vars => TenantInv'
    <2>1. ASSUME UNCHANGED vars, TenantInv PROVE TenantInv'
      BY <2>1 DEF TenantInv, vars, TenantExact, Charged, OfTenant, Live, Within, At
    <2> QED  BY <1>2, <2>1 DEF TenantInv
  <1> QED  BY <1>1, <1>3, InvariantHolds, PTL DEF Spec

\* bytes_in_use and pages_in_use of every tenant equal what its pages are worth,
\* up to the threads between two updates, whichever threads drop the pages and
\* however often the source panics.
THEOREM TenantsExact == Spec => []TenantCountersExact
  <1>1. TenantInv => TenantCountersExact
    BY DEF TenantInv, TenantExact, Charged, TenantCountersExact, BytesPcs, PagesPcs
  <1> QED  BY <1>1, TenantInvHolds, PTL

\* The pages that count for a tenant lie on distinct buffers.
LEMMA ChargedFits ==
  ASSUME IInv, NEW tn, NEW S \in SUBSET HoldPcs
  PROVE  Charged(tn, S) <= Cardinality(Bufs)
  <1> DEFINE W == Within(tn, S)  L == OfTenant(tn)
             I == {reg[t].buf : t \in W}
             f == [t \in W |-> reg[t].buf]
  <1>1. L \in SUBSET Bufs /\ W \in SUBSET Threads /\ I \in SUBSET Bufs /\ L \cap I = {}
    <2>1. \A t \in W : reg[t].buf \in mapped \ Live /\ mapped \subseteq Bufs
      BY DEF Within, At, IInv, HoldersOK, TypeOK
    <2>2. L \subseteq Live /\ Live \subseteq Bufs /\ W \subseteq Threads
      BY DEF OfTenant, Live, Within, At
    <2> HIDE DEF W, L
    <2> QED  BY <2>1, <2>2
  <1>2. f \in Injection(W, I)
    BY DEF Injection, IsInjective, Within, At, IInv, HoldersOK
  <1>3. /\ IsFiniteSet(L) /\ IsFiniteSet(I) /\ IsFiniteSet(L \cup I)
        /\ Cardinality(L \cup I) <= Cardinality(Bufs)
    <2>1. L \cup I \in SUBSET Bufs
      BY <1>1
    <2> QED  BY <1>1, <2>1, PoolAssumption, FS_Subset
  <1> HIDE DEF W, L, I, f
  <1>4. IsFiniteSet(W) /\ Cardinality(W) <= Cardinality(I)
    BY <1>2, <1>3, FS_Injection
  <1>5. Cardinality(L \cup I) = Cardinality(L) + Cardinality(I) - Cardinality(L \cap I)
    BY <1>3, FS_Union
  <1>6. Cardinality(L \cap I) = 0
    BY <1>1, FS_EmptySet
  <1>7. /\ Cardinality(W) \in Nat /\ Cardinality(L) \in Nat /\ Cardinality(I) \in Nat
        /\ Cardinality(L \cup I) \in Nat /\ Cardinality(Bufs) \in Nat
    BY <1>3, <1>4, PoolAssumption, FS_CardinalityType
  <1> QED  BY <1>3, <1>4, <1>5, <1>6, <1>7 DEF Charged, W, L

\* If all buffers together have fewer than U64 bytes, as the parts of an address
\* space do, no tenant counter wraps.
LEMMA BytesValue ==
  ASSUME IInv, PageSize * Cardinality(Bufs) < U64, NEW tn, TenantExact(tn)
  PROVE  /\ tstats[tn].bytes = PageSize * Charged(tn, BytesPcs)
         /\ tstats[tn].pages = Charged(tn, PagesPcs)
         /\ Charged(tn, BytesPcs) <= Charged(tn, PagesPcs)
  <1> DEFINE B == Charged(tn, BytesPcs)  P == Charged(tn, PagesPcs)  N == Cardinality(Bufs)
  <1>1. B \in Nat /\ P \in Nat /\ B <= N /\ P <= N
    BY ChargedIsNat, ChargedFits DEF BytesPcs, PagesPcs
  <1>2. N \in Nat /\ PageSize \in Nat \ {0} /\ U64 \in Nat \ {0}
    BY PoolAssumption, U64Assumption, FS_CardinalityType
  <1>3. B <= P
    <2>1. IsFiniteSet(Within(tn, PagesPcs)) /\ IsFiniteSet(OfTenant(tn))
      <3>1. Within(tn, PagesPcs) \in SUBSET Threads /\ OfTenant(tn) \in SUBSET Bufs
        BY DEF Within, At, OfTenant, Live
      <3> QED  BY <3>1, PoolAssumption, FS_Subset
    <2>2. Within(tn, BytesPcs) \in SUBSET Within(tn, PagesPcs)
      BY DEF Within, At, BytesPcs, PagesPcs
    <2>3. /\ Cardinality(Within(tn, BytesPcs)) <= Cardinality(Within(tn, PagesPcs))
          /\ IsFiniteSet(Within(tn, BytesPcs))
      BY <2>1, <2>2, FS_Subset
    <2> QED  BY <2>1, <2>3, FS_CardinalityType DEF Charged
  <1> HIDE DEF B, P, N
  <1>4. PageSize * B \in Nat /\ PageSize * B <= PageSize * N
    BY <1>1, <1>2, SMT
  <1>5. P <= PageSize * N
    BY <1>1, <1>2, SMT
  <1>6. PageSize * B < U64 /\ P < U64
    BY <1>1, <1>2, <1>4, <1>5 DEF N
  <1>7. (PageSize * B) % U64 = PageSize * B /\ P % U64 = P
    <2>1. \A x \in Nat : x < U64 => x % U64 = x
      BY <1>2
    <2> QED  BY <1>1, <1>4, <1>6, <2>1
  <1> QED  BY <1>3, <1>7 DEF TenantExact, B, P

\* A reader of the counters never sees more bytes than pages account for: bytes
\* are added after pages and taken off before them (record_allocate,
\* record_release).
THEOREM BytesNeverLead ==
  ASSUME PageSize * Cardinality(Bufs) < U64
  PROVE  Spec => []BytesLagPages
  <1>1. ASSUME IInv, TenantInv, NEW tn \in Tenants
        PROVE  tstats[tn].bytes <= tstats[tn].pages * PageSize
    <2> DEFINE B == Charged(tn, BytesPcs)  P == Charged(tn, PagesPcs)
    <2>1. B \in Nat /\ P \in Nat /\ PageSize \in Nat
      BY ChargedIsNat, PoolAssumption
    <2>2. tstats[tn].bytes = PageSize * B /\ tstats[tn].pages = P /\ B <= P
      BY <1>1, BytesValue DEF TenantInv
    <2> HIDE DEF B, P
    <2>3. PageSize * B <= P * PageSize
      BY <2>1, <2>2, SMT
    <2> QED  BY <2>2, <2>3
  <1>2. IInv /\ TenantInv => BytesLagPages
    BY <1>1 DEF BytesLagPages
  <1> QED  BY <1>2, InvariantHolds, TenantInvHolds, PTL

-----------------------------------------------------------------------------
(* The peak.                                                               *)

\* Between the addition to bytes_in_use and the end of record_allocate.
PeakPcs == {"ra_peak", "ra_store"}

\* A thread about to store the peak has a value above it.
PeakPending == \A u \in At({"ra_store"}) : reg[u].n > tstats[reg[u].ten].peak

\* The value a thread compares or stores covers the bytes, which other threads can
\* only have lowered; outside the window the peak does.
PeakCovers ==
  \A tn \in Tenants :
    /\ \A u \in Within(tn, PeakPcs) : tstats[tn].bytes <= reg[u].n
    /\ Within(tn, PeakPcs) = {} => tstats[tn].bytes <= tstats[tn].peak

\* Only the store of record_allocate changes a peak.
LEMMA PeakStep ==
  ASSUME IInv, Next, NEW tn \in Tenants
  PROVE  \/ tstats'[tn].peak = tstats[tn].peak
         \/ \E t \in Threads : WritePeak(t) /\ reg[t].ten = tn /\ tstats'[tn].peak = reg[t].n
  <1> USE DEF IInv, TypeOK, TenantTypeOK, TenantCounters
  <1>1. ASSUME NEW t \in Threads, AllocateStep(t), ~WritePeak(t)
        PROVE  tstats'[tn].peak = tstats[tn].peak
    BY <1>1 DEF AllocateStep, PopLocal, DrainReturnQueue, CountDrain, CountFresh, AllocateFresh,
       AllocatePanics, CountInUse, CountTotal, CountPages, CountBytes, RaisePeak, KeepPeak,
       RecordTotal, RecordPages, RecordBytes, LocalsOK
  <1>2. ASSUME NEW t \in Threads, WritePeak(t)
        PROVE  tstats'[tn].peak = IF reg[t].ten = tn THEN reg[t].n ELSE tstats[tn].peak
    BY <1>2 DEF WritePeak, StorePeak, LocalsOK
  <1>3. ASSUME NEW t \in Threads, DropPageStep(t) PROVE tstats'[tn].peak = tstats[tn].peak
    BY <1>3 DEF DropPageStep, UncountBytes, UncountPages, LoadHead, CasOk, CasFail, UncountInUse,
       CountFree, DropPageArc, ReleaseBytes, ReleasePages, LocalsOK
  <1>4. ASSUME NEW t \in Threads, PrewarmStep(t) \/ ShutdownStep(t) \/ Call(t)
        PROVE  tstats' = tstats
    BY <1>4 DEF PrewarmStep, PrewarmPage, PrewarmPanics, PrewarmDone, PrewarmHeap, PrewarmFree,
       PrewarmCount, ShutdownStep, ReleaseLocal, DropPoolArc, SwapReturnQueue, ReleaseReturned,
       SharedDropped, Call, Allocate, Prewarm, DropPage, DropShared, DropPool
  <1>5. ASSUME NEW b \in Bufs, UserStep(b) PROVE tstats' = tstats
    BY <1>5 DEF UserStep, Write, Seal, ClonePage, DropClone
  <1>6. ASSUME NEW s \in Scrapers, CloneShared(s) PROVE tstats' = tstats
    BY <1>6 DEF CloneShared
  <1> QED  BY <1>1, <1>2, <1>3, <1>4, <1>5, <1>6 DEF Next, Step, Finished, vars

\* How a thread gets to, or stays at, the peak ...
LEMMA PeakPcsStep ==
  ASSUME IInv, Next, NEW u \in Threads, pc'[u] \in PeakPcs
  PROVE  \/ pc'[u] = pc[u] /\ reg'[u] = reg[u]
         \/ CountBytes(u) /\ pc'[u] = "ra_peak"
         \/ RaisePeak(u) /\ pc'[u] = "ra_store"
  <1> USE DEF IInv, TypeOK, PeakPcs
  <1>1. ASSUME NEW t \in Threads, AllocateStep(t)
        PROVE  \/ pc'[u] = pc[u] /\ reg'[u] = reg[u]
               \/ CountBytes(u) /\ pc'[u] = "ra_peak"
               \/ RaisePeak(u) /\ pc'[u] = "ra_store"
    <2>1. CASE CountBytes(t) \/ RaisePeak(t)
      BY <2>1 DEF CountBytes, RaisePeak
    <2> QED
      BY <1>1, <2>1 DEF AllocateStep, PopLocal, DrainReturnQueue, CountDrain, CountFresh,
         AllocateFresh, AllocatePanics, CountInUse, CountTotal, CountPages, KeepPeak, WritePeak,
         GiveBuilder
  <1> DEFINE Same == pc'[u] = pc[u] /\ reg'[u] = reg[u]
  <1>2. ASSUME NEW t \in Threads, DropPageStep(t) PROVE Same
    BY <1>2 DEF DropPageStep, UncountBytes, UncountPages, LoadHead, CasOk, CasFail, UncountInUse,
       CountFree, DropPageArc, DropArc
  <1>3. ASSUME NEW t \in Threads, PrewarmStep(t) PROVE Same
    BY <1>3 DEF PrewarmStep, PrewarmPage, PrewarmPanics, PrewarmDone, PrewarmHeap, PrewarmFree,
       PrewarmCount
  <1>4. ASSUME NEW t \in Threads, ShutdownStep(t) \/ Call(t) PROVE Same
    BY <1>4 DEF ShutdownStep, ReleaseLocal, DropPoolArc, DropArc, SwapReturnQueue, ReleaseReturned,
       SharedDropped, Call, Allocate, Prewarm, DropPage, DropShared, DropPool
  <1>5. ASSUME NEW b \in Bufs, UserStep(b) PROVE Same
    BY <1>5 DEF UserStep, Write, Seal, ClonePage, DropClone
  <1>6. ASSUME NEW s \in Scrapers, CloneShared(s) PROVE Same
    BY <1>6 DEF CloneShared
  <1> QED  BY <1>1, <1>2, <1>3, <1>4, <1>5, <1>6 DEF Next, Step, Finished, vars

\* ... and how it leaves it.
LEMMA PeakLeaves ==
  ASSUME IInv, Next, NEW u \in Threads, pc[u] \in PeakPcs,
         ~(pc'[u] \in PeakPcs /\ reg'[u].ten = reg[u].ten)
  PROVE  KeepPeak(u) \/ WritePeak(u)
  <1> USE DEF IInv, TypeOK, PeakPcs
  <1> DEFINE Same == pc'[u] = pc[u] /\ reg'[u] = reg[u]
  <1>1. ASSUME NEW t \in Threads, AllocateStep(t) PROVE Same \/ KeepPeak(u) \/ WritePeak(u)
    <2>1. CASE RaisePeak(t)
      BY <2>1 DEF RaisePeak
    <2>2. CASE KeepPeak(t) \/ WritePeak(t)
      BY <2>2 DEF KeepPeak, WritePeak, GiveBuilder
    <2> QED
      BY <1>1, <2>1, <2>2 DEF AllocateStep, PopLocal, DrainReturnQueue, CountDrain, CountFresh,
         AllocateFresh, AllocatePanics, CountInUse, CountTotal, CountPages, CountBytes
  <1>2. ASSUME NEW t \in Threads, DropPageStep(t) PROVE Same
    BY <1>2 DEF DropPageStep, UncountBytes, UncountPages, LoadHead, CasOk, CasFail, UncountInUse,
       CountFree, DropPageArc, DropArc
  <1>3. ASSUME NEW t \in Threads, PrewarmStep(t) PROVE Same
    BY <1>3 DEF PrewarmStep, PrewarmPage, PrewarmPanics, PrewarmDone, PrewarmHeap, PrewarmFree,
       PrewarmCount
  <1>4. ASSUME NEW t \in Threads, ShutdownStep(t) \/ Call(t) PROVE Same
    BY <1>4 DEF ShutdownStep, ReleaseLocal, DropPoolArc, DropArc, SwapReturnQueue, ReleaseReturned,
       SharedDropped, Call, Allocate, Prewarm, DropPage, DropShared, DropPool
  <1>5. ASSUME NEW b \in Bufs, UserStep(b) PROVE Same
    BY <1>5 DEF UserStep, Write, Seal, ClonePage, DropClone
  <1>6. ASSUME NEW s \in Scrapers, CloneShared(s) PROVE Same
    BY <1>6 DEF CloneShared
  <1> QED  BY <1>1, <1>2, <1>3, <1>4, <1>5, <1>6 DEF Next, Step, Finished, vars

\* The value was above the peak when it was compared, and allocate takes &mut self,
\* so that nobody has stored another one since.
LEMMA PeakPendingHolds == Spec => []PeakPending
  <1>1. Init => PeakPending
    BY DEF Init, PeakPending, At
  <1>2. ASSUME IInv, IInv', PeakPending, Next PROVE PeakPending'
    <2> SUFFICES ASSUME NEW u \in Threads, pc'[u] = "ra_store"
                 PROVE  reg'[u].n > tstats'[reg'[u].ten].peak
      BY DEF PeakPending, At
    <2>1. /\ pc[u] \in PeakPcs /\ reg'[u] = reg[u] /\ reg[u].ten \in Tenants
          /\ reg[u].n > tstats[reg[u].ten].peak
      <3>1. (pc'[u] = pc[u] /\ reg'[u] = reg[u]) \/ RaisePeak(u)
        BY <1>2, PeakPcsStep DEF PeakPcs
      <3> QED  BY <1>2, <3>1 DEF RaisePeak, AbovePeak, PeakPending, PeakPcs, At, IInv, LocalsOK
    <2>2. ASSUME NEW t \in Threads, WritePeak(t) PROVE FALSE
      <3>1. t = u
        BY <1>2, <2>1, <2>2 DEF WritePeak, IInv, ArcOK, At, PeakPcs
      <3> QED  BY <1>2, <2>2, <3>1 DEF WritePeak, IInv, TypeOK
    <2>3. tstats'[reg[u].ten].peak = tstats[reg[u].ten].peak
      BY <1>2, <2>1, <2>2, PeakStep
    <2> QED  BY <2>1, <2>3
  <1>3. IInv /\ IInv' /\ PeakPending /\ [Next]_vars => PeakPending'
    BY <1>2 DEF vars, PeakPending, At
  <1> QED  BY <1>1, <1>3, InvariantHolds, PTL DEF Spec

\* peak_bytes_in_use never falls, although it is loaded and stored in two steps.
THEOREM PeakMonotone == Spec => PeakNeverFalls
  <1>1. ASSUME IInv, PeakPending, Next, NEW tn \in Tenants
        PROVE  tstats'[tn].peak >= tstats[tn].peak
    <2>1. tstats[tn].peak \in Int
      BY <1>1, U64Assumption DEF IInv, TypeOK, TenantTypeOK, TenantCounters, Counter
    <2>2. ASSUME NEW t \in Threads, WritePeak(t) PROVE reg[t].n > tstats[reg[t].ten].peak /\ reg[t].n \in Int
      BY <1>1, <2>2, U64Assumption DEF WritePeak, PeakPending, At, IInv, LocalsOK, Counter
    <2> QED  BY <1>1, <2>1, <2>2, PeakStep
  <1>2. IInv /\ PeakPending /\ [Next]_vars =>
          [\A tn \in Tenants : tstats'[tn].peak >= tstats[tn].peak]_vars
    BY <1>1
  <1> QED  BY <1>2, InvariantHolds, PeakPendingHolds, PTL DEF Spec, PeakNeverFalls

\* Only the addition of record_allocate raises the bytes of a tenant.
LEMMA BytesStep ==
  ASSUME IInv, Next, NEW tn \in Tenants, TenantExact(tn), PageSize * Cardinality(Bufs) < U64
  PROVE  \/ tstats'[tn].bytes <= tstats[tn].bytes
         \/ \E t \in Threads : CountBytes(t) /\ reg[t].ten = tn
  <1> USE DEF IInv, TypeOK, TenantTypeOK, TenantCounters
  <1>0. tstats[tn].bytes \in Int /\ tstats[tn].bytes < U64 /\ U64 \in Int
    BY U64Assumption DEF Counter
  <1> DEFINE Same == tstats'[tn].bytes = tstats[tn].bytes
  <1>1. ASSUME NEW t \in Threads, AllocateStep(t), ~(CountBytes(t) /\ reg[t].ten = tn)
        PROVE  Same
    BY <1>1 DEF AllocateStep, PopLocal, DrainReturnQueue, CountDrain, CountFresh, AllocateFresh,
       AllocatePanics, CountInUse, CountTotal, CountPages, CountBytes, RaisePeak, KeepPeak,
       WritePeak, StorePeak, RecordTotal, RecordPages, RecordBytes, LocalsOK
  <1>2. ASSUME NEW t \in Threads, UncountBytes(t)
        PROVE  tstats'[tn].bytes <= tstats[tn].bytes
    <2>1. CASE reg[t].ten # tn
      BY <1>0, <1>2, <2>1 DEF UncountBytes, ReleaseBytes, LocalsOK
    <2>2. CASE reg[t].ten = tn
      <3> DEFINE C == Charged(tn, BytesPcs)
      <3>1. tstats'[tn].bytes = (tstats[tn].bytes - PageSize) % U64
        BY <1>2, <2>2 DEF UncountBytes, ReleaseBytes, LocalsOK, FetchSub
      <3>2. tstats[tn].bytes = PageSize * C
        BY BytesValue
      <3>3. C \in Nat \ {0}
        <4>1. Within(tn, BytesPcs) \in SUBSET Threads /\ OfTenant(tn) \in SUBSET Bufs
          BY DEF Within, At, OfTenant, Live
        <4>2. IsFiniteSet(Within(tn, BytesPcs)) /\ IsFiniteSet(OfTenant(tn))
          BY <4>1, PoolAssumption, FS_Subset
        <4>3. Within(tn, BytesPcs) # {}
          BY <1>2, <2>2 DEF UncountBytes, Within, At, BytesPcs
        <4> QED  BY <4>2, <4>3, FS_EmptySet, FS_CardinalityType DEF Charged
      <3> HIDE DEF C
      <3>4. PageSize \in Nat /\ PageSize <= PageSize * C
        BY <3>3, PoolAssumption, SMT
      <3>5. tstats[tn].bytes - PageSize \in 0 .. U64 - 1
        <4> HIDE DEF IInv, TypeOK, TenantTypeOK, TenantCounters
        <4> QED  BY <1>0, <3>2, <3>4
      <3>6. \A x \in 0 .. U64 - 1 : x % U64 = x
        BY U64Assumption
      <3> QED  BY <1>0, <3>1, <3>4, <3>5, <3>6
    <2> QED  BY <2>1, <2>2
  <1>3. ASSUME NEW t \in Threads, DropPageStep(t), ~UncountBytes(t) PROVE Same
    BY <1>3 DEF DropPageStep, UncountPages, LoadHead, CasOk, CasFail, UncountInUse,
       CountFree, DropPageArc, ReleasePages, LocalsOK
  <1>4. ASSUME NEW t \in Threads, PrewarmStep(t) \/ ShutdownStep(t) \/ Call(t)
        PROVE  tstats' = tstats
    BY <1>4 DEF PrewarmStep, PrewarmPage, PrewarmPanics, PrewarmDone, PrewarmHeap, PrewarmFree,
       PrewarmCount, ShutdownStep, ReleaseLocal, DropPoolArc, SwapReturnQueue, ReleaseReturned,
       SharedDropped, Call, Allocate, Prewarm, DropPage, DropShared, DropPool
  <1>5. ASSUME NEW b \in Bufs, UserStep(b) PROVE tstats' = tstats
    BY <1>5 DEF UserStep, Write, Seal, ClonePage, DropClone
  <1>6. ASSUME NEW s \in Scrapers, CloneShared(s) PROVE tstats' = tstats
    BY <1>6 DEF CloneShared
  <1> QED  BY <1>0, <1>1, <1>2, <1>3, <1>4, <1>5, <1>6 DEF Next, Step, Finished, vars

\* Every step keeps the bytes covered.
LEMMA PeakCoversStep ==
  ASSUME IInv, IInv', TenantInv, PeakPending, PeakCovers, Next,
         PageSize * Cardinality(Bufs) < U64
  PROVE  PeakCovers'
  <1>0. ASSUME NEW tn \in Tenants
        PROVE  /\ tstats[tn].bytes \in Int /\ tstats'[tn].bytes \in Int
               /\ tstats[tn].peak \in Int /\ tstats'[tn].peak \in Int
    BY U64Assumption DEF IInv, TypeOK, TenantTypeOK, TenantCounters, Counter
  <1>1. ASSUME NEW u \in Threads, pc[u] \in PeakPcs PROVE reg[u].n \in Int
    BY <1>1, U64Assumption DEF IInv, LocalsOK, At, PeakPcs, Counter
  <1>2. ASSUME NEW tn \in Tenants, NEW u \in Threads, pc'[u] \in PeakPcs, reg'[u].ten = tn
        PROVE  tstats'[tn].bytes <= reg'[u].n
    <2>1. CASE CountBytes(u)
      <3>1. tstats'[tn].bytes = reg'[u].n
        BY <1>2, <2>1 DEF CountBytes, RecordBytes, NewBytes, IInv, TypeOK, Regs, TenantTypeOK,
           TenantCounters
      <3> QED  BY <1>0, <3>1
    <2>2. CASE ~CountBytes(u)
      <3>1. pc[u] \in PeakPcs /\ reg'[u] = reg[u]
        BY <1>2, <2>2, PeakPcsStep DEF RaisePeak, PeakPcs
      <3>2. tstats[tn].bytes <= reg[u].n
        BY <1>2, <3>1 DEF PeakCovers, Within, At
      <3>3. ASSUME NEW t \in Threads, CountBytes(t) PROVE FALSE
        BY <2>2, <3>1, <3>3 DEF CountBytes, IInv, ArcOK, At, PeakPcs
      <3>4. tstats'[tn].bytes <= tstats[tn].bytes
        BY <3>3, BytesStep DEF TenantInv
      <3> QED  BY <1>0, <1>1, <3>1, <3>2, <3>4
    <2> QED  BY <2>1, <2>2
  <1>3. ASSUME NEW tn \in Tenants, Within(tn, PeakPcs)' = {}
        PROVE  tstats'[tn].bytes <= tstats'[tn].peak
    <2>1. ASSUME NEW t \in Threads, CountBytes(t), reg[t].ten = tn PROVE FALSE
      <3>1. pc'[t] = "ra_peak" /\ reg'[t].ten = tn
        BY <2>1 DEF CountBytes, IInv, TypeOK, Regs
      <3> QED  BY <1>3, <3>1 DEF Within, At, PeakPcs
    <2>2. tstats'[tn].bytes <= tstats[tn].bytes
      BY <2>1, BytesStep DEF TenantInv
    <2>3. CASE Within(tn, PeakPcs) = {}
      <3>1. tstats[tn].bytes <= tstats[tn].peak
        BY <2>3 DEF PeakCovers
      <3>2. ASSUME NEW t \in Threads, WritePeak(t), reg[t].ten = tn PROVE FALSE
        BY <2>3, <3>2 DEF WritePeak, Within, At, PeakPcs
      <3>3. tstats'[tn].peak = tstats[tn].peak
        BY <3>2, PeakStep
      <3> QED  BY <1>0, <2>2, <3>1, <3>3
    <2>4. CASE Within(tn, PeakPcs) # {}
      <3>1. PICK u \in Threads : pc[u] \in PeakPcs /\ reg[u].ten = tn
        BY <2>4 DEF Within, At
      <3>2. tstats[tn].bytes <= reg[u].n
        BY <3>1 DEF PeakCovers, Within, At
      <3>3. KeepPeak(u) \/ WritePeak(u)
        <4>1. ~(pc'[u] \in PeakPcs /\ reg'[u].ten = tn)
          BY <1>3 DEF Within, At
        <4> QED  BY <3>1, <4>1, PeakLeaves
      <3>4. reg[u].n <= tstats'[tn].peak
        <4>1. CASE KeepPeak(u)
          BY <1>0, <1>1, <3>1, <4>1 DEF KeepPeak, AbovePeak
        <4>2. CASE WritePeak(u)
          BY <1>0, <1>1, <3>1, <4>2 DEF WritePeak, StorePeak, IInv, TypeOK, TenantTypeOK,
             TenantCounters
        <4> QED  BY <3>3, <4>1, <4>2
      <3> QED  BY <1>0, <1>1, <2>2, <3>1, <3>2, <3>4
    <2> QED  BY <2>3, <2>4
  <1> QED  BY <1>2, <1>3 DEF PeakCovers, Within, At

\* With one pool allocating for the tenant, the peak covers the bytes in use
\* outside the window of record_allocate.
THEOREM PeakCovered ==
  ASSUME PageSize * Cardinality(Bufs) < U64
  PROVE  Spec => []PeakCoversBytes
  <1>1. Init => PeakCovers
    <2>1. ASSUME Init, NEW tn \in Tenants
          PROVE  Within(tn, PeakPcs) = {} /\ tstats[tn].bytes <= tstats[tn].peak
      <3>1. tstats[tn].bytes = 0 /\ tstats[tn].peak = 0
        BY <2>1 DEF Init, TenantInit
      <3> QED  BY <2>1, <3>1 DEF Init, Within, At, PeakPcs
    <2> QED  BY <2>1 DEF PeakCovers
  <1>2. ASSUME UNCHANGED vars, PeakCovers PROVE PeakCovers'
    BY <1>2 DEF vars, PeakCovers, Within, At
  <1>3. IInv /\ IInv' /\ TenantInv /\ PeakPending /\ PeakCovers /\ [Next]_vars => PeakCovers'
    BY <1>2, PeakCoversStep
  <1>4. PeakCovers => PeakCoversBytes
    BY DEF PeakCovers, PeakCoversBytes, PeakPcs
  <1> QED  BY <1>1, <1>3, <1>4, InvariantHolds, TenantInvHolds, PeakPendingHolds, PTL DEF Spec

-----------------------------------------------------------------------------
(* The pool counters.                                                      *)

\* Locations of a thread whose page is counted in pages_in_use.
InUsePcs    == RecordPcs \cup PushPcs \cup {"push_in_use"}

\* Pushed onto the return queue, and not counted as free yet.
DroppingPcs == {"push_in_use", "push_free"}

\* Prewarmed, and not counted as free, or as allocated, yet.
UnfreePcs   == {"prewarm", "pw_heap", "pw_free"}
UnheapPcs   == {"prewarm", "pw_heap"}

\* What the three counters should be, modulo U64.
InUseCount == Cardinality(Live) + Cardinality(At(InUsePcs))
FreeCount  == Cardinality(FreeBufs) - Cardinality(At(DroppingPcs)) - Uncounted(UnfreePcs)
HeapCount  == Cardinality(mapped) + Cardinality(At({"source"})) - Uncounted(UnheapPcs)

\* free_pages and the pages obtained from the source are exact.
FreeHeapOK == pstats.free = FreeCount % U64 /\ pstats.heap = HeapCount % U64

\* prewarm counts as many pages as it has allocated.
PrewarmOK ==
  \A t \in Threads : /\ pc[t] \in {"pw_heap", "pw_free"} => reg[t].i = reg[t].n
                     /\ pc[t] \notin PrewarmPcs => reg[t].i = 0

\* PoolCountersExact, with what it needs about prewarm.
PoolInv ==
  /\ PrewarmOK
  /\ pstats.in_use = InUseCount % U64
  /\ PoolOpen => FreeHeapOK

\* The sets of buffers that are counted are finite.
LEMMA BufsFinite ==
  ASSUME IInv
  PROVE  /\ IsFiniteSet(Live) /\ IsFiniteSet(FreeBufs) /\ IsFiniteSet(mapped)
         /\ Cardinality(Live) \in Nat /\ Cardinality(FreeBufs) \in Nat
         /\ Cardinality(mapped) \in Nat
  <1>1. Live \in SUBSET Bufs /\ FreeBufs \in SUBSET Bufs /\ mapped \in SUBSET Bufs
    BY DEF Live, FreeBufs, IInv, TypeOK
  <1> QED  BY <1>1, PoolAssumption, FS_Subset, FS_CardinalityType

\* Only the thread that has the pool may be inside prewarm.
LEMMA UncountedMove ==
  ASSUME NEW t \in Threads, \A u \in Threads \ {t} : pc'[u] = pc[u] /\ pc[u] \notin PoolPcs,
         NEW S \in SUBSET PoolPcs
  PROVE  /\ Uncounted(S) = IF pc[t] \in S THEN reg[t].i ELSE 0
         /\ Uncounted(S)' = IF pc'[t] \in S THEN reg'[t].i ELSE 0
  <1>1. \A u \in Threads \ {t} : pc[u] \notin S /\ pc'[u] \notin S
    OBVIOUS
  <1>2. At(S) = IF pc[t] \in S THEN {t} ELSE {}
    BY <1>1 DEF At
  <1>3. At(S)' = IF pc'[t] \in S THEN {t} ELSE {}
    BY <1>1 DEF At
  <1> QED  BY <1>2, <1>3 DEF Uncounted

\* A step outside prewarm leaves the uncounted pages alone.
LEMMA UncountedSame ==
  ASSUME NEW S, \A u \in Threads : /\ pc'[u] \in S <=> pc[u] \in S
                                   /\ pc[u] \in S => reg'[u].i = reg[u].i
  PROVE  Uncounted(S)' = Uncounted(S)
  <1>1. At(S)' = At(S)
    BY DEF At
  <1>2. CASE At(S) = {}
    BY <1>1, <1>2 DEF Uncounted
  <1>3. CASE At(S) # {}
    <2>1. PICK u \in At(S) : u = CHOOSE t \in At(S) : TRUE
      BY <1>3
    <2>2. reg'[u].i = reg[u].i
      BY <2>1 DEF At
    <2> QED  BY <1>1, <1>3, <2>1, <2>2 DEF Uncounted
  <1> QED  BY <1>2, <1>3

\* Their number is a number.
LEMMA UncountedType ==
  ASSUME IInv, NEW S
  PROVE  Uncounted(S) \in Nat
  <1>1. CASE At(S) = {}
    BY <1>1 DEF Uncounted
  <1>2. CASE At(S) # {}
    <2>1. (CHOOSE t \in At(S) : TRUE) \in Threads
      BY <1>2 DEF At
    <2> QED  BY <1>2, <2>1 DEF Uncounted, IInv, TypeOK, Regs
  <1> QED  BY <1>1, <1>2

\* How the number of live pages changes when the page on buffer b does.
LEMMA LiveChange ==
  ASSUME IInv, NEW b \in Bufs, \A c \in Bufs \ {b} : page'[c] = page[c]
  PROVE  /\ Cardinality(Live') \in Nat /\ Cardinality(Live) \in Nat
         /\ Cardinality(Live') = Cardinality(Live) + (IF b \in Live' THEN 1 ELSE 0)
                                                   - (IF b \in Live THEN 1 ELSE 0)
  <1>1. IsFiniteSet(Live)
    BY BufsFinite
  <1>2. \A c : c # b => (c \in Live <=> c \in Live')
    BY DEF Live
  <1> QED  BY <1>1, <1>2, OneChange

\* A step that neither counts nor moves a page between handle and thread.
LEMMA InUseQuiet ==
  ASSUME PoolInv, Live' = Live, pstats'.in_use = pstats.in_use,
         \A u \in Threads : pc'[u] \in InUsePcs <=> pc[u] \in InUsePcs
  PROVE  pstats'.in_use = InUseCount' % U64
  <1>1. At(InUsePcs)' = At(InUsePcs)
    BY DEF At
  <1> QED  BY <1>1 DEF PoolInv, InUseCount

\* pages_in_use through allocate ...
LEMMA InUseAllocate ==
  ASSUME IInv, PoolInv, NEW t \in Threads, AllocateStep(t)
  PROVE  pstats'.in_use = InUseCount' % U64
  <1> USE DEF IInv, TypeOK, PoolStats
  <1>0. \A u \in Threads \ {t} : pc'[u] = pc[u]
    BY DEF AllocateStep, PopLocal, DrainReturnQueue, CountDrain, CountFresh, AllocateFresh,
           AllocatePanics, CountInUse, CountTotal, CountPages, CountBytes, RaisePeak,
           KeepPeak, WritePeak
  <1>1. CASE PopLocal(t) \/ DrainReturnQueue(t) \/ CountDrain(t) \/ CountFresh(t)
             \/ (\E b \in Bufs : AllocateFresh(t, b)) \/ AllocatePanics(t)
    BY <1>0, <1>1, InUseQuiet
       DEF PopLocal, DrainReturnQueue, CountDrain, CountFresh, AllocateFresh, AllocatePanics,
           Live, InUsePcs
  <1>2. CASE CountInUse(t)
    <2>1. /\ pc[t] = "in_use" /\ pc'[t] = "ra_total" /\ Live' = Live
          /\ pstats'.in_use = FetchAdd(pstats.in_use, 1)
      BY <1>2 DEF CountInUse, Live
    <2>2. /\ Cardinality(At(InUsePcs)) \in Nat
          /\ Cardinality(At(InUsePcs)') = Cardinality(At(InUsePcs)) + 1
      BY <1>0, <2>1, AtChange DEF InUsePcs
    <2>3. InUseCount \in Int /\ InUseCount' = InUseCount + 1
      BY <2>1, <2>2, BufsFinite DEF InUseCount
    <2> QED  BY <2>1, <2>3, FetchMod DEF PoolInv
  <1>3. CASE CountTotal(t) \/ CountPages(t) \/ CountBytes(t) \/ RaisePeak(t)
    BY <1>0, <1>3, InUseQuiet DEF CountTotal, CountPages, CountBytes, RaisePeak, Live, InUsePcs
  <1>4. CASE KeepPeak(t) \/ WritePeak(t)
    <2>1. pc[t] \in {"ra_peak", "ra_store"} /\ pc'[t] = "idle" /\ pstats' = pstats
      BY <1>4 DEF KeepPeak, WritePeak
    <2>2. PICK b \in Bufs : b = reg[t].buf /\ b \notin Live
      BY <2>1 DEF HoldersOK, At
    <2>3. page' = [page EXCEPT ![b] = [st |-> "builder", refs |-> 0, ten |-> reg[t].ten]]
      BY <1>4, <2>2 DEF KeepPeak, WritePeak, GiveBuilder
    <2>4. b \in Live' /\ \A c \in Bufs \ {b} : page'[c] = page[c]
      BY <2>3 DEF Live
    <2>5. Cardinality(Live) \in Nat /\ Cardinality(Live') = Cardinality(Live) + 1
      BY <2>2, <2>4, LiveChange
    <2>6. /\ Cardinality(At(InUsePcs)) \in Nat
          /\ Cardinality(At(InUsePcs)') = Cardinality(At(InUsePcs)) - 1
      BY <1>0, <2>1, AtChange DEF InUsePcs
    <2>7. InUseCount' = InUseCount
      BY <2>5, <2>6 DEF InUseCount
    <2> QED  BY <2>1, <2>7 DEF PoolInv
  <1> QED  BY <1>1, <1>2, <1>3, <1>4 DEF AllocateStep

\* ... through a page drop ...
LEMMA InUseDrop ==
  ASSUME IInv, PoolInv, NEW t \in Threads, DropPageStep(t)
  PROVE  pstats'.in_use = InUseCount' % U64
  <1> USE DEF IInv, TypeOK, PoolStats
  <1>0. \A u \in Threads \ {t} : pc'[u] = pc[u]
    BY DEF DropPageStep, UncountBytes, UncountPages, LoadHead, CasOk, CasFail, UncountInUse,
           CountFree, DropPageArc, DropArc
  <1>1. CASE UncountInUse(t)
    <2>1. /\ pc[t] = "push_in_use" /\ pc'[t] = "push_free" /\ Live' = Live
          /\ pstats'.in_use = FetchSub(pstats.in_use, 1)
      BY <1>1 DEF UncountInUse, Live
    <2>2. /\ Cardinality(At(InUsePcs)) \in Nat
          /\ Cardinality(At(InUsePcs)') = Cardinality(At(InUsePcs)) - 1
      BY <1>0, <2>1, AtChange DEF InUsePcs
    <2>3. InUseCount \in Int /\ InUseCount' = InUseCount - 1
      BY <2>1, <2>2, BufsFinite DEF InUseCount
    <2> QED  BY <2>1, <2>3, FetchMod DEF PoolInv
  <1>2. CASE ~UncountInUse(t)
    BY <1>0, <1>2, InUseQuiet
       DEF DropPageStep, UncountBytes, UncountPages, LoadHead, CasOk, CasFail, CountFree,
           DropPageArc, DropArc, Live, InUsePcs
  <1> QED  BY <1>1, <1>2

\* ... and through everything else: the start of a drop takes the page from its
\* handle.
LEMMA InUseOther ==
  ASSUME IInv, PoolInv, NEW t \in Threads, PrewarmStep(t) \/ ShutdownStep(t) \/ Call(t)
  PROVE  pstats'.in_use = InUseCount' % U64
  <1> USE DEF IInv, TypeOK, PoolStats
  <1>0. pstats'.in_use = pstats.in_use /\ \A u \in Threads \ {t} : pc'[u] = pc[u]
    BY DEF PrewarmStep, PrewarmPage, PrewarmPanics, PrewarmDone, PrewarmHeap, PrewarmFree,
           PrewarmCount, ShutdownStep, ReleaseLocal, DropPoolArc, DropArc, SwapReturnQueue,
           ReleaseReturned, SharedDropped, Call, Allocate, Prewarm, DropPage, DropShared, DropPool
  <1>1. ASSUME NEW b \in Bufs, DropPage(t, b) PROVE pstats'.in_use = InUseCount' % U64
    <2>1. /\ pc[t] = "idle" /\ pc'[t] = "rr_bytes"
          /\ b \in Live /\ b \notin Live' /\ \A c \in Bufs \ {b} : page'[c] = page[c]
      BY <1>1 DEF DropPage, Live
    <2>2. Cardinality(Live) \in Nat /\ Cardinality(Live') = Cardinality(Live) - 1
      BY <2>1, LiveChange
    <2>3. /\ Cardinality(At(InUsePcs)) \in Nat
          /\ Cardinality(At(InUsePcs)') = Cardinality(At(InUsePcs)) + 1
      BY <1>0, <2>1, AtChange DEF InUsePcs
    <2>4. InUseCount' = InUseCount
      BY <2>2, <2>3 DEF InUseCount
    <2> QED  BY <1>0, <2>4 DEF PoolInv
  <1>2. ASSUME page' = page, pc[t] \notin InUsePcs, pc'[t] \notin InUsePcs
        PROVE  pstats'.in_use = InUseCount' % U64
    BY <1>0, <1>2, InUseQuiet DEF Live
  <1>3. CASE PrewarmStep(t)
    BY <1>2, <1>3 DEF PrewarmStep, PrewarmPage, PrewarmPanics, PrewarmDone, PrewarmHeap,
       PrewarmFree, PrewarmCount, InUsePcs
  <1>4. CASE ShutdownStep(t)
    BY <1>2, <1>4 DEF ShutdownStep, ReleaseLocal, DropPoolArc, DropArc, SwapReturnQueue,
       ReleaseReturned, SharedDropped, InUsePcs
  <1>5. CASE Call(t)
    BY <1>1, <1>2, <1>5 DEF Call, Allocate, Prewarm, DropShared, DropPool, DropArc, InUsePcs
  <1> QED  BY <1>3, <1>4, <1>5

\* The pool's buffers depend on what is mapped, live and held.
LEMMA FreeSame ==
  ASSUME mapped' = mapped, Live' = Live,
         \A t \in Threads :
           /\ pc'[t] \in HoldPcs <=> pc[t] \in HoldPcs
           /\ pc[t] \in HoldPcs => reg'[t].buf = reg[t].buf
  PROVE  FreeBufs' = FreeBufs
  <1>1. Held' = Held
    BY HeldSame
  <1> QED  BY <1>1 DEF FreeBufs

\* A step that moves no buffer into or out of the pool and counts nothing.
LEMMA FreeHeapQuiet ==
  ASSUME FreeHeapOK, mapped' = mapped, FreeBufs' = FreeBufs,
         pstats'.free = pstats.free, pstats'.heap = pstats.heap,
         \A u \in Threads :
           /\ pc'[u] \in DroppingPcs <=> pc[u] \in DroppingPcs
           /\ pc'[u] = "source" <=> pc[u] = "source",
         Uncounted(UnfreePcs)' = Uncounted(UnfreePcs),
         Uncounted(UnheapPcs)' = Uncounted(UnheapPcs)
  PROVE  FreeHeapOK'
  <1>1. At(DroppingPcs)' = At(DroppingPcs) /\ At({"source"})' = At({"source"})
    BY DEF At
  <1> QED  BY <1>1 DEF FreeHeapOK, FreeCount, HeapCount

\* allocate: a pop is counted at once, a fresh page before the source is asked.
LEMMA AllocateFreeHeap ==
  ASSUME IInv, FreeHeapOK, ~SourceMayFail, NEW t \in Threads, AllocateStep(t)
  PROVE  FreeHeapOK'
  <1> USE DEF IInv, TypeOK, PoolStats, Regs
  <1>0. /\ \A u \in Threads \ {t} : pc'[u] = pc[u] /\ reg'[u] = reg[u] /\ pc[u] \notin PoolPcs
        /\ pc[t] \in PoolPcs \ {"pool_drop"} /\ pc[t] \notin PrewarmPcs /\ pc'[t] \notin PrewarmPcs
        /\ pc[t] \notin DroppingPcs /\ pc'[t] \notin DroppingPcs
        /\ NULL \notin Bufs
    <2>1. /\ \A u \in Threads \ {t} : pc'[u] = pc[u] /\ reg'[u] = reg[u]
          /\ pc[t] \in PoolPcs \ {"pool_drop"} /\ pc[t] \notin PrewarmPcs
          /\ pc'[t] \notin PrewarmPcs /\ pc'[t] \notin DroppingPcs
      BY DEF AllocateStep, PopLocal, DrainReturnQueue, CountDrain, CountFresh, AllocateFresh,
           AllocatePanics, CountInUse, CountTotal, CountPages, CountBytes, RaisePeak,
           KeepPeak, WritePeak, GiveBuilder, DroppingPcs
    <2> QED  BY <2>1, PoolAssumption DEF ArcOK, At, DroppingPcs
  <1>1. /\ Uncounted(UnfreePcs) = 0 /\ Uncounted(UnfreePcs)' = 0
        /\ Uncounted(UnheapPcs) = 0 /\ Uncounted(UnheapPcs)' = 0
    BY <1>0, UncountedMove DEF UnfreePcs, UnheapPcs
  <1>2. /\ Cardinality(At(DroppingPcs)) \in Nat
        /\ Cardinality(At(DroppingPcs)') = Cardinality(At(DroppingPcs))
    BY <1>0, AtChange
  <1>3. /\ Cardinality(At({"source"})) \in Nat
        /\ Cardinality(At({"source"})') = Cardinality(At({"source"}))
             + (IF pc'[t] = "source" THEN 1 ELSE 0) - (IF pc[t] = "source" THEN 1 ELSE 0)
    BY <1>0, AtChange
  <1>4. ASSUME mapped' = mapped, FreeBufs' = FreeBufs, pstats'.free = pstats.free,
               pstats'.heap = pstats.heap, pc[t] # "source", pc'[t] # "source"
        PROVE  FreeHeapOK'
    BY <1>1, <1>2, <1>3, <1>4, BufsFinite DEF FreeHeapOK, FreeCount, HeapCount
  <1>5. CASE PopLocal(t)
    <2>1. PICK b \in FreeBufs : b = local_head
      BY <1>0, <1>5 DEF PopLocal, ChainsOK, Heads
    <2>2. Held' = Held \cup {b}
      BY <1>0, <1>5, <2>1, HeldGain DEF PopLocal
    <2>3. /\ FreeBufs' = FreeBufs \ {b} /\ mapped' = mapped
          /\ pstats'.free = FetchSub(pstats.free, 1) /\ pstats'.heap = pstats.heap
          /\ pc[t] # "source" /\ pc'[t] # "source"
      BY <1>5, <2>2 DEF PopLocal, FreeBufs, Live
    <2>4. Cardinality(FreeBufs') = Cardinality(FreeBufs) - 1
      BY <2>1, <2>3, BufsFinite, FS_RemoveElement
    <2>5. FreeCount \in Int /\ FreeCount' = FreeCount - 1 /\ HeapCount' = HeapCount
      BY <1>1, <1>2, <1>3, <2>3, <2>4, BufsFinite DEF FreeCount, HeapCount
    <2> QED  BY <2>3, <2>5, FetchMod DEF FreeHeapOK
  <1>6. ASSUME NEW b \in Bufs, AllocateFresh(t, b) PROVE FreeHeapOK'
    <2>1. Held' = Held \cup {b}
      BY <1>0, <1>6, HeldGain DEF AllocateFresh
    <2>2. /\ b \notin mapped /\ mapped' = mapped \cup {b} /\ Live' = Live /\ pstats' = pstats
          /\ pc[t] = "source" /\ pc'[t] # "source"
      BY <1>6 DEF AllocateFresh, SourceAllocate, Live
    <2>3. FreeBufs' = FreeBufs
      BY <2>1, <2>2 DEF FreeBufs
    <2>4. Cardinality(mapped') = Cardinality(mapped) + 1
      BY <2>2, BufsFinite, FS_AddElement
    <2>5. FreeCount' = FreeCount /\ HeapCount' = HeapCount
      BY <1>1, <1>2, <1>3, <2>2, <2>3, <2>4, BufsFinite DEF FreeCount, HeapCount
    <2> QED  BY <2>2, <2>5 DEF FreeHeapOK
  <1>7. CASE CountFresh(t)
    <2>1. /\ pc[t] = "fresh" /\ pc'[t] = "source" /\ mapped' = mapped /\ Live' = Live
          /\ pstats'.heap = FetchAdd(pstats.heap, 1) /\ pstats'.free = pstats.free /\ reg' = reg
      BY <1>7 DEF CountFresh, Live
    <2>2. FreeBufs' = FreeBufs
      BY <1>0, <2>1, FreeSame
    <2>3. FreeCount' = FreeCount /\ HeapCount' = HeapCount + 1 /\ HeapCount \in Int
      BY <1>1, <1>2, <1>3, <2>1, <2>2, BufsFinite DEF FreeCount, HeapCount
    <2> QED  BY <2>1, <2>3, FetchMod DEF FreeHeapOK
  <1>8. CASE KeepPeak(t) \/ WritePeak(t)
    <2>1. reg[t].buf \in Bufs /\ reg[t].buf \in Held /\ reg[t].buf \notin Live
      BY <1>0, <1>8 DEF HoldersOK, Held, At, KeepPeak, WritePeak
    <2>2. Live' = Live \cup {reg[t].buf} /\ mapped' = mapped
      BY <1>8, <2>1 DEF KeepPeak, WritePeak, GiveBuilder, Live
    <2>3. Held' = Held \ {reg[t].buf}
      BY <1>0, <1>8, HeldLose DEF KeepPeak, WritePeak
    <2>4. FreeBufs' = FreeBufs
      BY <2>1, <2>2, <2>3 DEF FreeBufs
    <2> QED  BY <1>4, <1>8, <2>2, <2>4 DEF KeepPeak, WritePeak
  <1>9. CASE DrainReturnQueue(t) \/ CountDrain(t) \/ CountInUse(t) \/ CountTotal(t)
             \/ CountPages(t) \/ CountBytes(t) \/ RaisePeak(t)
    <2>1. FreeBufs' = FreeBufs
      BY <1>0, <1>9, FreeSame DEF DrainReturnQueue, CountDrain, CountInUse, CountTotal,
         CountPages, CountBytes, RaisePeak, Live
    <2> QED
      BY <1>4, <1>9, <2>1 DEF DrainReturnQueue, CountDrain, CountInUse, CountTotal,
         CountPages, CountBytes, RaisePeak
  <1> QED
    BY <1>5, <1>6, <1>7, <1>8, <1>9 DEF AllocateStep, AllocatePanics

\* A page drop: the push comes first and is counted two steps later.
LEMMA DropFreeHeap ==
  ASSUME IInv, FreeHeapOK, NEW t \in Threads, DropPageStep(t)
  PROVE  FreeHeapOK'
  <1> USE DEF IInv, TypeOK, PoolStats, Regs
  <1>0. /\ \A u \in Threads \ {t} : pc'[u] = pc[u] /\ reg'[u] = reg[u]
        /\ pc[t] \notin UnfreePcs \cup {"source"} /\ pc'[t] \notin UnfreePcs \cup {"source"}
        /\ NULL \notin Bufs /\ mapped' = mapped /\ Live' = Live /\ pstats'.heap = pstats.heap
    BY PoolAssumption
       DEF DropPageStep, UncountBytes, UncountPages, LoadHead, CasOk, CasFail, UncountInUse,
           CountFree, DropPageArc, DropArc, UnfreePcs, Live
  <1>1. /\ Uncounted(UnfreePcs)' = Uncounted(UnfreePcs) /\ Uncounted(UnheapPcs)' = Uncounted(UnheapPcs)
        /\ Uncounted(UnfreePcs) \in Nat
    BY <1>0, UncountedSame, UncountedType DEF UnfreePcs, UnheapPcs
  <1>2. HeapCount' = HeapCount
    <2>1. At({"source"})' = At({"source"})
      BY <1>0 DEF At
    <2> QED  BY <1>0, <1>1, <2>1 DEF HeapCount
  <1>3. /\ Cardinality(At(DroppingPcs)) \in Nat
        /\ Cardinality(At(DroppingPcs)') = Cardinality(At(DroppingPcs))
             + (IF pc'[t] \in DroppingPcs THEN 1 ELSE 0) - (IF pc[t] \in DroppingPcs THEN 1 ELSE 0)
    BY <1>0, AtChange
  <1>4. CASE CasOk(t)
    <2>1. PICK b \in Bufs : b = reg[t].buf /\ b \in Held /\ b \in mapped \ Live
      BY <1>4 DEF CasOk, HoldersOK, Held, At
    <2>2. Held' = Held \ {b}
      BY <1>0, <1>4, <2>1, HeldLose DEF CasOk
    <2>3. FreeBufs' = FreeBufs \cup {b} /\ b \notin FreeBufs
      BY <1>0, <2>1, <2>2 DEF FreeBufs
    <2>4. Cardinality(FreeBufs') = Cardinality(FreeBufs) + 1
      BY <2>3, BufsFinite, FS_AddElement
    <2>5. pc[t] \notin DroppingPcs /\ pc'[t] \in DroppingPcs /\ pstats' = pstats
      BY <1>4 DEF CasOk, DroppingPcs
    <2>6. FreeCount' = FreeCount
      BY <1>1, <1>3, <2>4, <2>5, BufsFinite DEF FreeCount
    <2> QED  BY <1>2, <2>5, <2>6 DEF FreeHeapOK
  <1>5. CASE ~CasOk(t)
    <2>1. FreeBufs' = FreeBufs
      BY <1>0, <1>5, FreeSame DEF DropPageStep, UncountBytes, UncountPages, LoadHead, CasFail,
         UncountInUse, CountFree, DropPageArc, DropArc
    <2>2. CASE CountFree(t)
      <3>1. /\ pc[t] \in DroppingPcs /\ pc'[t] \notin DroppingPcs
            /\ pstats'.free = FetchAdd(pstats.free, 1)
        BY <2>2 DEF CountFree, DroppingPcs
      <3>2. FreeCount \in Int /\ FreeCount' = FreeCount + 1
        BY <1>1, <1>3, <2>1, <3>1, BufsFinite DEF FreeCount
      <3>3. pstats.free = FreeCount % U64 /\ pstats.heap = HeapCount % U64
        BY DEF FreeHeapOK
      <3>4. pstats'.free = FreeCount' % U64
        BY <3>1, <3>2, <3>3, FetchMod
      <3> QED  BY <1>0, <1>2, <3>3, <3>4 DEF FreeHeapOK
    <2>3. CASE ~CountFree(t)
      <3>1. /\ pstats'.free = pstats.free
            /\ pc'[t] \in DroppingPcs <=> pc[t] \in DroppingPcs
        BY <1>5, <2>3 DEF DropPageStep, UncountBytes, UncountPages, LoadHead, CasFail,
           UncountInUse, DropPageArc, DropArc, DroppingPcs
      <3>2. FreeCount' = FreeCount
        BY <1>1, <1>3, <2>1, <3>1, BufsFinite DEF FreeCount
      <3> QED  BY <1>0, <1>2, <3>1, <3>2 DEF FreeHeapOK
    <2> QED  BY <2>2, <2>3
  <1> QED  BY <1>4, <1>5

\* prewarm: all pages first, then both counts.
LEMMA PrewarmFreeHeap ==
  ASSUME IInv, PrewarmOK, FreeHeapOK, ~SourceMayFail, NEW t \in Threads, PrewarmStep(t)
  PROVE  FreeHeapOK'
  <1> USE DEF IInv, TypeOK, PoolStats, Regs
  <1>0. /\ \A u \in Threads \ {t} : pc'[u] = pc[u] /\ reg'[u] = reg[u]
        /\ pc[t] \in PrewarmPcs /\ pc'[t] \in PrewarmPcs \cup {"idle"} /\ Live' = Live
        /\ reg[t].i \in Nat /\ reg[t].n \in Nat
    BY DEF PrewarmStep, PrewarmPage, PrewarmPanics, PrewarmDone, PrewarmHeap, PrewarmFree,
           PrewarmCount, Live
  <1>1. \A u \in Threads \ {t} : pc[u] \notin PoolPcs
    BY <1>0 DEF ArcOK, At
  <1>2. /\ Uncounted(UnfreePcs) = IF pc[t] \in UnfreePcs THEN reg[t].i ELSE 0
        /\ Uncounted(UnfreePcs)' = IF pc'[t] \in UnfreePcs THEN reg'[t].i ELSE 0
        /\ Uncounted(UnheapPcs) = IF pc[t] \in UnheapPcs THEN reg[t].i ELSE 0
        /\ Uncounted(UnheapPcs)' = IF pc'[t] \in UnheapPcs THEN reg'[t].i ELSE 0
    BY <1>0, <1>1, UncountedMove DEF UnfreePcs, UnheapPcs
  <1>3. /\ At(DroppingPcs)' = At(DroppingPcs) /\ At({"source"})' = At({"source"})
        /\ Cardinality(At(DroppingPcs)) \in Nat /\ Cardinality(At({"source"})) \in Nat
    <2>1. At(DroppingPcs)' = At(DroppingPcs) /\ At({"source"})' = At({"source"})
      BY <1>0 DEF At, DroppingPcs
    <2> QED  BY <1>0, <2>1, AtChange
  <1>4. Held' = Held
    BY <1>0, HeldSame
  <1>5. ASSUME NEW b \in Bufs, PrewarmPage(t, b) PROVE FreeHeapOK'
    <2>1. /\ b \notin mapped /\ mapped' = mapped \cup {b} /\ b \notin Held /\ b \notin Live
          /\ pc[t] = "prewarm" /\ pc'[t] = "prewarm" /\ reg'[t].i = reg[t].i + 1
          /\ pstats' = pstats
      BY <1>5 DEF PrewarmPage, SourceAllocate, HoldersOK, Held
    <2>2. FreeBufs' = FreeBufs \cup {b} /\ b \notin FreeBufs
      BY <1>0, <1>4, <2>1 DEF FreeBufs
    <2>3. /\ Cardinality(FreeBufs') = Cardinality(FreeBufs) + 1
          /\ Cardinality(mapped') = Cardinality(mapped) + 1
      BY <2>1, <2>2, BufsFinite, FS_AddElement
    <2>4. FreeCount' = FreeCount /\ HeapCount' = HeapCount
      BY <1>0, <1>2, <1>3, <2>1, <2>3, BufsFinite DEF FreeCount, HeapCount, UnfreePcs, UnheapPcs
    <2> QED  BY <2>1, <2>4 DEF FreeHeapOK
  <1>6. ASSUME mapped' = mapped PROVE FreeBufs' = FreeBufs
    BY <1>0, <1>4, <1>6 DEF FreeBufs
  <1>7. CASE PrewarmDone(t) \/ PrewarmCount(t)
    <2>1. /\ FreeBufs' = FreeBufs /\ mapped' = mapped
          /\ pstats'.free = pstats.free /\ pstats'.heap = pstats.heap
      BY <1>6, <1>7 DEF PrewarmDone, PrewarmCount
    <2>2. /\ Uncounted(UnfreePcs)' = Uncounted(UnfreePcs)
          /\ Uncounted(UnheapPcs)' = Uncounted(UnheapPcs)
      BY <1>2, <1>7 DEF PrewarmDone, PrewarmCount, UnfreePcs, UnheapPcs
    <2> QED  BY <1>3, <2>1, <2>2 DEF FreeHeapOK, FreeCount, HeapCount
  <1>8. CASE PrewarmHeap(t)
    <2>1. /\ FreeBufs' = FreeBufs /\ mapped' = mapped /\ pstats'.free = pstats.free
          /\ pstats'.heap = FetchAdd(pstats.heap, reg[t].n) /\ reg' = reg
          /\ pc[t] = "pw_heap" /\ pc'[t] = "pw_free" /\ reg[t].i = reg[t].n
      BY <1>6, <1>8 DEF PrewarmHeap, PrewarmOK
    <2>2. /\ HeapCount \in Int /\ HeapCount' = HeapCount + reg[t].n /\ FreeCount' = FreeCount
      BY <1>0, <1>2, <1>3, <2>1, BufsFinite DEF FreeCount, HeapCount, UnfreePcs, UnheapPcs
    <2> QED  BY <1>0, <2>1, <2>2, FetchMod DEF FreeHeapOK
  <1>9. CASE PrewarmFree(t)
    <2>1. /\ FreeBufs' = FreeBufs /\ mapped' = mapped /\ pstats'.heap = pstats.heap
          /\ pstats'.free = FetchAdd(pstats.free, reg[t].n) /\ reg' = reg
          /\ pc[t] = "pw_free" /\ pc'[t] = "pw_count" /\ reg[t].i = reg[t].n
      BY <1>6, <1>9 DEF PrewarmFree, PrewarmOK
    <2>2. /\ FreeCount \in Int /\ FreeCount' = FreeCount + reg[t].n /\ HeapCount' = HeapCount
      BY <1>0, <1>2, <1>3, <2>1, BufsFinite DEF FreeCount, HeapCount, UnfreePcs, UnheapPcs
    <2> QED  BY <1>0, <2>1, <2>2, FetchMod DEF FreeHeapOK
  <1> QED
    BY <1>5, <1>7, <1>8, <1>9 DEF PrewarmStep, PrewarmPanics

\* The start of a call moves no buffer.
LEMMA CallFreeHeap ==
  ASSUME IInv, PrewarmOK, FreeHeapOK, NEW t \in Threads, Call(t), ~DropPool(t)
  PROVE  FreeHeapOK'
  <1> USE DEF IInv, TypeOK, Regs
  <1>0. /\ \A u \in Threads \ {t} : pc'[u] = pc[u] /\ reg'[u] = reg[u]
        /\ pc[t] = "idle" /\ pc'[t] \notin DroppingPcs \cup {"source", "pw_heap", "pw_free"}
        /\ mapped' = mapped /\ pstats' = pstats
        /\ pc'[t] = "prewarm" => reg'[t].i = 0 /\ \A u \in Threads : pc[u] \notin PoolPcs
    <2>1. /\ \A u \in Threads \ {t} : pc'[u] = pc[u] /\ reg'[u] = reg[u]
          /\ pc[t] = "idle" /\ pc'[t] \notin DroppingPcs \cup {"source", "pw_heap", "pw_free"}
          /\ mapped' = mapped /\ pstats' = pstats
      BY DEF Call, Allocate, Prewarm, DropPage, DropShared, DropArc, DroppingPcs
    <2>2. ASSUME pc'[t] = "prewarm" PROVE \E n \in 0 .. MaxPrewarm : Prewarm(t, n)
      BY <2>2 DEF Call, Allocate, DropPage, DropShared, DropArc
    <2>3. ASSUME NEW n \in 0 .. MaxPrewarm, Prewarm(t, n)
          PROVE  reg'[t].i = 0 /\ \A u \in Threads : pc[u] \notin PoolPcs
      BY <2>3 DEF Prewarm, PoolFree, PrewarmOK
    <2> QED  BY <2>1, <2>2, <2>3
  <1>1. /\ Uncounted(UnfreePcs)' = Uncounted(UnfreePcs)
        /\ Uncounted(UnheapPcs)' = Uncounted(UnheapPcs)
    <2>1. CASE pc'[t] = "prewarm"
      BY <1>0, <2>1, UncountedMove DEF UnfreePcs, UnheapPcs
    <2>2. CASE pc'[t] # "prewarm"
      BY <1>0, <2>2, UncountedSame DEF UnfreePcs, UnheapPcs
    <2> QED  BY <2>1, <2>2
  <1>2. FreeBufs' = FreeBufs
    <2>1. ASSUME NEW b \in Bufs, DropPage(t, b) PROVE FreeBufs' = FreeBufs
      <3>1. b \in Live /\ b \notin Held /\ Live' = Live \ {b}
        BY <2>1 DEF DropPage, Live, HoldersOK, Held
      <3>2. Held' = Held \cup {b}
        BY <1>0, <2>1, HeldGain DEF DropPage
      <3> QED  BY <1>0, <3>1, <3>2 DEF FreeBufs
    <2>2. ASSUME page' = page, pc'[t] \notin HoldPcs PROVE FreeBufs' = FreeBufs
      BY <1>0, <2>2, FreeSame DEF Live
    <2> QED  BY <2>1, <2>2 DEF Call, Allocate, Prewarm, DropShared, DropArc
  <1> QED  BY <1>0, <1>1, <1>2, FreeHeapQuiet DEF DroppingPcs

\* The loop of prewarm ends when it has allocated what it was asked for.
LEMMA PrewarmStepOK ==
  ASSUME IInv, PrewarmOK, Next
  PROVE  PrewarmOK'
  <1> USE DEF IInv, TypeOK, Regs, PrewarmOK
  <1>1. ASSUME NEW t \in Threads, AllocateStep(t) PROVE PrewarmOK'
    BY <1>1 DEF AllocateStep, PopLocal, DrainReturnQueue, CountDrain, CountFresh, AllocateFresh,
       AllocatePanics, CountInUse, CountTotal, CountPages, CountBytes, RaisePeak, KeepPeak,
       WritePeak, GiveBuilder
  <1>2. ASSUME NEW t \in Threads, DropPageStep(t) PROVE PrewarmOK'
    BY <1>2 DEF DropPageStep, UncountBytes, UncountPages, LoadHead, CasOk, CasFail, UncountInUse,
       CountFree, DropPageArc, DropArc
  <1>3. ASSUME NEW t \in Threads, PrewarmStep(t) PROVE PrewarmOK'
    BY <1>3 DEF PrewarmStep, PrewarmPage, PrewarmPanics, PrewarmDone, PrewarmHeap, PrewarmFree,
       PrewarmCount
  <1>4. ASSUME NEW t \in Threads, ShutdownStep(t) PROVE PrewarmOK'
    BY <1>4 DEF ShutdownStep, ReleaseLocal, DropPoolArc, DropArc, SwapReturnQueue, ReleaseReturned,
       SharedDropped
  <1>5. ASSUME NEW t \in Threads, Call(t) PROVE PrewarmOK'
    <2>1. ASSUME NEW n \in 0 .. MaxPrewarm, Prewarm(t, n) PROVE PrewarmOK'
      BY <2>1 DEF Prewarm
    <2>2. ASSUME NEW b \in Bufs, DropPage(t, b) PROVE PrewarmOK'
      BY <2>2 DEF DropPage
    <2>3. ASSUME NEW tn \in Tenants, Allocate(t, tn) PROVE PrewarmOK'
      BY <2>3 DEF Allocate
    <2> QED  BY <1>5, <2>1, <2>2, <2>3 DEF Call, DropShared, DropPool, DropArc
  <1>6. ASSUME NEW b \in Bufs, UserStep(b) PROVE PrewarmOK'
    BY <1>6 DEF UserStep, Write, Seal, ClonePage, DropClone
  <1>7. ASSUME NEW s \in Scrapers, CloneShared(s) PROVE PrewarmOK'
    BY <1>7 DEF CloneShared
  <1> QED  BY <1>1, <1>2, <1>3, <1>4, <1>5, <1>6, <1>7 DEF Next, Step, Finished, vars

\* A pool that is open was open before the step.
LEMMA OpenBefore ==
  ASSUME IInv, Next, PoolOpen'
  PROVE  PoolOpen /\ \A t \in Threads : ~DropPool(t) /\ ~ShutdownStep(t)
  <1> USE DEF IInv, TypeOK
  <1>1. ASSUME NEW t \in Threads, DropPool(t) PROVE FALSE
    BY <1>1 DEF DropPool, PoolOpen, At
  <1>2. ASSUME NEW t \in Threads, ShutdownStep(t) PROVE FALSE
    <2>1. pc[t] = "pool_drop" \/ strong = {}
      BY <1>2 DEF ShutdownStep, ReleaseLocal, DropPoolArc, DropArc, SwapReturnQueue,
         ReleaseReturned, SharedDropped, ArcOK, At
    <2>2. pc'[t] = pc[t] \/ POOL \notin strong'
      BY <1>2, <2>1 DEF ShutdownStep, ReleaseLocal, DropPoolArc, DropArc, SwapReturnQueue,
         ReleaseReturned, SharedDropped, ArcOK, At
    <2>3. strong' \subseteq strong
      BY <1>2 DEF ShutdownStep, ReleaseLocal, DropPoolArc, DropArc, SwapReturnQueue,
         ReleaseReturned, SharedDropped
    <2> QED  BY <2>1, <2>2, <2>3 DEF PoolOpen, At
  <1>3. POOL \in strong
    <2>1. ASSUME NEW t \in Threads, Step(t) \/ Call(t), POOL \notin strong PROVE POOL \notin strong'
      <3>1. CASE CountInUse(t)
        BY <2>1, <3>1, PoolAssumption DEF CountInUse, HoldersOK, At
      <3>2. ASSUME NEW b \in Bufs, DropPage(t, b) PROVE POOL \notin strong'
        BY <2>1, <3>2, PoolAssumption DEF DropPage
      <3>3. CASE AllocateStep(t)
        BY <2>1, <3>1, <3>3
           DEF AllocateStep, PopLocal, DrainReturnQueue, CountDrain, CountFresh, AllocateFresh,
           AllocatePanics, CountTotal, CountPages, CountBytes, RaisePeak, KeepPeak, WritePeak
      <3>4. CASE DropPageStep(t)
        BY <2>1, <3>4
           DEF DropPageStep, UncountBytes, UncountPages, LoadHead, CasOk, CasFail, UncountInUse,
           CountFree, DropPageArc, DropArc
      <3>5. CASE PrewarmStep(t)
        BY <2>1, <3>5
           DEF PrewarmStep, PrewarmPage, PrewarmPanics, PrewarmDone, PrewarmHeap, PrewarmFree,
           PrewarmCount
      <3>6. CASE ShutdownStep(t)
        BY <1>2, <3>6
      <3>7. CASE Call(t)
        BY <2>1, <3>2, <3>7 DEF Call, Allocate, Prewarm, DropShared, DropPool, DropArc
      <3> QED  BY <2>1, <3>3, <3>4, <3>5, <3>6, <3>7 DEF Step
    <2>2. ASSUME NEW b \in Bufs, UserStep(b) PROVE strong' = strong
      BY <2>2 DEF UserStep, Write, Seal, ClonePage, DropClone
    <2>3. ASSUME NEW s \in Scrapers, CloneShared(s), POOL \notin strong PROVE POOL \notin strong'
      BY <2>3, PoolAssumption DEF CloneShared
    <2> QED  BY <2>1, <2>2, <2>3 DEF Next, Finished, vars, PoolOpen
  <1>4. At({"pool_drop"}) = {}
    <2> SUFFICES ASSUME NEW u \in Threads, pc[u] = "pool_drop" PROVE FALSE
      BY DEF At
    <2>1. pc'[u] # "pool_drop"
      BY DEF PoolOpen, At
    <2>2. ASSUME NEW t \in Threads, Step(t) \/ Call(t), ~ShutdownStep(t) PROVE pc'[u] = pc[u]
      BY <2>2
         DEF Step, AllocateStep, PopLocal, DrainReturnQueue, CountDrain, CountFresh, AllocateFresh,
         AllocatePanics, CountInUse, CountTotal, CountPages, CountBytes, RaisePeak, KeepPeak,
         WritePeak, DropPageStep, UncountBytes, UncountPages, LoadHead, CasOk, CasFail,
         UncountInUse, CountFree, DropPageArc, DropArc, PrewarmStep, PrewarmPage, PrewarmPanics,
         PrewarmDone, PrewarmHeap, PrewarmFree, PrewarmCount, Call, Allocate, Prewarm,
         DropPage, DropShared, DropPool
    <2>3. ASSUME NEW b \in Bufs, UserStep(b) PROVE pc' = pc
      BY <2>3 DEF UserStep, Write, Seal, ClonePage, DropClone
    <2>4. ASSUME NEW s \in Scrapers, CloneShared(s) PROVE pc' = pc
      BY <2>4 DEF CloneShared
    <2> QED  BY <1>2, <2>1, <2>2, <2>3, <2>4 DEF Next, Finished, vars
  <1> QED  BY <1>1, <1>2, <1>3, <1>4 DEF PoolOpen

\* With a source that does not panic, pages_in_use, free_pages and the pages
\* obtained from the source are exact at every moment, up to the threads that are
\* between a list operation and its count.
THEOREM PoolCounted ==
  ASSUME ~SourceMayFail
  PROVE  Spec => []PoolCountersExact
  <1>1. Init => PoolInv
    <2> SUFFICES ASSUME Init PROVE PoolInv
      OBVIOUS
    <2>1. Live = {} /\ mapped = {} /\ FreeBufs = {} /\ \A S \in SUBSET (Pcs \ {"idle"}) : At(S) = {}
      BY DEF Init, Live, FreeBufs, At
    <2>2. /\ At(InUsePcs) = {} /\ At(DroppingPcs) = {} /\ At({"source"}) = {}
          /\ At(UnfreePcs) = {} /\ At(UnheapPcs) = {}
      BY <2>1 DEF InUsePcs, DroppingPcs, UnfreePcs, UnheapPcs, Pcs
    <2>3. InUseCount = 0 /\ FreeCount = 0 /\ HeapCount = 0
      BY <2>1, <2>2, FS_EmptySet DEF InUseCount, FreeCount, HeapCount, Uncounted
    <2>4. 0 % U64 = 0
      BY U64Assumption
    <2> QED  BY <2>3, <2>4 DEF Init, PoolInv, PrewarmOK, FreeHeapOK
  <1>2. ASSUME IInv, PoolInv, Next PROVE PoolInv'
    <2>1. PrewarmOK'
      BY <1>2, PrewarmStepOK DEF PoolInv
    <2>2. ASSUME NEW b \in Bufs, UserStep(b)
          PROVE  pc' = pc /\ reg' = reg /\ pstats' = pstats /\ mapped' = mapped /\ Live' = Live
      BY <1>2, <2>2 DEF UserStep, Write, Seal, ClonePage, DropClone, Live, IInv, TypeOK, PageStates
    <2>3. ASSUME NEW s \in Scrapers, CloneShared(s)
          PROVE  pc' = pc /\ reg' = reg /\ pstats' = pstats /\ mapped' = mapped /\ Live' = Live
      BY <2>3 DEF CloneShared, Live
    <2>4. CASE pc' = pc /\ reg' = reg /\ pstats' = pstats /\ mapped' = mapped /\ Live' = Live
      <3>1. FreeBufs' = FreeBufs
        BY <2>4, FreeSame
      <3>2. /\ Uncounted(UnfreePcs)' = Uncounted(UnfreePcs)
            /\ Uncounted(UnheapPcs)' = Uncounted(UnheapPcs)
        BY <2>4 DEF Uncounted, At
      <3>3. FreeHeapOK => FreeHeapOK'
        BY <2>4, <3>1, <3>2, FreeHeapQuiet
      <3>4. pstats'.in_use = InUseCount' % U64
        BY <1>2, <2>4, InUseQuiet
      <3>5. PoolOpen' => PoolOpen
        BY <1>2, OpenBefore
      <3> QED  BY <1>2, <2>1, <3>3, <3>4, <3>5 DEF PoolInv
    <2>5. ASSUME NEW t \in Threads, Step(t) \/ Call(t) PROVE PoolInv'
      <3>1. pstats'.in_use = InUseCount' % U64
        BY <1>2, <2>5, InUseAllocate, InUseDrop, InUseOther DEF Step
      <3>2. ASSUME PoolOpen' PROVE FreeHeapOK'
        <4>1. PoolOpen /\ ~DropPool(t) /\ ~ShutdownStep(t)
          BY <1>2, <3>2, OpenBefore
        <4>2. FreeHeapOK /\ PrewarmOK
          BY <1>2, <4>1 DEF PoolInv
        <4> QED
          BY <1>2, <2>5, <4>1, <4>2, AllocateFreeHeap, DropFreeHeap, PrewarmFreeHeap,
             CallFreeHeap DEF Step
      <3> QED  BY <2>1, <3>1, <3>2 DEF PoolInv
    <2>6. Finished => pc' = pc /\ reg' = reg /\ pstats' = pstats /\ mapped' = mapped /\ Live' = Live
      BY DEF Finished, vars, lists, Live
    <2> QED  BY <1>2, <2>2, <2>3, <2>4, <2>5, <2>6 DEF Next
  <1>3. ASSUME PoolInv, UNCHANGED vars PROVE PoolInv'
    BY <1>3 DEF vars, PoolInv, PrewarmOK, FreeHeapOK, InUseCount, FreeCount, HeapCount,
       Uncounted, PoolOpen,
       FreeBufs, Held, Live, At
  <1>4. IInv /\ PoolInv /\ [Next]_vars => PoolInv'
    BY <1>2, <1>3
  <1>5. PoolInv => PoolCountersExact
    BY DEF PoolInv, FreeHeapOK, PoolCountersExact, InUseCount, FreeCount, HeapCount, InUsePcs,
       DroppingPcs,
       UnfreePcs, UnheapPcs
  <1> QED  BY <1>1, <1>4, <1>5, InvariantHolds, PTL DEF Spec
=============================================================================
