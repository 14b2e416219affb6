---------------------------- MODULE PageSources ----------------------------
(***************************************************************************)
(* The physical memory behind a PagePool's buffers: HeapSource             *)
(* (src/src/source.rs), MmapSource, HugePageSource and madvise_dontneed    *)
(* (src/src/mmap.rs), as prewarm, allocate, page drops and shutdown use    *)
(* them.  The kernel backs a mapping frame by frame, when a frame is first *)
(* touched; the link of a free buffer lies in its first frame.  The two    *)
(* lists of the pool are one here: which of them a buffer is on makes no   *)
(* difference to its memory.                                               *)
(***************************************************************************)
EXTENDS Integers

CONSTANTS
  Bufs, NULL,
  GARBAGE,         \* a word that is no pointer any more
  Kinds,           \* sources to look at: "heap", "mmap", "huge"
  PageSizes,       \* page sizes tried with them
  HugeSizes,       \* SIZE_2MIB, SIZE_1GIB
  WordBytes,       \* size_of::<*mut u8>()
  FrameBytes,      \* what the kernel backs at a time, for ordinary pages
  SysconfResults   \* what sysconf(_SC_PAGESIZE) may say: FrameBytes, or 0 (failed)

\* 4096 in the code, in the same unit; no supported kernel has smaller frames.
CONSTANT FallbackBytes

ASSUME SourceAssumption ==
  /\ FrameBytes \in Nat \ {0} /\ WordBytes \in 1 .. FrameBytes
  /\ Kinds \subseteq {"heap", "mmap", "huge"}
  /\ PageSizes \subseteq Nat /\ HugeSizes \subseteq Nat \ {0}
  /\ SysconfResults \subseteq {FrameBytes, 0}
  /\ FallbackBytes \in 1 .. FrameBytes /\ FrameBytes % FallbackBytes = 0
  /\ {NULL, GARBAGE} \cap Bufs = {} /\ NULL # GARBAGE

VARIABLES
  src,      \* the source: kind, page_size, and what os_page_size() returns
  backing,  \* [Bufs -> [Nat (offset of a frame) -> "none", "lazy", "committed"]]
  word,     \* [Bufs -> first word: a link, NULL when zero, GARBAGE when data]
  head,     \* the free list
  held,     \* buffers in pages of user code
  fresh,    \* the buffer prewarm is working on, or NULL
  op,       \* "idle", prewarm's next step "prefault" or "push", or "closed"
  warm,     \* buffers that prewarm delivered and madvise did not take back
  known,    \* live mappings whose address user code has seen, in pages it
            \* holds or has dropped
  cut       \* history: the buffers to which links led that madvise erased

svars == <<src, backing, word, head, held, fresh, op, warm, known, cut>>

-----------------------------------------------------------------------------
(* The sources.                                                            *)

\* The three constructors: what they let through.
HeapNew(size) == size >= WordBytes
MmapNew(size, os_page) == size >= WordBytes /\ size % os_page = 0
HugeNew(size) == size \in HugeSizes

OsPageSize(sysconf) == IF sysconf <= 0 THEN FallbackBytes ELSE sysconf

Frame == IF src.kind = "huge" THEN src.page_size ELSE FrameBytes
Frames == {f \in 0 .. src.page_size - 1 : f % Frame = 0}
FrameOf(offset) == offset - (offset % Frame)

\* alloc_zeroed promises zeros: cleared memory, or memory never touched.
HeapBacking == {"lazy", "committed"}
\* mmap(MAP_ANONYMOUS | MAP_PRIVATE), with MAP_HUGETLB or not, commits nothing.
MmapBacking == {"lazy"}

\* Mutant: only the first byte is touched, as for a huge page.
MmapPrefaultFirst == {0}
\* The offsets prefault writes a zero to.
MmapPrefault == {o \in 0 .. src.page_size - 1 : o % src.os_page = 0}
HugePrefault == {0}

Prefaulted ==
  CASE src.kind = "heap" -> {}
    [] src.kind = "mmap" -> MmapPrefault
    [] src.kind = "huge" -> HugePrefault

Mapped == {b \in Bufs : backing[b][0] # "none"}

\* Buffers that the pool has, on its list.
Free == Mapped \ (held \cup {fresh})

SourceAllocate(b) ==
  /\ b \notin Mapped
  /\ \E k \in IF src.kind = "heap" THEN HeapBacking ELSE MmapBacking :
       backing' = [backing EXCEPT ![b] = [f \in Frames |-> k]]
  /\ word' = [word EXCEPT ![b] = NULL]

\* munmap, dealloc
SourceRelease(b) == backing' = [backing EXCEPT ![b] = [f \in Frames |-> "none"]]

\* Touching bytes commits the frames they are in.
Touch(b, offsets) ==
  [backing EXCEPT ![b] = [f \in Frames |->
     IF \E o \in offsets : FrameOf(o) = f THEN "committed" ELSE @[f]]]

SourceInit ==
  /\ \E kind \in Kinds, size \in PageSizes, sysconf \in SysconfResults :
       /\ src = [kind |-> kind, page_size |-> size, os_page |-> OsPageSize(sysconf)]
       /\ kind = "heap" => HeapNew(size)
       /\ kind = "mmap" => MmapNew(size, OsPageSize(sysconf))
       /\ kind = "huge" => HugeNew(size)
  /\ backing = [b \in Bufs |-> [f \in Frames |-> "none"]]
  /\ word = [b \in Bufs |-> NULL]
  /\ head = NULL /\ held = {} /\ fresh = NULL /\ op = "idle"
  /\ warm = {} /\ known = {} /\ cut = {}

-----------------------------------------------------------------------------
(* PagePool.                                                               *)

Push(b) ==
  /\ word' = [word EXCEPT ![b] = head]
  /\ head' = b
  /\ backing' = Touch(b, {0})

\* prewarm, one page: allocate, prefault, push onto the local list.
PrewarmAllocate(b) ==
  /\ op = "idle"
  /\ SourceAllocate(b)
  /\ fresh' = b
  /\ op' = "prefault"
  /\ UNCHANGED <<src, head, held, warm, known, cut>>

\* A zero byte in a word that is not zero is no pointer any more.
PrewarmPrefault ==
  /\ op = "prefault"
  /\ backing' = Touch(fresh, Prefaulted)
  /\ word' = [word EXCEPT ![fresh] =
                IF 0 \in Prefaulted /\ @ # NULL THEN GARBAGE ELSE @]
  /\ op' = "push"
  /\ UNCHANGED <<src, head, held, fresh, warm, known, cut>>

\* Mutant: prefault comes after the push, and its first zero hits the link.
PushThenPrefault ==
  /\ op = "push"
  /\ word' = [word EXCEPT ![fresh] =
                IF 0 \in Prefaulted /\ head # NULL THEN GARBAGE ELSE head]
  /\ head' = fresh
  /\ backing' = Touch(fresh, {0} \cup Prefaulted)
  /\ warm' = warm \cup {fresh}
  /\ fresh' = NULL
  /\ op' = "idle"
  /\ UNCHANGED <<src, held, known, cut>>

PrewarmPush ==
  /\ op = "push"
  /\ Push(fresh)
  /\ warm' = warm \cup {fresh}
  /\ fresh' = NULL
  /\ op' = "idle"
  /\ UNCHANGED <<src, held, known, cut>>

\* allocate: recycled, or from the source.
AllocateRecycled ==
  /\ op = "idle" /\ head # NULL
  /\ held' = held \cup {head}
  /\ known' = known \cup {head}
  /\ head' = word[head]
  /\ backing' = Touch(head, {0})
  /\ UNCHANGED <<src, word, fresh, op, warm, cut>>

AllocateFresh(b) ==
  /\ op = "idle" /\ head = NULL
  /\ SourceAllocate(b)
  /\ held' = held \cup {b}
  /\ known' = known \cup {b}
  /\ UNCHANGED <<src, head, fresh, op, warm, cut>>

\* User code writes somewhere in its page.
UserWrite(b, offset) ==
  /\ b \in held
  /\ backing' = Touch(b, {offset})
  /\ word' = [word EXCEPT ![b] = IF offset < WordBytes THEN GARBAGE ELSE @]
  /\ UNCHANGED <<src, head, held, fresh, op, warm, known, cut>>

\* The last handle goes: push_return.
DropPage(b) ==
  /\ b \in held
  /\ held' = held \ {b}
  /\ Push(b)
  /\ UNCHANGED <<src, fresh, op, warm, known, cut>>

\* madvise_dontneed(ptr, len) on the frames from lo to hi of a live mapping,
\* whose caller may hold the page or have evicted it before: they read as zero
\* and their memory is gone.  It knows nothing of the pool, so that the link of
\* a free buffer goes with them.  An error changes nothing.
MadviseDontneed(b, lo, hi) ==
  /\ src.kind # "heap" /\ b \in known /\ lo <= hi
  /\ backing' = [backing EXCEPT ![b] =
                   [f \in Frames |-> IF f \in lo .. hi THEN "lazy" ELSE @[f]]]
  /\ word' = [word EXCEPT ![b] = IF lo = 0 THEN NULL ELSE @]
  /\ warm' = warm \ {b}
  /\ cut' = IF lo = 0 /\ b \in Free THEN cut \cup ({word[b]} \ {NULL}) ELSE cut
  /\ UNCHANGED <<src, head, held, fresh, op, known>>

DropPool ==
  /\ op = "idle" /\ op' = "closed"
  /\ UNCHANGED <<src, backing, word, head, held, fresh, warm, known, cut>>

\* PagePool::drop and PoolShared::drop: read the link, release.
ReleaseFree ==
  /\ op = "closed" /\ head # NULL
  /\ head' = word[head]
  /\ SourceRelease(head)
  /\ warm' = warm \ {head} /\ known' = known \ {head}
  /\ UNCHANGED <<src, word, held, fresh, op, cut>>

SourceFinished == op = "closed" /\ head = NULL /\ held = {} /\ UNCHANGED svars

SourceNext ==
  \/ PrewarmPrefault \/ PrewarmPush \/ AllocateRecycled
  \/ DropPool \/ ReleaseFree \/ SourceFinished
  \/ \E b \in Bufs :
       \/ PrewarmAllocate(b) \/ AllocateFresh(b) \/ DropPage(b)
       \/ \E lo, hi \in Frames : MadviseDontneed(b, lo, hi)
       \/ \E offset \in 0 .. src.page_size - 1 : UserWrite(b, offset)

SourceSpec == SourceInit /\ [][SourceNext]_svars

-----------------------------------------------------------------------------
\* "Touch every operating-system page within the allocation so that physical
\* backing is committed before user code runs" (src/src/source.rs:51): a page
\* that prewarm delivered takes no first-touch fault, ever again, unless
\* somebody gave its memory back with madvise_dontneed.  HeapSource leaves it to
\* alloc_zeroed, which promises zeros and nothing about frames.
PrewarmedIsCommitted ==
  src.kind # "heap" => \A b \in warm : \A f \in Frames : backing[b][f] = "committed"

\* What sources do to memory never sends a pointer astray, and loses nothing
\* but what the caller of madvise_dontneed cut off: each free buffer is entered
\* by one pointer, be it the head, the link of another free buffer, or a link
\* that was erased in a page already dropped.  No buffer is ever handed out or
\* released twice, and where no link was erased every free buffer is reached.
FreeListIntact ==
  /\ {head} \cup {word[b] : b \in Free} \subseteq Free \cup {NULL}
  /\ cut \subseteq Free
  /\ \A b \in Free : word[b] = head => head = NULL
  /\ \A b, c \in Free : word[b] = word[c] => b = c \/ word[b] = NULL
  /\ \A c \in cut : c # head /\ \A b \in Free : word[b] # c
  /\ \A S \in (SUBSET Free) \ {{}} :
       head \in S \/ S \cap cut # {} \/ \E c \in Free \ S : word[c] \in S

\* "a higher-level cache layer can call it on evicted pages without borrowing
\* the pool" (src/src/mmap.rs:139): a pool whose caller does so still finds all
\* its buffers.  At the end of the list no buffer is free: allocate may turn to
\* the source, and the drop walks leave nothing mapped but pages still held.
NothingStranded == head = NULL => Free = {}
=============================================================================
