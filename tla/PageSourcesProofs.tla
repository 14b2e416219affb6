------------------------- MODULE PageSourcesProofs -------------------------
(***************************************************************************)
(* What PageSources promises about memory, for any number of buffers, any  *)
(* page and frame size, and either answer of sysconf.                      *)
(*                                                                         *)
(* FreeListIntact is kept by linking and unlinking at the head, and by the *)
(* one step that writes into a free buffer's first word, madvise_dontneed  *)
(* on a page already dropped, because zeros end a list; what they cut off  *)
(* is lost, unless callers advise held pages only.  PrewarmedIsCommitted   *)
(* rests on prefault's offsets meeting every frame, which is a fact about  *)
(* divisors, and on buffers being warm only while they are mapped.         *)
(***************************************************************************)
EXTENDS PageSources, TLAPS

States == {"none", "lazy", "committed"}

\* The source as its constructor left it.
SrcOK ==
  /\ src \in [kind : {"heap", "mmap", "huge"}, page_size : Nat \ {0},
              os_page : {FrameBytes, FallbackBytes}]
  /\ src.kind = "huge" => src.page_size \in HugeSizes

SourceTypeOK ==
  /\ SrcOK
  /\ backing \in [Bufs -> [Frames -> States]]
  /\ word \in [Bufs -> Bufs \cup {NULL, GARBAGE}]
  /\ head \in Bufs \cup {NULL}
  /\ held \subseteq Bufs /\ warm \subseteq Bufs /\ known \subseteq Bufs /\ cut \subseteq Bufs
  /\ fresh \in Bufs \cup {NULL}
  /\ op \in {"idle", "prefault", "push", "closed"}

\* A mapping has all its frames or none; who has a buffer has it mapped.
MappedOK ==
  /\ \A b \in Mapped : \A f \in Frames : backing[b][f] # "none"
  /\ held \subseteq Mapped /\ warm \subseteq Mapped /\ known \subseteq Mapped
  /\ op \in {"prefault", "push"} <=> fresh # NULL
  /\ fresh # NULL => fresh \in Mapped \ (held \cup warm \cup known)

Committed(b) == \A f \in Frames : backing[b][f] = "committed"

\* What prewarm has prefaulted stays committed on its way to the list.
FreshCommitted == src.kind # "heap" /\ op = "push" => Committed(fresh)

SourceInv == SourceTypeOK /\ MappedOK /\ FreshCommitted /\ PrewarmedIsCommitted /\ FreeListIntact

-----------------------------------------------------------------------------
(* Divisors.                                                               *)

\* A multiple is what leaves no remainder.
LEMMA ModZero ==
  ASSUME NEW a \in Nat, NEW d \in Nat \ {0}
  PROVE  a % d = 0 <=> \E q \in Nat : a = d * q
  <1>1. a = d * (a \div d) + (a % d) /\ a \div d \in Nat
    OBVIOUS
  <1>2. ASSUME a % d = 0 PROVE \E q \in Nat : a = d * q
    BY <1>1, <1>2
  <1>3. ASSUME NEW q \in Nat, a = d * q PROVE a % d = 0
    BY <1>3
  <1> QED  BY <1>2, <1>3

\* A multiple of a multiple is a multiple.
LEMMA ModTrans ==
  ASSUME NEW a \in Nat, NEW b \in Nat \ {0}, NEW c \in Nat \ {0}, a % b = 0, b % c = 0
  PROVE  a % c = 0
  <1>1. PICK q \in Nat : a = b * q
    BY ModZero
  <1>2. PICK r \in Nat : b = c * r
    BY ModZero
  <1>3. a = c * (r * q) /\ r * q \in Nat
    BY <1>1, <1>2
  <1> QED  BY <1>3, ModZero

\* The first frame of a buffer starts at offset 0.
LEMMA FirstFrame == ASSUME SrcOK PROVE 0 \in Frames
  <1>1. Frame \in Nat \ {0}
    BY SourceAssumption DEF SrcOK, Frame
  <1>2. 0 % Frame = 0
    BY <1>1
  <1> QED  BY <1>2 DEF SrcOK, Frames

\* prefault meets every frame: its stride divides the frame size, also when
\* os_page_size falls back to a smaller one; a huge page is one frame.
LEMMA PrefaultMeetsAll ==
  ASSUME SrcOK, src.kind # "heap", NEW f \in Frames
  PROVE  \E o \in Prefaulted : FrameOf(o) = f
  <1>1. f \in 0 .. src.page_size - 1 /\ f % Frame = 0 /\ FrameOf(f) = f
    BY DEF Frames, FrameOf, SrcOK
  <1>2. CASE src.kind = "huge"
    <2>1. f = 0
      <3>1. f % src.page_size = 0 /\ f < src.page_size /\ f \in Nat /\ src.page_size \in Nat \ {0}
        BY <1>1, <1>2 DEF Frame, SrcOK
      <3> QED  BY <3>1
    <2> QED  BY <1>1, <1>2, <2>1 DEF Prefaulted, HugePrefault
  <1>3. CASE src.kind = "mmap"
    <2>1. /\ FrameBytes \in Nat \ {0} /\ src.os_page \in Nat \ {0} /\ f \in Nat
          /\ f % FrameBytes = 0
      BY <1>1, <1>3, SourceAssumption DEF Frame, SrcOK
    <2>2. FrameBytes % src.os_page = 0
      <3>1. FrameBytes % FrameBytes = 0
        BY <2>1
      <3> QED  BY <3>1, SourceAssumption DEF SrcOK
    <2>3. f % src.os_page = 0
      BY <2>1, <2>2, ModTrans
    <2>4. f \in MmapPrefault
      BY <1>1, <2>3 DEF MmapPrefault
    <2> QED  BY <1>1, <1>3, <2>4 DEF Prefaulted
  <1> QED  BY <1>2, <1>3 DEF SrcOK

-----------------------------------------------------------------------------
(* The list.                                                               *)

\* The list depends only on the free buffers, the head, their words and the cut.
LEMMA ListSame ==
  ASSUME FreeListIntact, Free' = Free, head' = head, cut' = cut,
         \A b \in Free : word'[b] = word[b]
  PROVE  FreeListIntact'
  BY DEF FreeListIntact

\* The head leaves, its next pointer takes its place.
LEMMA ListUnlink ==
  ASSUME FreeListIntact, head \in Free, NULL \notin Free,
         Free' = Free \ {head}, head' = word[head], word' = word, cut' = cut
  PROVE  FreeListIntact'
  <1>1. word[head] \in (Free \ {head}) \cup {NULL}
    BY DEF FreeListIntact
  <1>2. {head'} \cup {word'[b] : b \in Free'} \subseteq Free' \cup {NULL}
    BY <1>1 DEF FreeListIntact
  <1>3. /\ \A b \in Free' : word'[b] = head' => head' = NULL
        /\ \A b, c \in Free' : word'[b] = word'[c] => b = c \/ word'[b] = NULL
    BY DEF FreeListIntact
  <1>4. cut' \subseteq Free' /\ \A c \in cut' : c # head' /\ \A b \in Free' : word'[b] # c
    BY DEF FreeListIntact
  <1>5. ASSUME NEW S \in (SUBSET Free') \ {{}}
        PROVE  head' \in S \/ S \cap cut' # {} \/ \E c \in Free' \ S : word'[c] \in S
    <2>1. S \in (SUBSET Free) \ {{}} /\ head \notin S
      BY <1>5
    <2>2. S \cap cut # {} \/ \E c \in Free \ S : word[c] \in S
      BY <2>1 DEF FreeListIntact
    <2>3. ASSUME NEW c \in Free \ S, word[c] \in S
          PROVE  head' \in S \/ \E d \in Free' \ S : word'[d] \in S
      BY <2>3
    <2> QED  BY <2>2, <2>3
  <1> QED  BY <1>2, <1>3, <1>4, <1>5 DEF FreeListIntact

\* A buffer that was not free is linked to the head and becomes it.
LEMMA ListLink ==
  ASSUME FreeListIntact, NULL \notin Free, NEW b, b \notin Free, b # NULL,
         Free' = Free \cup {b}, head' = b, word'[b] = head, cut' = cut,
         \A c \in Free : word'[c] = word[c]
  PROVE  FreeListIntact'
  <1>1. {head'} \cup {word'[c] : c \in Free'} \subseteq Free' \cup {NULL}
    BY DEF FreeListIntact
  <1>2. /\ \A c \in Free' : word'[c] = head' => head' = NULL
        /\ \A c, d \in Free' : word'[c] = word'[d] => c = d \/ word'[c] = NULL
    BY DEF FreeListIntact
  <1>3. cut' \subseteq Free' /\ \A c \in cut' : c # head' /\ \A d \in Free' : word'[d] # c
    BY DEF FreeListIntact
  <1>4. ASSUME NEW S \in (SUBSET Free') \ {{}}
        PROVE  head' \in S \/ S \cap cut' # {} \/ \E c \in Free' \ S : word'[c] \in S
    <2>1. CASE b \in S
      BY <2>1
    <2>2. CASE b \notin S
      <3>1. S \in (SUBSET Free) \ {{}}
        BY <1>4, <2>2
      <3>2. CASE head \in S
        BY <2>2, <3>2
      <3>3. ASSUME NEW c \in Free \ S, word[c] \in S PROVE \E e \in Free' \ S : word'[e] \in S
        BY <3>3
      <3> QED  BY <3>1, <3>2, <3>3 DEF FreeListIntact
    <2> QED  BY <2>1, <2>2
  <1> QED  BY <1>1, <1>2, <1>3, <1>4 DEF FreeListIntact

\* The link of a free buffer is erased: what it led to is cut off, and the
\* list ends before it.
LEMMA ListCut ==
  ASSUME FreeListIntact, NULL \notin Free, NEW b \in Free, word'[b] = NULL,
         Free' = Free, head' = head, cut' = cut \cup ({word[b]} \ {NULL}),
         \A c \in Free \ {b} : word'[c] = word[c]
  PROVE  FreeListIntact'
  <1>1. {head'} \cup {word'[c] : c \in Free'} \subseteq Free' \cup {NULL}
    BY DEF FreeListIntact
  <1>2. /\ \A c \in Free' : word'[c] = head' => head' = NULL
        /\ \A c, d \in Free' : word'[c] = word'[d] => c = d \/ word'[c] = NULL
    BY DEF FreeListIntact
  <1>3. cut' \subseteq Free'
    BY DEF FreeListIntact
  <1>4. ASSUME NEW c \in cut' PROVE c # head' /\ \A d \in Free' : word'[d] # c
    <2>1. c \in Free /\ c # NULL
      BY <1>3, <1>4
    <2>2. CASE c \in cut
      BY <2>1, <2>2 DEF FreeListIntact
    <2>3. CASE c = word[b]
      BY <2>1, <2>3 DEF FreeListIntact
    <2> QED  BY <1>4, <2>2, <2>3
  <1>5. ASSUME NEW S \in (SUBSET Free') \ {{}}
        PROVE  head' \in S \/ S \cap cut' # {} \/ \E c \in Free' \ S : word'[c] \in S
    <2>1. S \in (SUBSET Free) \ {{}} /\ NULL \notin S
      BY <1>5
    <2>2. head \in S \/ S \cap cut # {} \/ \E c \in Free \ S : word[c] \in S
      BY <2>1 DEF FreeListIntact
    <2>3. ASSUME NEW c \in Free \ S, word[c] \in S
          PROVE  S \cap cut' # {} \/ \E d \in Free' \ S : word'[d] \in S
      <3>1. CASE c = b
        BY <2>1, <2>3, <3>1
      <3>2. CASE c # b
        BY <2>3, <3>2
      <3> QED  BY <3>1, <3>2
    <2> QED  BY <2>2, <2>3
  <1> QED  BY <1>1, <1>2, <1>3, <1>4, <1>5 DEF FreeListIntact

-----------------------------------------------------------------------------
(* Frames.                                                                 *)

\* Touching bytes of a mapped buffer maps and unmaps nothing, and what was
\* committed stays so.
LEMMA TouchKeeps ==
  ASSUME SourceTypeOK, MappedOK, NEW b \in Mapped, NEW offsets,
         backing' = Touch(b, offsets), src' = src
  PROVE  /\ backing' \in [Bufs -> [Frames -> States]]
         /\ Frames' = Frames /\ SrcOK' /\ Mapped' = Mapped
         /\ \A c \in Mapped : \A f \in Frames : backing'[c][f] # "none"
         /\ \A c \in Bufs : Committed(c) => Committed(c)'
         /\ \A f \in Frames : (\E o \in offsets : FrameOf(o) = f) => backing'[b][f] = "committed"
  <1>1. Frames' = Frames /\ SrcOK'
    BY DEF Frames, Frame, SourceTypeOK, SrcOK
  <1>2. b \in Bufs /\ 0 \in Frames
    BY FirstFrame DEF Mapped, SourceTypeOK
  <1>3. /\ backing' \in [Bufs -> [Frames -> States]]
        /\ \A c \in Bufs \ {b} : backing'[c] = backing[c]
        /\ \A f \in Frames : backing'[b][f] =
             IF \E o \in offsets : FrameOf(o) = f THEN "committed" ELSE backing[b][f]
    BY <1>2 DEF Touch, SourceTypeOK, States
  <1>4. \A c \in Mapped : \A f \in Frames : backing'[c][f] # "none"
    BY <1>3 DEF MappedOK, Mapped
  <1>5. Mapped' = Mapped
    BY <1>2, <1>3, <1>4 DEF Mapped
  <1>6. \A c \in Bufs : Committed(c) => Committed(c)'
    BY <1>1, <1>3 DEF Committed
  <1> QED  BY <1>1, <1>3, <1>4, <1>5, <1>6

\* All frames of a buffer change at once: mapped, given back, or released.
LEMMA BackKeeps ==
  ASSUME SourceTypeOK, MappedOK, NEW b \in Bufs, NEW k \in States,
         backing' = [backing EXCEPT ![b] = [f \in Frames |-> k]], src' = src
  PROVE  /\ backing' \in [Bufs -> [Frames -> States]]
         /\ Frames' = Frames /\ SrcOK'
         /\ Mapped' = IF k = "none" THEN Mapped \ {b} ELSE Mapped \cup {b}
         /\ \A c \in Mapped' : \A f \in Frames : backing'[c][f] # "none"
         /\ \A c \in Bufs \ {b} : Committed(c) => Committed(c)'
  <1>1. Frames' = Frames /\ SrcOK'
    BY DEF Frames, Frame, SourceTypeOK, SrcOK
  <1>2. 0 \in Frames
    BY FirstFrame DEF SourceTypeOK
  <1>3. /\ backing' \in [Bufs -> [Frames -> States]]
        /\ \A c \in Bufs \ {b} : backing'[c] = backing[c]
        /\ \A f \in Frames : backing'[b][f] = k
    BY DEF SourceTypeOK
  <1>4. Mapped' = IF k = "none" THEN Mapped \ {b} ELSE Mapped \cup {b}
    BY <1>2, <1>3 DEF Mapped
  <1>5. \A c \in Mapped' : \A f \in Frames : backing'[c][f] # "none"
    BY <1>3, <1>4 DEF MappedOK, Mapped
  <1>6. \A c \in Bufs \ {b} : Committed(c) => Committed(c)'
    BY <1>1, <1>3 DEF Committed
  <1> QED  BY <1>1, <1>3, <1>4, <1>5, <1>6

-----------------------------------------------------------------------------
(* The steps: each keeps SourceInv.                                        *)

\* NULL is no buffer, so it is neither free nor mapped.
LEMMA NullIsNoBuf == NULL \notin Free /\ NULL \notin Mapped /\ NULL \notin Bufs
  BY SourceAssumption DEF Free, Mapped

\* A constructed source and no buffer mapped.
LEMMA SourceInitInv == SourceInit => SourceInv
  <1> SUFFICES ASSUME SourceInit PROVE SourceInv
    OBVIOUS
  <1>1. SrcOK
    BY SourceAssumption DEF SourceInit, SrcOK, HeapNew, MmapNew, HugeNew, OsPageSize
  <1>2. 0 \in Frames
    BY <1>1, FirstFrame
  <1>3. Mapped = {} /\ Free = {}
    BY <1>2 DEF SourceInit, Mapped, Free
  <1>4. SourceTypeOK
    BY <1>1 DEF SourceInit, SourceTypeOK, States
  <1>5. FreeListIntact
    BY <1>3 DEF SourceInit, FreeListIntact
  <1> QED  BY <1>3, <1>4, <1>5
           DEF SourceInit, SourceInv, MappedOK, FreshCommitted, PrewarmedIsCommitted

\* prewarm takes a buffer that nobody has: the list does not see it.
LEMMA PrewarmAllocateInv ==
  ASSUME SourceInv, NEW b \in Bufs, PrewarmAllocate(b) PROVE SourceInv'
  <1> USE DEF SourceInv
  <1>1. PICK k \in {"lazy", "committed"} :
          backing' = [backing EXCEPT ![b] = [f \in Frames |-> k]]
    BY DEF PrewarmAllocate, SourceAllocate, HeapBacking, MmapBacking
  <1>2. /\ b \notin Mapped /\ word' = [word EXCEPT ![b] = NULL] /\ fresh' = b
        /\ op = "idle" /\ op' = "prefault"
        /\ src' = src /\ head' = head /\ held' = held /\ warm' = warm
        /\ known' = known /\ cut' = cut
    BY DEF PrewarmAllocate, SourceAllocate
  <1>3. /\ backing' \in [Bufs -> [Frames -> States]] /\ Frames' = Frames /\ SrcOK'
        /\ Mapped' = Mapped \cup {b}
        /\ \A c \in Mapped' : \A f \in Frames : backing'[c][f] # "none"
        /\ \A c \in Bufs \ {b} : Committed(c) => Committed(c)'
    BY <1>1, <1>2, BackKeeps DEF States
  <1>4. SourceTypeOK'
    BY <1>2, <1>3 DEF SourceTypeOK, States
  <1>5. MappedOK'
    BY <1>2, <1>3, NullIsNoBuf DEF MappedOK
  <1>6. PrewarmedIsCommitted'
    BY <1>2, <1>3 DEF PrewarmedIsCommitted, Committed, MappedOK, SourceTypeOK
  <1>7. Free' = Free /\ \A c \in Free : word'[c] = word[c]
    BY <1>2, <1>3, NullIsNoBuf DEF Free, MappedOK, SourceTypeOK, Mapped
  <1>8. FreeListIntact'
    BY <1>2, <1>7, ListSame
  <1> QED  BY <1>2, <1>4, <1>5, <1>6, <1>8 DEF FreshCommitted

\* prefault commits every frame of the fresh buffer, and writes to no other.
LEMMA PrewarmPrefaultInv == ASSUME SourceInv, PrewarmPrefault PROVE SourceInv'
  <1> USE DEF SourceInv
  <1>1. /\ op = "prefault" /\ op' = "push" /\ backing' = Touch(fresh, Prefaulted)
        /\ src' = src /\ head' = head /\ held' = held /\ fresh' = fresh /\ warm' = warm
        /\ known' = known /\ cut' = cut
        /\ word' = [word EXCEPT ![fresh] =
                      IF 0 \in Prefaulted /\ @ # NULL THEN GARBAGE ELSE @]
    BY DEF PrewarmPrefault
  <1>2. fresh \in Mapped \ (held \cup warm \cup known) /\ fresh \in Bufs /\ fresh # NULL
    BY <1>1 DEF MappedOK, Mapped
  <1>3. /\ backing' \in [Bufs -> [Frames -> States]] /\ Frames' = Frames /\ SrcOK'
        /\ Mapped' = Mapped
        /\ \A c \in Mapped : \A f \in Frames : backing'[c][f] # "none"
        /\ \A c \in Bufs : Committed(c) => Committed(c)'
        /\ \A f \in Frames : (\E o \in Prefaulted : FrameOf(o) = f)
                                => backing'[fresh][f] = "committed"
    BY <1>1, <1>2, TouchKeeps
  <1>4. SourceTypeOK'
    BY <1>1, <1>2, <1>3 DEF SourceTypeOK, States
  <1>5. MappedOK'
    BY <1>1, <1>2, <1>3 DEF MappedOK
  <1>6. FreshCommitted'
    BY <1>1, <1>3, PrefaultMeetsAll DEF FreshCommitted, Committed, SourceTypeOK
  <1>7. PrewarmedIsCommitted'
    BY <1>1, <1>3 DEF PrewarmedIsCommitted, Committed, SourceTypeOK
  <1>8. Free' = Free /\ \A c \in Free : word'[c] = word[c]
    BY <1>1, <1>2, <1>3 DEF Free, SourceTypeOK, Mapped
  <1>9. FreeListIntact'
    BY <1>1, <1>8, ListSame
  <1> QED  BY <1>4, <1>5, <1>6, <1>7, <1>9

\* A push touches a buffer that was not free and makes it the head.
LEMMA PushKeeps ==
  ASSUME SourceInv, NEW b \in Mapped, b \notin Free, Push(b), src' = src, cut' = cut,
         (held' \cup {fresh'}) \ {NULL} = (held \cup {fresh}) \ {b, NULL}
  PROVE  /\ backing' \in [Bufs -> [Frames -> States]] /\ Frames' = Frames /\ SrcOK'
         /\ Mapped' = Mapped
         /\ \A c \in Mapped : \A f \in Frames : backing'[c][f] # "none"
         /\ \A c \in Bufs : Committed(c) => Committed(c)'
         /\ word' \in [Bufs -> Bufs \cup {NULL, GARBAGE}] /\ head' = b
         /\ FreeListIntact'
  <1>1. /\ backing' = Touch(b, {0}) /\ word' = [word EXCEPT ![b] = head] /\ head' = b
        /\ b \in Bufs
    BY DEF Push, Mapped
  <1>2. /\ backing' \in [Bufs -> [Frames -> States]] /\ Frames' = Frames /\ SrcOK'
        /\ Mapped' = Mapped
        /\ \A c \in Mapped : \A f \in Frames : backing'[c][f] # "none"
        /\ \A c \in Bufs : Committed(c) => Committed(c)'
    BY <1>1, TouchKeeps DEF SourceInv
  <1>3. word' \in [Bufs -> Bufs \cup {NULL, GARBAGE}] /\ word'[b] = head
        /\ \A c \in Free : word'[c] = word[c]
    BY <1>1 DEF SourceInv, SourceTypeOK, Free, Mapped
  <1>4. Free' = Free \cup {b}
    BY <1>2, NullIsNoBuf DEF Free
  <1>5. FreeListIntact'
    BY <1>1, <1>3, <1>4, NullIsNoBuf, ListLink DEF SourceInv
  <1> QED  BY <1>1, <1>2, <1>3, <1>5

\* prewarm delivers the buffer: it is on the list, and committed.
LEMMA PrewarmPushInv == ASSUME SourceInv, PrewarmPush PROVE SourceInv'
  <1> USE DEF SourceInv
  <1>1. /\ op = "push" /\ op' = "idle" /\ Push(fresh) /\ warm' = warm \cup {fresh}
        /\ fresh' = NULL /\ src' = src /\ held' = held /\ known' = known /\ cut' = cut
    BY DEF PrewarmPush
  <1>2. fresh \in Mapped \ (held \cup warm) /\ fresh \in Bufs /\ fresh \notin Free
    BY <1>1 DEF MappedOK, Mapped, Free
  <1>3. /\ backing' \in [Bufs -> [Frames -> States]] /\ Frames' = Frames /\ SrcOK'
        /\ Mapped' = Mapped
        /\ \A c \in Mapped : \A f \in Frames : backing'[c][f] # "none"
        /\ \A c \in Bufs : Committed(c) => Committed(c)'
        /\ word' \in [Bufs -> Bufs \cup {NULL, GARBAGE}] /\ head' = fresh
        /\ FreeListIntact'
    BY <1>1, <1>2, NullIsNoBuf, PushKeeps DEF SourceTypeOK
  <1>4. SourceTypeOK'
    BY <1>1, <1>2, <1>3 DEF SourceTypeOK
  <1>5. MappedOK'
    BY <1>1, <1>2, <1>3 DEF MappedOK
  <1>6. PrewarmedIsCommitted'
    BY <1>1, <1>2, <1>3 DEF PrewarmedIsCommitted, Committed, FreshCommitted, SourceTypeOK
  <1> QED  BY <1>1, <1>3, <1>4, <1>5, <1>6 DEF FreshCommitted

\* allocate pops the head.
LEMMA AllocateRecycledInv == ASSUME SourceInv, AllocateRecycled PROVE SourceInv'
  <1> USE DEF SourceInv
  <1>1. /\ op = "idle" /\ head # NULL /\ held' = held \cup {head} /\ head' = word[head]
        /\ backing' = Touch(head, {0}) /\ src' = src /\ word' = word
        /\ fresh' = fresh /\ op' = op /\ warm' = warm
        /\ known' = known \cup {head} /\ cut' = cut
    BY DEF AllocateRecycled
  <1>2. head \in Free /\ head \in Mapped \ held /\ head \in Bufs
    BY <1>1 DEF FreeListIntact, Free, Mapped
  <1>3. /\ backing' \in [Bufs -> [Frames -> States]] /\ Frames' = Frames /\ SrcOK'
        /\ Mapped' = Mapped
        /\ \A c \in Mapped : \A f \in Frames : backing'[c][f] # "none"
        /\ \A c \in Bufs : Committed(c) => Committed(c)'
    BY <1>1, <1>2, TouchKeeps
  <1>4. word[head] \in Bufs \cup {NULL}
    BY <1>2 DEF FreeListIntact, Free, Mapped
  <1>5. SourceTypeOK'
    BY <1>1, <1>2, <1>3, <1>4 DEF SourceTypeOK
  <1>6. MappedOK'
    BY <1>1, <1>2, <1>3 DEF MappedOK
  <1>7. PrewarmedIsCommitted'
    BY <1>1, <1>3 DEF PrewarmedIsCommitted, Committed, SourceTypeOK
  <1>8. Free' = Free \ {head}
    BY <1>1, <1>3 DEF Free
  <1>9. FreeListIntact'
    BY <1>1, <1>2, <1>8, NullIsNoBuf, ListUnlink
  <1> QED  BY <1>1, <1>5, <1>6, <1>7, <1>9 DEF FreshCommitted

\* allocate maps a new buffer, straight into user code.
LEMMA AllocateFreshInv ==
  ASSUME SourceInv, NEW b \in Bufs, AllocateFresh(b) PROVE SourceInv'
  <1> USE DEF SourceInv
  <1>1. PICK k \in {"lazy", "committed"} :
          backing' = [backing EXCEPT ![b] = [f \in Frames |-> k]]
    BY DEF AllocateFresh, SourceAllocate, HeapBacking, MmapBacking
  <1>2. /\ b \notin Mapped /\ word' = [word EXCEPT ![b] = NULL] /\ held' = held \cup {b}
        /\ op = "idle" /\ op' = op
        /\ src' = src /\ head' = head /\ fresh' = fresh /\ warm' = warm
        /\ known' = known \cup {b} /\ cut' = cut
    BY DEF AllocateFresh, SourceAllocate
  <1>3. /\ backing' \in [Bufs -> [Frames -> States]] /\ Frames' = Frames /\ SrcOK'
        /\ Mapped' = Mapped \cup {b}
        /\ \A c \in Mapped' : \A f \in Frames : backing'[c][f] # "none"
        /\ \A c \in Bufs \ {b} : Committed(c) => Committed(c)'
    BY <1>1, <1>2, BackKeeps DEF States
  <1>4. SourceTypeOK'
    BY <1>2, <1>3 DEF SourceTypeOK, States
  <1>5. MappedOK'
    BY <1>2, <1>3, NullIsNoBuf DEF MappedOK
  <1>6. PrewarmedIsCommitted'
    BY <1>2, <1>3 DEF PrewarmedIsCommitted, Committed, MappedOK, SourceTypeOK
  <1>7. Free' = Free /\ \A c \in Free : word'[c] = word[c]
    BY <1>2, <1>3 DEF Free, SourceTypeOK, Mapped
  <1>8. FreeListIntact'
    BY <1>2, <1>7, ListSame
  <1> QED  BY <1>2, <1>4, <1>5, <1>6, <1>8 DEF FreshCommitted

\* User code writes only to buffers it holds.
LEMMA UserWriteInv ==
  ASSUME SourceInv, NEW b \in Bufs, NEW offset, UserWrite(b, offset) PROVE SourceInv'
  <1> USE DEF SourceInv
  <1>1. /\ b \in held /\ backing' = Touch(b, {offset})
        /\ word' = [word EXCEPT ![b] = IF offset < WordBytes THEN GARBAGE ELSE @]
        /\ src' = src /\ head' = head /\ held' = held /\ fresh' = fresh
        /\ op' = op /\ warm' = warm /\ known' = known /\ cut' = cut
    BY DEF UserWrite
  <1>2. b \in Mapped
    BY <1>1 DEF MappedOK
  <1>3. /\ backing' \in [Bufs -> [Frames -> States]] /\ Frames' = Frames /\ SrcOK'
        /\ Mapped' = Mapped
        /\ \A c \in Mapped : \A f \in Frames : backing'[c][f] # "none"
        /\ \A c \in Bufs : Committed(c) => Committed(c)'
    BY <1>1, <1>2, TouchKeeps
  <1>4. SourceTypeOK'
    BY <1>1, <1>3 DEF SourceTypeOK
  <1>5. MappedOK'
    BY <1>1, <1>3 DEF MappedOK
  <1>6. PrewarmedIsCommitted' /\ FreshCommitted'
    BY <1>1, <1>3, NullIsNoBuf
    DEF PrewarmedIsCommitted, FreshCommitted, Committed, MappedOK, SourceTypeOK
  <1>7. Free' = Free /\ \A c \in Free : word'[c] = word[c]
    BY <1>1, <1>3 DEF Free, SourceTypeOK, Mapped
  <1>8. FreeListIntact'
    BY <1>1, <1>7, ListSame
  <1> QED  BY <1>4, <1>5, <1>6, <1>8

\* The last handle pushes the buffer.
LEMMA DropPageInv == ASSUME SourceInv, NEW b \in Bufs, DropPage(b) PROVE SourceInv'
  <1> USE DEF SourceInv
  <1>1. /\ b \in held /\ held' = held \ {b} /\ Push(b)
        /\ src' = src /\ fresh' = fresh /\ op' = op /\ warm' = warm
        /\ known' = known /\ cut' = cut
    BY DEF DropPage
  <1>2. b \in Mapped /\ b \notin Free /\ b # fresh
    BY <1>1, NullIsNoBuf DEF MappedOK, Free
  <1>3. /\ backing' \in [Bufs -> [Frames -> States]] /\ Frames' = Frames /\ SrcOK'
        /\ Mapped' = Mapped
        /\ \A c \in Mapped : \A f \in Frames : backing'[c][f] # "none"
        /\ \A c \in Bufs : Committed(c) => Committed(c)'
        /\ word' \in [Bufs -> Bufs \cup {NULL, GARBAGE}] /\ head' = b
        /\ FreeListIntact'
    BY <1>1, <1>2, PushKeeps
  <1>4. SourceTypeOK'
    BY <1>1, <1>3 DEF SourceTypeOK
  <1>5. MappedOK'
    BY <1>1, <1>3 DEF MappedOK
  <1>6. PrewarmedIsCommitted' /\ FreshCommitted'
    BY <1>1, <1>3, NullIsNoBuf
    DEF PrewarmedIsCommitted, FreshCommitted, Committed, MappedOK, SourceTypeOK
  <1> QED  BY <1>3, <1>4, <1>5, <1>6

\* madvise_dontneed takes frames of one mapping: the page is no longer warm,
\* and if it was free and its first frame went, the list ends at it.
LEMMA MadviseDontneedInv ==
  ASSUME SourceInv, NEW b \in Bufs, NEW lo \in Frames, NEW hi \in Frames,
         MadviseDontneed(b, lo, hi)
  PROVE  SourceInv'
  <1> USE DEF SourceInv
  <1>1. /\ b \in known
        /\ backing' = [backing EXCEPT ![b] =
                         [f \in Frames |-> IF f \in lo .. hi THEN "lazy" ELSE backing[b][f]]]
        /\ word' = [word EXCEPT ![b] = IF lo = 0 THEN NULL ELSE word[b]]
        /\ warm' = warm \ {b}
        /\ cut' = IF lo = 0 /\ b \in Free THEN cut \cup ({word[b]} \ {NULL}) ELSE cut
        /\ src' = src /\ head' = head /\ held' = held /\ fresh' = fresh /\ op' = op
        /\ known' = known
    BY DEF MadviseDontneed
  <1>2. b \in Mapped /\ b # fresh
    BY <1>1, NullIsNoBuf DEF MappedOK
  <1>3. Frames' = Frames /\ SrcOK' /\ 0 \in Frames
    BY <1>1, FirstFrame DEF Frames, Frame, SourceTypeOK, SrcOK
  <1>4. /\ backing' \in [Bufs -> [Frames -> States]]
        /\ \A c \in Bufs \ {b} : backing'[c] = backing[c]
        /\ \A f \in Frames : backing'[b][f] = IF f \in lo .. hi THEN "lazy" ELSE backing[b][f]
    BY <1>1 DEF SourceTypeOK, States
  <1>5. \A c \in Mapped : \A f \in Frames : backing'[c][f] # "none"
    BY <1>4 DEF MappedOK, Mapped
  <1>6. Mapped' = Mapped
    BY <1>2, <1>3, <1>4, <1>5 DEF Mapped
  <1>7. Free' = Free /\ NULL \notin Free
    BY <1>1, <1>6, NullIsNoBuf DEF Free
  <1>8. FreeListIntact'
    <2>1. CASE lo = 0 /\ b \in Free
      <3>1. /\ word'[b] = NULL /\ cut' = cut \cup ({word[b]} \ {NULL})
            /\ \A c \in Free \ {b} : word'[c] = word[c]
        BY <1>1, <2>1 DEF SourceTypeOK, Free, Mapped
      <3> QED  BY <1>1, <1>7, <2>1, <3>1, ListCut
    <2>2. CASE ~(lo = 0 /\ b \in Free)
      <3>1. cut' = cut /\ \A c \in Free : word'[c] = word[c]
        BY <1>1, <2>2 DEF SourceTypeOK, Free, Mapped
      <3> QED  BY <1>1, <1>7, <3>1, ListSame
    <2> QED  BY <2>1, <2>2
  <1>9. SourceTypeOK'
    <2>1. word' \in [Bufs -> Bufs \cup {NULL, GARBAGE}]
      BY <1>1 DEF SourceTypeOK
    <2>2. cut' \subseteq Bufs
      BY <1>7, <1>8 DEF FreeListIntact, Free, Mapped
    <2> QED  BY <1>1, <1>3, <1>4, <2>1, <2>2 DEF SourceTypeOK
  <1>10. MappedOK'
    BY <1>1, <1>3, <1>5, <1>6 DEF MappedOK
  <1>11. \A c \in Bufs \ {b} : Committed(c) => Committed(c)'
    BY <1>3, <1>4 DEF Committed
  <1>12. PrewarmedIsCommitted' /\ FreshCommitted'
    BY <1>1, <1>2, <1>3, <1>11, NullIsNoBuf
    DEF PrewarmedIsCommitted, FreshCommitted, Committed, MappedOK, SourceTypeOK
  <1> QED  BY <1>8, <1>9, <1>10, <1>12

\* Shutdown reads the head's link, then releases it.
LEMMA ReleaseFreeInv == ASSUME SourceInv, ReleaseFree PROVE SourceInv'
  <1> USE DEF SourceInv
  <1>1. /\ op = "closed" /\ head # NULL /\ head' = word[head] /\ warm' = warm \ {head}
        /\ backing' = [backing EXCEPT ![head] = [f \in Frames |-> "none"]]
        /\ src' = src /\ word' = word /\ held' = held /\ fresh' = fresh /\ op' = op
        /\ known' = known \ {head} /\ cut' = cut
    BY DEF ReleaseFree, SourceRelease
  <1>2. head \in Free /\ head \in Mapped \ held /\ head \in Bufs
    BY <1>1 DEF FreeListIntact, Free, Mapped
  <1>3. /\ backing' \in [Bufs -> [Frames -> States]] /\ Frames' = Frames /\ SrcOK'
        /\ Mapped' = Mapped \ {head}
        /\ \A c \in Mapped' : \A f \in Frames : backing'[c][f] # "none"
        /\ \A c \in Bufs \ {head} : Committed(c) => Committed(c)'
    BY <1>1, <1>2, BackKeeps DEF States
  <1>4. word[head] \in Bufs \cup {NULL}
    BY <1>2 DEF FreeListIntact, Free, Mapped
  <1>5. SourceTypeOK'
    BY <1>1, <1>3, <1>4 DEF SourceTypeOK
  <1>6. MappedOK'
    BY <1>1, <1>2, <1>3 DEF MappedOK
  <1>7. PrewarmedIsCommitted' /\ FreshCommitted'
    BY <1>1, <1>3 DEF PrewarmedIsCommitted, FreshCommitted, Committed, SourceTypeOK
  <1>8. Free' = Free \ {head}
    BY <1>1, <1>3 DEF Free
  <1>9. FreeListIntact'
    BY <1>1, <1>2, <1>8, NullIsNoBuf, ListUnlink
  <1> QED  BY <1>5, <1>6, <1>7, <1>9

\* Steps that leave every buffer alone.
LEMMA SourceQuiet == ASSUME SourceInv, DropPool \/ UNCHANGED svars PROVE SourceInv'
  <1> USE DEF SourceInv
  <1>1. /\ src' = src /\ backing' = backing /\ word' = word /\ head' = head
        /\ held' = held /\ fresh' = fresh /\ warm' = warm /\ known' = known /\ cut' = cut
        /\ op' = op \/ (op = "idle" /\ op' = "closed")
    BY DEF DropPool, svars
  <1>2. SrcOK' /\ Frames' = Frames /\ Mapped' = Mapped /\ Free' = Free
    BY <1>1 DEF SourceTypeOK, SrcOK, Frames, Frame, Mapped, Free
  <1>3. SourceTypeOK'
    BY <1>1, <1>2 DEF SourceTypeOK
  <1>4. MappedOK'
    BY <1>1, <1>2 DEF MappedOK
  <1>5. FreshCommitted' /\ PrewarmedIsCommitted'
    BY <1>1, <1>2 DEF FreshCommitted, PrewarmedIsCommitted, Committed
  <1>6. FreeListIntact'
    BY <1>1, <1>2, ListSame
  <1> QED  BY <1>3, <1>4, <1>5, <1>6

\* Every step keeps the invariant.
LEMMA SourceNextInv == SourceInv /\ [SourceNext]_svars => SourceInv'
  BY PrewarmAllocateInv, PrewarmPrefaultInv, PrewarmPushInv, AllocateRecycledInv,
     AllocateFreshInv, UserWriteInv, DropPageInv, MadviseDontneedInv, ReleaseFreeInv,
     SourceQuiet
  DEF SourceNext, SourceFinished

\* SourceInv holds in every reachable state.
THEOREM SourcesSound == SourceSpec => []SourceInv
  BY SourceInitInv, SourceNextInv, PTL DEF SourceSpec

\* A page that prewarm delivered stays committed, frame for frame, until its
\* holder gives the memory back: MmapSource::prefault and HugePageSource::prefault
\* touch every frame whatever sysconf answers (src/src/mmap.rs), and no later
\* allocate, write, drop or push uncommits one.
THEOREM PrewarmedStaysCommitted == SourceSpec => []PrewarmedIsCommitted
  <1>1. SourceInv => PrewarmedIsCommitted
    BY DEF SourceInv
  <1> QED  BY <1>1, SourcesSound, PTL

\* Each free buffer is entered by one pointer: the head, another free buffer's
\* link, or a link that madvise_dontneed erased in a page its caller had already
\* dropped.  prefault, user code, and madvise_dontneed on any part of any mapping
\* never make the pool hand out or release a buffer twice, and strand nothing
\* but what lies behind an erased link.
THEOREM FreeListSurvives == SourceSpec => []FreeListIntact
  <1>1. SourceInv => FreeListIntact
    BY DEF SourceInv
  <1> QED  BY <1>1, SourcesSound, PTL

\* What a caller of madvise_dontneed has to keep to, and its documentation does
\* not ask for: it advises only pages that it still holds.
AdvisesHeldPages ==
  \A b \in Bufs : \A lo, hi \in Frames : MadviseDontneed(b, lo, hi) => b \in held

\* Links are erased in free buffers only.
LEMMA HeldPagesCutNothing ==
  ASSUME SourceInv, cut = {}, [SourceNext]_svars, [AdvisesHeldPages]_svars
  PROVE  cut' = {}
  <1>1. CASE UNCHANGED svars
    BY <1>1 DEF svars
  <1>2. ASSUME NEW b \in Bufs, NEW lo \in Frames, NEW hi \in Frames,
               MadviseDontneed(b, lo, hi), AdvisesHeldPages
        PROVE  cut' = {}
    <2>1. b \in held
      BY <1>2 DEF AdvisesHeldPages
    <2>2. b \notin Free
      BY <2>1 DEF Free
    <2> QED  BY <1>2, <2>2 DEF MadviseDontneed
  <1>3. CASE SourceNext /\ AdvisesHeldPages
    BY <1>2, <1>3
    DEF SourceNext, SourceFinished, svars, PrewarmAllocate, PrewarmPrefault, PrewarmPush,
        AllocateRecycled, AllocateFresh, UserWrite, DropPage, DropPool, ReleaseFree
  <1> QED  BY <1>1, <1>3

\* A pool whose callers advise only pages they hold finds all its buffers: at
\* the end of the list no buffer is free, so allocate asks the source only then,
\* and the drop walks leave nothing mapped but pages still held.  This is
\* NothingStranded, which run madvise_evicted violates for evicted pages.
THEOREM HeldPagesStrandNothing ==
  SourceSpec /\ [][AdvisesHeldPages]_svars => []NothingStranded
  <1>1. SourceInit => cut = {}
    BY DEF SourceInit
  <1>2. SourceInv /\ cut = {} /\ [SourceNext]_svars /\ [AdvisesHeldPages]_svars => (cut = {})'
    BY HeldPagesCutNothing
  <1>3. SourceInv /\ cut = {} => NothingStranded
    <2> SUFFICES ASSUME SourceInv, cut = {}, head = NULL, Free # {} PROVE FALSE
      BY DEF NothingStranded
    <2>1. Free \in (SUBSET Free) \ {{}}
      OBVIOUS
    <2> QED  BY <2>1, NullIsNoBuf DEF SourceInv, FreeListIntact
  <1> QED  BY <1>1, <1>2, <1>3, SourcesSound, PTL DEF SourceSpec
=============================================================================
