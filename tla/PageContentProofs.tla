------------------------- MODULE PageContentProofs -------------------------
(***************************************************************************)
(* PageContent implements HandleStore, for any number of pages, buffers    *)
(* and bytes.                                                              *)
(*                                                                         *)
(* The argument is ownership: a live page's buffer belongs to a user in    *)
(* the ledger and to no other page, and every write of the pool (a link,   *)
(* the zeros of a fresh mapping) goes to a buffer that the ledger has      *)
(* elsewhere.  So a step changes the bytes of at most one page.            *)
(***************************************************************************)
EXTENDS PageContent, TLAPS

\* A page that is live has a buffer of a user and somebody who refers to it;
\* a builder has exactly one owner.
LiveOK ==
  \A p \in Pages :
    \/ page[p] = NoPage
    \/ /\ page[p].st \in {"builder", "sealed"}
       /\ page[p].buf \in Bufs /\ owner[page[p].buf] = "user"
       /\ page[p].refs \in 1 .. MaxRefs
       /\ page[p].st = "builder" => page[p].refs = 1

PageContentInv == PageContentTypeOK /\ LiveOK

Bytes == [1 .. PageBytes -> Values \cup {ZERO, LINK}]

-----------------------------------------------------------------------------
(* Bytes.                                                                  *)

\* The data that user code writes.
LEMMA RunIsSeq ==
  ASSUME NEW k \in Nat, NEW v \in Values
  PROVE  Run(k, v) \in Seq(Values) /\ Len(Run(k, v)) = k
  BY DEF Run

\* A buffer's bytes are a sequence as long as the page size.
LEMMA BytesLen == ASSUME NEW d \in Bytes PROVE Len(d) = PageBytes
  BY PageContentAssumption DEF Bytes

\* A write into a page reaches its own buffer only.
LEMMA PutKeeps ==
  ASSUME PageContentInv, NEW p \in Pages, page[p] # NoPage, NEW at \in Nat,
         NEW s \in Seq(Values), mem' = Put(p, at, s)
  PROVE  /\ mem' \in [Bufs -> Bytes]
         /\ \A c \in Bufs \ {page[p].buf} : mem'[c] = mem[c]
  <1>1. page[p].buf \in Bufs /\ mem \in [Bufs -> Bytes]
    BY DEF PageContentInv, LiveOK, PageContentTypeOK, Bytes
  <1>2. \A i \in 1 .. PageBytes : i - at \in 1 .. Len(s) => s[i - at] \in Values
    OBVIOUS
  <1>3. [i \in 1 .. PageBytes |-> IF i - at \in 1 .. Len(s) THEN s[i - at]
                                   ELSE mem[page[p].buf][i]] \in Bytes
    BY <1>1, <1>2 DEF Bytes
  <1> QED  BY <1>1, <1>3 DEF Put

-----------------------------------------------------------------------------
(* Steps of HandleStore.                                                   *)

\* What one page's step does to all that is shown.
LEMMA OneShown ==
  ASSUME NEW p \in Pages, \A q \in Pages \ {p} : Shown'[q] = Shown[q]
  PROVE  Shown' = [Shown EXCEPT ![p] = Shown'[p]]
  BY DEF Shown

\* A page shows its buffer's bytes while it is live.
LEMMA ShownOf ==
  ASSUME PageContentInv, NEW p \in Pages
  PROVE  IF page[p] = NoPage
         THEN Shown[p] = [st |-> "none", refs |-> 0, len |-> 0, data |-> <<>>]
         ELSE Shown[p] = [st |-> page[p].st, refs |-> page[p].refs, len |-> page[p].len,
                          data |-> mem[page[p].buf]]
  BY DEF PageContentInv, LiveOK, Shown, AsMutSlice, NoPage

\* A page that keeps its record, in a buffer that keeps its bytes, shows the same.
LEMMA ShownSame ==
  ASSUME NEW q \in Pages, page'[q] = page[q],
         page[q].st # "none" => mem'[page[q].buf] = mem[page[q].buf]
  PROVE  Shown'[q] = Shown[q]
  BY DEF Shown, AsMutSlice

\* Steps of the pool that no page sees.
LEMMA PoolQuiet ==
  ASSUME PageContentInv, page' = page, call' = call, LedgerTypeOK', mem' \in [Bufs -> Bytes],
         \A c \in Bufs : owner[c] = "user" => mem'[c] = mem[c] /\ owner'[c] = "user"
  PROVE  PageContentInv' /\ Shown' = Shown
  <1>1. LiveOK'
    BY DEF PageContentInv, LiveOK, NoPage
  <1>2. PageContentTypeOK'
    BY DEF PageContentInv, PageContentTypeOK, Bytes, NoPage
  <1>3. ASSUME NEW q \in Pages PROVE Shown'[q] = Shown[q]
    BY <1>3, ShownSame DEF PageContentInv, LiveOK, NoPage
  <1>4. Shown' = Shown
    BY <1>3 DEF Shown
  <1> QED  BY <1>1, <1>2, <1>4 DEF PageContentInv

\* An edit, as HandleStore has it.
LEMMA StoreEdit ==
  ASSUME NEW p \in Pages, Shown' = [Shown EXCEPT ![p] = Shown'[p]], Shown[p].st = "builder",
         Shown'[p] = [st |-> "builder", refs |-> Shown[p].refs, len |-> Shown'[p].len,
                      data |-> Shown'[p].data],
         Len(Shown'[p].data) = Len(Shown[p].data), Shown'[p].len <= Len(Shown'[p].data)
  PROVE  Store!StoreNext
  <1>1. Store!Edit(p, Shown'[p].data, Shown'[p].len)
    BY DEF Store!Edit, Store!Becomes
  <1> QED  BY <1>1 DEF Store!StoreNext

\* Creation, sealing, sharing and dropping, as HandleStore has them.
LEMMA StoreCreate ==
  ASSUME NEW p \in Pages, Shown' = [Shown EXCEPT ![p] = Shown'[p]], Shown[p].st = "none",
         Shown'[p] = [st |-> "builder", refs |-> 1, len |-> 0, data |-> Shown'[p].data]
  PROVE  Store!StoreNext
  <1>1. Store!Create(p, Shown'[p].data)
    BY DEF Store!Create, Store!Becomes
  <1> QED  BY <1>1 DEF Store!StoreNext

\* seal, and the end of an alloc_* call.
LEMMA StoreComplete ==
  ASSUME NEW p \in Pages, Shown' = [Shown EXCEPT ![p] = Shown'[p]], Shown[p].st = "builder",
         Shown'[p] = [st |-> "sealed", refs |-> 1, len |-> Shown'[p].len,
                      data |-> Shown'[p].data],
         Len(Shown'[p].data) = Len(Shown[p].data), Shown'[p].len <= Len(Shown'[p].data)
  PROVE  Store!StoreNext
  <1>1. Store!Complete(p, Shown'[p].data, Shown'[p].len)
    BY DEF Store!Complete, Store!Becomes
  <1> QED  BY <1>1 DEF Store!StoreNext

\* clone.
LEMMA StoreShare ==
  ASSUME NEW p \in Pages, Shown' = [Shown EXCEPT ![p] = Shown'[p]], Shown[p].st = "sealed",
         Shown'[p] = [Shown[p] EXCEPT !.refs = @ + 1]
  PROVE  Store!StoreNext
  <1>1. Store!Share(p)
    BY DEF Store!Share, Store!Becomes
  <1> QED  BY <1>1 DEF Store!StoreNext

\* Drop of one of several clones.
LEMMA StoreUnshare ==
  ASSUME NEW p \in Pages, Shown' = [Shown EXCEPT ![p] = Shown'[p]], Shown[p].st = "sealed",
         Shown[p].refs > 1, Shown'[p] = [Shown[p] EXCEPT !.refs = @ - 1]
  PROVE  Store!StoreNext
  <1>1. Store!Unshare(p)
    BY DEF Store!Unshare, Store!Becomes
  <1> QED  BY <1>1 DEF Store!StoreNext

\* Drop of the last handle, or of a builder.
LEMMA StoreDiscard ==
  ASSUME NEW p \in Pages, Shown' = [Shown EXCEPT ![p] = Shown'[p]], Shown[p].refs = 1,
         Shown'[p] = [st |-> "none", refs |-> 0, len |-> 0, data |-> <<>>]
  PROVE  Store!StoreNext
  <1>1. Store!Discard(p)
    BY DEF Store!Discard, Store!Becomes, Store!NoHandle
  <1> QED  BY <1>1 DEF Store!StoreNext

\* A live page changes its record or its bytes, and keeps its buffer.
LEMMA LiveStep ==
  ASSUME PageContentInv, NEW p \in Pages, page[p] # NoPage,
         NEW r \in [st : {"builder", "sealed"}, refs : 1 .. MaxRefs, buf : Bufs,
                    len : 0 .. PageBytes],
         r.buf = page[p].buf, r.st = "builder" => r.refs = 1,
         page' = [page EXCEPT ![p] = r], owner' = owner, open' = open,
         call' \subseteq call, r.st # "builder" => p \notin call',
         mem' \in [Bufs -> Bytes], \A c \in Bufs \ {r.buf} : mem'[c] = mem[c]
  PROVE  /\ PageContentInv'
         /\ Shown' = [Shown EXCEPT ![p] = Shown'[p]]
         /\ Shown'[p] = [st |-> r.st, refs |-> r.refs, len |-> r.len, data |-> mem'[r.buf]]
  <1>1. page'[p] = r /\ \A q \in Pages \ {p} : page'[q] = page[q]
    BY DEF PageContentInv, PageContentTypeOK
  <1>2. r # NoPage /\ r \in [st : {"none", "builder", "sealed"}, refs : 0 .. MaxRefs,
                              buf : Bufs \cup {NULL}, len : 0 .. PageBytes]
    BY PageContentAssumption DEF NoPage
  <1>3. \A q \in Pages \ {p} : page[q].buf # r.buf
    BY <1>2, PageContentAssumption DEF PageContentInv, PageContentTypeOK, NoPage
  <1>4. LiveOK'
    BY <1>1 DEF PageContentInv, LiveOK, NoPage
  <1>5. PageContentTypeOK'
    <2>1. page' \in [Pages -> [st : {"none", "builder", "sealed"}, refs : 0 .. MaxRefs,
                               buf : Bufs \cup {NULL}, len : 0 .. PageBytes]]
      BY <1>2 DEF PageContentInv, PageContentTypeOK
    <2>2. \A i, j \in Pages : page'[i].buf = page'[j].buf => i = j \/ page'[i] = NoPage
      BY <1>1, <1>3 DEF PageContentInv, PageContentTypeOK, NoPage
    <2>3. call' \subseteq {q \in Pages : page'[q].st = "builder"}
      BY <1>1 DEF PageContentInv, PageContentTypeOK
    <2> QED  BY <2>1, <2>2, <2>3
             DEF PageContentInv, PageContentTypeOK, NoPage, LedgerTypeOK, Bytes
  <1>6. ASSUME NEW q \in Pages \ {p} PROVE Shown'[q] = Shown[q]
    BY <1>1, <1>3, <1>6, ShownSame DEF PageContentInv, LiveOK, NoPage
  <1>7. Shown'[p] = [st |-> r.st, refs |-> r.refs, len |-> r.len, data |-> mem'[r.buf]]
    BY <1>1 DEF Shown, AsMutSlice
  <1> QED  BY <1>4, <1>5, <1>6, <1>7, OneShown DEF PageContentInv

\* What a page of a live builder or handle looks like, for citing.
LEMMA LiveRecord ==
  ASSUME PageContentInv, NEW p \in Pages, page[p].st # "none"
  PROVE  /\ page[p] # NoPage /\ page[p].buf \in Bufs /\ mem[page[p].buf] \in Bytes
         /\ page[p] \in [st : {"builder", "sealed"}, refs : 1 .. MaxRefs, buf : Bufs,
                         len : 0 .. PageBytes]
         /\ page[p].st = "builder" => page[p].refs = 1
         /\ Shown[p] = [st |-> page[p].st, refs |-> page[p].refs, len |-> page[p].len,
                        data |-> mem[page[p].buf]]
         /\ mem \in [Bufs -> Bytes]
  <1>1. page[p] # NoPage
    BY DEF NoPage
  <1>2. /\ page[p].buf \in Bufs /\ mem \in [Bufs -> Bytes]
        /\ page[p].st \in {"builder", "sealed"} /\ page[p].refs \in 1 .. MaxRefs
        /\ page[p].st = "builder" => page[p].refs = 1
    BY <1>1 DEF PageContentInv, LiveOK, PageContentTypeOK, Bytes
  <1>3. page[p] \in [st : {"none", "builder", "sealed"}, refs : 0 .. MaxRefs,
                     buf : Bufs \cup {NULL}, len : 0 .. PageBytes]
    BY DEF PageContentInv, PageContentTypeOK
  <1>4. page[p] \in [st : {"builder", "sealed"}, refs : 1 .. MaxRefs, buf : Bufs,
                     len : 0 .. PageBytes]
    BY <1>2, <1>3
  <1> QED  BY <1>1, <1>2, <1>4, ShownOf

\* A builder that puts bytes into its buffer, and keeps or changes its length.
LEMMA EditStep ==
  ASSUME PageContentInv, NEW p \in Pages, InHand(p), NEW n \in 0 .. PageBytes,
         page' = [page EXCEPT ![p].len = n], UNCHANGED <<call, ledger>>,
         mem' \in [Bufs -> Bytes], \A c \in Bufs \ {page[p].buf} : mem'[c] = mem[c]
  PROVE  PageContentInv' /\ Store!StoreNext
  <1> DEFINE r == [page[p] EXCEPT !.len = n]
  <1>1. /\ page[p].st = "builder" /\ page[p] # NoPage /\ page[p].buf \in Bufs
        /\ mem[page[p].buf] \in Bytes
        /\ page[p] \in [st : {"builder", "sealed"}, refs : 1 .. MaxRefs, buf : Bufs,
                        len : 0 .. PageBytes]
        /\ page[p].refs = 1
        /\ Shown[p] = [st |-> "builder", refs |-> 1, len |-> page[p].len,
                       data |-> mem[page[p].buf]]
    BY LiveRecord DEF InHand
  <1>2. /\ r \in [st : {"builder", "sealed"}, refs : 1 .. MaxRefs, buf : Bufs,
                  len : 0 .. PageBytes]
        /\ r.buf = page[p].buf /\ r.st = "builder" /\ r.refs = 1 /\ r.len = n
        /\ page' = [page EXCEPT ![p] = r]
        /\ call' \subseteq call /\ owner' = owner /\ open' = open
    BY <1>1 DEF ledger
  <1> HIDE DEF r
  <1>0. \A c \in Bufs \ {r.buf} : mem'[c] = mem[c]
    BY <1>2
  <1>3. /\ PageContentInv'
        /\ Shown' = [Shown EXCEPT ![p] = Shown'[p]]
        /\ Shown'[p] = [st |-> r.st, refs |-> r.refs, len |-> r.len, data |-> mem'[r.buf]]
    BY <1>1, <1>2, <1>0, LiveStep
  <1>4. Len(mem'[page[p].buf]) = Len(mem[page[p].buf]) /\ n <= Len(mem'[page[p].buf])
    BY <1>1, BytesLen
  <1>5. Shown'[p] = [st |-> "builder", refs |-> 1, len |-> n, data |-> mem'[page[p].buf]]
    BY <1>2, <1>3
  <1>6. /\ Shown[p].st = "builder" /\ Shown[p].refs = 1 /\ Shown[p].data = mem[page[p].buf]
        /\ Shown'[p].len = n /\ Shown'[p].data = mem'[page[p].buf]
    BY <1>1, <1>5
  <1>7. Store!StoreNext
    BY <1>3, <1>4, <1>5, <1>6, StoreEdit
  <1> QED  BY <1>3, <1>7

\* A builder is sealed, after a last write.
LEMMA CompleteStep ==
  ASSUME PageContentInv, NEW p \in Pages, page[p].st = "builder", NEW n \in 0 .. PageBytes,
         page' = [page EXCEPT ![p] = [st |-> "sealed", refs |-> @.refs, buf |-> @.buf, len |-> n]],
         call' = call \ {p}, UNCHANGED ledger,
         mem' \in [Bufs -> Bytes], \A c \in Bufs \ {page[p].buf} : mem'[c] = mem[c]
  PROVE  PageContentInv' /\ Store!StoreNext
  <1> DEFINE r == [st |-> "sealed", refs |-> 1, buf |-> page[p].buf, len |-> n]
  <1>1. /\ page[p] # NoPage /\ page[p].buf \in Bufs /\ mem[page[p].buf] \in Bytes
        /\ page[p] \in [st : {"builder", "sealed"}, refs : 1 .. MaxRefs, buf : Bufs,
                        len : 0 .. PageBytes]
        /\ page[p].refs = 1
        /\ Shown[p] = [st |-> "builder", refs |-> 1, len |-> page[p].len,
                       data |-> mem[page[p].buf]]
    BY LiveRecord
  <1>2. page' = [page EXCEPT ![p] = r]
    BY <1>1 DEF PageContentInv, PageContentTypeOK
  <1>3. /\ r \in [st : {"builder", "sealed"}, refs : 1 .. MaxRefs, buf : Bufs,
                  len : 0 .. PageBytes]
        /\ r.buf = page[p].buf /\ r.st = "sealed" /\ r.refs = 1 /\ r.len = n
        /\ call' \subseteq call /\ p \notin call' /\ owner' = owner /\ open' = open
    BY <1>1, PageContentAssumption DEF ledger
  <1> HIDE DEF r
  <1>4. \A c \in Bufs \ {r.buf} : mem'[c] = mem[c]
    BY <1>3
  <1>5. /\ PageContentInv'
        /\ Shown' = [Shown EXCEPT ![p] = Shown'[p]]
        /\ Shown'[p] = [st |-> r.st, refs |-> r.refs, len |-> r.len, data |-> mem'[r.buf]]
    BY <1>1, <1>2, <1>3, <1>4, LiveStep
  <1>6. Len(mem'[page[p].buf]) = Len(mem[page[p].buf]) /\ n <= Len(mem'[page[p].buf])
    BY <1>1, BytesLen
  <1>7. Shown'[p] = [st |-> "sealed", refs |-> 1, len |-> n, data |-> mem'[page[p].buf]]
    BY <1>3, <1>5
  <1>8. /\ Shown[p].st = "builder" /\ Shown[p].data = mem[page[p].buf]
        /\ Shown'[p].len = n /\ Shown'[p].data = mem'[page[p].buf]
    BY <1>1, <1>7
  <1>9. Store!StoreNext
    BY <1>5, <1>6, <1>7, <1>8, StoreComplete
  <1> QED  BY <1>5, <1>9

-----------------------------------------------------------------------------
(* The actions: each keeps PageContentInv, and is a step of HandleStore or *)
(* not seen there.                                                         *)

\* No page in use, every buffer with the source.
LEMMA PageContentInitOK == PageContentInit => PageContentInv /\ Store!StoreInit
  <1> SUFFICES ASSUME PageContentInit PROVE PageContentInv /\ Store!StoreInit
    OBVIOUS
  <1>1. PageContentTypeOK
    BY PageContentAssumption
    DEF PageContentInit, PageContentTypeOK, NoPage, Zeros, LedgerInit, LedgerTypeOK
  <1>2. LiveOK
    BY DEF PageContentInit, LiveOK
  <1>3. Store!StoreInit
    BY DEF PageContentInit, Store!StoreInit, Store!NoHandle, Shown, NoPage
  <1> QED  BY <1>1, <1>2, <1>3 DEF PageContentInv

\* allocate, by user code or inside an alloc_* call: the buffer was no page's.
LEMMA NewBuilderOK ==
  ASSUME PageContentInv, NEW p \in Pages, NEW b \in Bufs, NEW inside \in {{}, {p}},
         NewBuilder(p, b, inside)
  PROVE  PageContentInv' /\ Store!StoreNext
  <1> DEFINE r == [st |-> "builder", refs |-> 1, buf |-> b, len |-> 0]
  <1>1. /\ page[p].st = "none" /\ page' = [page EXCEPT ![p] = r] /\ mem' = mem
        /\ call = {} /\ call' = inside
        /\ owner[b] # "user" /\ owner' = [owner EXCEPT ![b] = "user"] /\ open' = open
    BY DEF NewBuilder, Grant, Obtain, Move
  <1>2. page[p] = NoPage
    BY <1>1 DEF PageContentInv, LiveOK
  <1>3. page'[p] = r /\ \A q \in Pages \ {p} : page'[q] = page[q]
    BY <1>1 DEF PageContentInv, PageContentTypeOK
  <1>4. \A q \in Pages : page[q] # NoPage => page[q].buf # b
    BY <1>1 DEF PageContentInv, LiveOK
  <1>5. owner' \in [Bufs -> {"source", "pool", "user"}] /\ owner'[b] = "user"
        /\ \A c \in Bufs \ {b} : owner'[c] = owner[c]
    BY <1>1 DEF PageContentInv, PageContentTypeOK, LedgerTypeOK
  <1>6. LiveOK'
    BY <1>3, <1>4, <1>5, PageContentAssumption DEF PageContentInv, LiveOK, NoPage
  <1>7. PageContentTypeOK'
    <2>1. page' \in [Pages -> [st : {"none", "builder", "sealed"}, refs : 0 .. MaxRefs,
                               buf : Bufs \cup {NULL}, len : 0 .. PageBytes]]
      BY <1>1, PageContentAssumption DEF PageContentInv, PageContentTypeOK
    <2>2. \A i, j \in Pages : page'[i].buf = page'[j].buf => i = j \/ page'[i] = NoPage
      <3>1. \A q \in Pages \ {p} : page'[q].buf # b
        BY <1>3, <1>4, PageContentAssumption DEF NoPage
      <3> QED  BY <1>3, <3>1 DEF PageContentInv, PageContentTypeOK, NoPage
    <2>3. call' \subseteq {q \in Pages : page'[q].st = "builder"}
      BY <1>1, <1>3
    <2> QED  BY <1>1, <1>5, <2>1, <2>2, <2>3
             DEF PageContentInv, PageContentTypeOK, NoPage, LedgerTypeOK
  <1>8. ASSUME NEW q \in Pages \ {p} PROVE Shown'[q] = Shown[q]
    BY <1>1, <1>3, <1>8, ShownSame
  <1>9. /\ Shown[p].st = "none"
        /\ Shown'[p] = [st |-> "builder", refs |-> 1, len |-> 0, data |-> Shown'[p].data]
    BY <1>1, <1>3 DEF Shown
  <1>10. Store!StoreNext
    BY <1>8, <1>9, OneShown, StoreCreate
  <1> QED  BY <1>6, <1>7, <1>10 DEF PageContentInv

\* append: all or nothing.
LEMMA AppendBytesOK ==
  ASSUME PageContentInv, NEW p \in Pages, NEW s \in Seq(Values), AppendBytes(p, s)
  PROVE  PageContentInv' /\ [Store!StoreNext]_Shown
  <1>1. CASE Len(s) > Remaining(p)
    <2>1. page' = page /\ mem' = mem /\ call' = call /\ owner' = owner /\ open' = open
      BY <1>1 DEF AppendBytes, ledger
    <2> QED  BY <2>1, PoolQuiet DEF PageContentInv, PageContentTypeOK, Bytes, LedgerTypeOK
  <1>2. CASE ~(Len(s) > Remaining(p))
    <2>1. /\ InHand(p) /\ page[p].st # "none" /\ mem' = Put(p, page[p].len, s)
          /\ page' = [page EXCEPT ![p].len = @ + Len(s)] /\ UNCHANGED <<call, ledger>>
      BY <1>2 DEF AppendBytes, InHand
    <2>2. page[p] # NoPage /\ page[p].len \in 0 .. PageBytes
      BY <2>1, LiveRecord
    <2>3. page[p].len + Len(s) \in 0 .. PageBytes /\ page[p].len \in Nat
      BY <1>2, <2>2, PageContentAssumption DEF Remaining
    <2>4. page' = [page EXCEPT ![p].len = page[p].len + Len(s)]
      BY <2>1
    <2> QED  BY <2>1, <2>2, <2>3, <2>4, PutKeeps, EditStep
  <1> QED  BY <1>1, <1>2

\* A write through as_mut_slice.
LEMMA WriteMutOK ==
  ASSUME PageContentInv, NEW p \in Pages, NEW s \in Seq(Values), WriteMut(p, s)
  PROVE  PageContentInv' /\ Store!StoreNext
  <1>1. /\ InHand(p) /\ page[p].st # "none" /\ mem' = Put(p, 0, s)
        /\ page' = page /\ UNCHANGED <<call, ledger>>
    BY DEF WriteMut, InHand
  <1>2. /\ page[p] # NoPage /\ page[p].len \in 0 .. PageBytes
        /\ page[p] \in [st : {"builder", "sealed"}, refs : 1 .. MaxRefs, buf : Bufs,
                        len : 0 .. PageBytes]
    BY <1>1, LiveRecord
  <1>3. page' = [page EXCEPT ![p].len = page[p].len]
    BY <1>1, <1>2 DEF PageContentInv, PageContentTypeOK
  <1> QED  BY <1>1, <1>2, <1>3, PutKeeps, EditStep

\* set_len.
LEMMA SetLenOK ==
  ASSUME PageContentInv, NEW p \in Pages, NEW n \in Nat, SetLen(p, n)
  PROVE  PageContentInv' /\ Store!StoreNext
  <1>1. /\ InHand(p) /\ mem' = mem /\ n \in 0 .. PageBytes
        /\ page' = [page EXCEPT ![p].len = n] /\ UNCHANGED <<call, ledger>>
    BY PageContentAssumption DEF SetLen
  <1>2. mem' \in [Bufs -> Bytes]
    BY <1>1 DEF PageContentInv, PageContentTypeOK, Bytes
  <1> QED  BY <1>1, <1>2, EditStep

\* seal.
LEMMA SealPageOK ==
  ASSUME PageContentInv, NEW p \in Pages, SealPage(p)
  PROVE  PageContentInv' /\ Store!StoreNext
  <1>1. /\ page[p].st = "builder" /\ p \notin call /\ mem' = mem
        /\ page' = [page EXCEPT ![p].st = "sealed"] /\ call' = call \ {p} /\ UNCHANGED ledger
    BY DEF SealPage, InHand
  <1>2. /\ page[p].len \in 0 .. PageBytes /\ mem' \in [Bufs -> Bytes]
        /\ page[p] \in [st : {"builder", "sealed"}, refs : 1 .. MaxRefs, buf : Bufs,
                        len : 0 .. PageBytes]
    BY <1>1, LiveRecord
  <1>3. [page[p] EXCEPT !.st = "sealed"]
        = [st |-> "sealed", refs |-> page[p].refs, buf |-> page[p].buf, len |-> page[p].len]
    BY <1>2
  <1>4. page' = [page EXCEPT ![p] = [st |-> "sealed", refs |-> @.refs, buf |-> @.buf,
                                     len |-> page[p].len]]
    BY <1>1, <1>3
  <1> QED  BY <1>1, <1>2, <1>4, CompleteStep

\* The end of an alloc_* call.
LEMMA FillAndSealOK ==
  ASSUME PageContentInv, NEW p \in Pages, NEW s \in Seq(Values), NEW n \in Nat,
         FillAndSeal(p, s, n)
  PROVE  PageContentInv' /\ Store!StoreNext
  <1>1. /\ p \in call /\ n \in 0 .. PageBytes /\ mem' = Put(p, 0, s)
        /\ page' = [page EXCEPT ![p] = [st |-> "sealed", refs |-> @.refs, buf |-> @.buf, len |-> n]]
        /\ call' = call \ {p} /\ UNCHANGED ledger
    BY PageContentAssumption DEF FillAndSeal
  <1>2. page[p].st = "builder"
    BY <1>1 DEF PageContentInv, PageContentTypeOK
  <1>3. page[p] # NoPage
    BY <1>2 DEF NoPage
  <1> QED  BY <1>1, <1>2, <1>3, PutKeeps, CompleteStep

\* clone, and drop of one of several clones.
LEMMA CloneOK ==
  ASSUME PageContentInv, NEW p \in Pages, ClonePage(p) \/ DropClone(p)
  PROVE  PageContentInv' /\ Store!StoreNext
  <1> DEFINE k == IF ClonePage(p) THEN page[p].refs + 1 ELSE page[p].refs - 1
  <1> DEFINE r == [page[p] EXCEPT !.refs = k]
  <1>1. page[p].st # "none"
    BY DEF ClonePage, DropClone, PageContentInv, LiveOK, NoPage
  <1>2. /\ page[p] # NoPage /\ page[p].buf \in Bufs /\ mem \in [Bufs -> Bytes]
        /\ page[p] \in [st : {"builder", "sealed"}, refs : 1 .. MaxRefs, buf : Bufs,
                        len : 0 .. PageBytes]
        /\ page[p].st = "builder" => page[p].refs = 1
        /\ Shown[p] = [st |-> page[p].st, refs |-> page[p].refs, len |-> page[p].len,
                       data |-> mem[page[p].buf]]
    BY <1>1, LiveRecord
  <1>3. /\ page[p].st = "sealed" /\ page' = [page EXCEPT ![p] = r] /\ k \in 1 .. MaxRefs
        /\ mem' = mem /\ call' = call /\ owner' = owner /\ open' = open
        /\ ClonePage(p) \/ page[p].refs > 1
    BY <1>2, PageContentAssumption DEF ClonePage, DropClone, ledger
  <1>4. p \notin call
    BY <1>3 DEF PageContentInv, PageContentTypeOK
  <1>5. /\ r \in [st : {"builder", "sealed"}, refs : 1 .. MaxRefs, buf : Bufs,
                  len : 0 .. PageBytes]
        /\ r.buf = page[p].buf /\ r.st = "sealed" /\ r.refs = k /\ r.len = page[p].len
    BY <1>2, <1>3
  <1> HIDE DEF r
  <1>6. /\ PageContentInv'
        /\ Shown' = [Shown EXCEPT ![p] = Shown'[p]]
        /\ Shown'[p] = [st |-> r.st, refs |-> r.refs, len |-> r.len, data |-> mem'[r.buf]]
    BY <1>2, <1>3, <1>4, <1>5, LiveStep
  <1>7. /\ Shown[p].st = "sealed" /\ Shown[p].refs = page[p].refs
        /\ Shown'[p] = [Shown[p] EXCEPT !.refs = k]
    BY <1>2, <1>3, <1>5, <1>6
  <1>8. Store!StoreNext
    <2>1. CASE ClonePage(p)
      BY <1>6, <1>7, <2>1, StoreShare
    <2>2. CASE ~ClonePage(p)
      BY <1>3, <1>6, <1>7, <2>2, StoreUnshare
    <2> QED  BY <2>1, <2>2
  <1> QED  BY <1>6, <1>8

\* The last handle returns the buffer; the link goes into bytes nobody has.
LEMMA DropPageOK ==
  ASSUME PageContentInv, NEW p \in Pages, DropPage(p)
  PROVE  PageContentInv' /\ Store!StoreNext
  <1> DEFINE b == page[p].buf
  <1>1. /\ page[p].refs = 1 /\ page' = [page EXCEPT ![p] = NoPage] /\ mem' = Linked(b)
        /\ call' = call \ {p}
        /\ owner[b] = "user" /\ owner' = [owner EXCEPT ![b] = "pool"] /\ open' = open
    BY DEF DropPage, Return, Move
  <1>2. page[p] # NoPage
    BY <1>1 DEF NoPage
  <1>3. b \in Bufs /\ mem \in [Bufs -> Bytes]
    BY <1>2 DEF PageContentInv, LiveOK, PageContentTypeOK, Bytes
  <1>4. mem' \in [Bufs -> Bytes] /\ \A c \in Bufs \ {b} : mem'[c] = mem[c]
    BY <1>1, <1>3, PageContentAssumption DEF Linked, Bytes
  <1>5. page'[p] = NoPage /\ \A q \in Pages \ {p} : page'[q] = page[q] /\ page[q].buf # b
    BY <1>1, <1>2 DEF PageContentInv, PageContentTypeOK, NoPage
  <1>6. owner' \in [Bufs -> {"source", "pool", "user"}]
        /\ \A c \in Bufs \ {b} : owner'[c] = owner[c]
    BY <1>1, <1>3 DEF PageContentInv, PageContentTypeOK, LedgerTypeOK
  <1>7. LiveOK'
    BY <1>5, <1>6 DEF PageContentInv, LiveOK, NoPage
  <1>8. PageContentTypeOK'
    <2>1. page' \in [Pages -> [st : {"none", "builder", "sealed"}, refs : 0 .. MaxRefs,
                               buf : Bufs \cup {NULL}, len : 0 .. PageBytes]]
      BY <1>1, PageContentAssumption DEF PageContentInv, PageContentTypeOK, NoPage
    <2>2. \A i, j \in Pages : page'[i].buf = page'[j].buf => i = j \/ page'[i] = NoPage
      <3>1. \A q \in Pages \ {p} : page[q].buf = NULL => page[q] = NoPage
        BY PageContentAssumption DEF PageContentInv, LiveOK
      <3> QED  BY <1>5, <3>1 DEF PageContentInv, PageContentTypeOK, NoPage
    <2>3. call' \subseteq {q \in Pages : page'[q].st = "builder"}
      BY <1>1, <1>5 DEF PageContentInv, PageContentTypeOK
    <2> QED  BY <1>1, <1>4, <1>6, <2>1, <2>2, <2>3
             DEF PageContentInv, PageContentTypeOK, NoPage, LedgerTypeOK, Bytes
  <1>9. ASSUME NEW q \in Pages \ {p} PROVE Shown'[q] = Shown[q]
    BY <1>4, <1>5, <1>9, ShownSame DEF PageContentInv, LiveOK, NoPage
  <1>10. /\ Shown[p].refs = 1
         /\ Shown'[p] = [st |-> "none", refs |-> 0, len |-> 0, data |-> <<>>]
    <2>1. page[p].st # "none"
      BY <1>2 DEF PageContentInv, LiveOK
    <2>2. page'[p].st = "none"
      BY <1>5 DEF NoPage
    <2> QED  BY <1>1, <2>1, <2>2 DEF Shown
  <1>11. Store!StoreNext
    BY <1>9, <1>10, OneShown, StoreDiscard
  <1> QED  BY <1>7, <1>8, <1>11 DEF PageContentInv

\* prewarm, shutdown and its releases write only to buffers of no page.
LEMMA PoolStepOK ==
  ASSUME PageContentInv,
         DropPagePool \/ UNCHANGED pcvars \/ \E b \in Bufs : PrewarmPage(b) \/ ReleasePage(b)
  PROVE  PageContentInv' /\ Shown' = Shown
  <1> USE DEF PageContentInv, PageContentTypeOK, LedgerTypeOK
  <1>1. mem \in [Bufs -> Bytes]
    BY DEF Bytes
  <1>2. CASE DropPagePool
    BY <1>1, <1>2, PoolQuiet DEF DropPagePool, Close
  <1>3. CASE UNCHANGED pcvars
    BY <1>1, <1>3, PoolQuiet DEF pcvars, ledger
  <1>4. ASSUME NEW b \in Bufs, PrewarmPage(b) PROVE PageContentInv' /\ Shown' = Shown
    <2>1. /\ mem' = Linked(b) /\ page' = page /\ call' = call /\ owner[b] = "source"
          /\ owner' = [owner EXCEPT ![b] = "pool"] /\ open' = open
      BY <1>4 DEF PrewarmPage, Reserve, Move
    <2>2. mem' \in [Bufs -> Bytes] /\ \A c \in Bufs \ {b} : mem'[c] = mem[c]
      BY <1>1, <2>1, PageContentAssumption DEF Linked, Bytes
    <2> QED  BY <2>1, <2>2, PoolQuiet
  <1>5. ASSUME NEW b \in Bufs, ReleasePage(b) PROVE PageContentInv' /\ Shown' = Shown
    <2>1. /\ mem' = [mem EXCEPT ![b] = Zeros] /\ page' = page /\ call' = call
          /\ owner[b] = "pool" /\ owner' = [owner EXCEPT ![b] = "source"] /\ open' = open
      BY <1>5 DEF ReleasePage, Release, Move
    <2>2. mem' \in [Bufs -> Bytes] /\ \A c \in Bufs \ {b} : mem'[c] = mem[c]
      BY <1>1, <2>1 DEF Zeros, Bytes
    <2> QED  BY <2>1, <2>2, PoolQuiet
  <1> QED  BY <1>2, <1>3, <1>4, <1>5

\* Every step of every interleaving.
LEMMA PageContentNextOK ==
  ASSUME PageContentInv, [PageContentNext]_pcvars
  PROVE  PageContentInv' /\ [Store!StoreNext]_Shown
  <1>1. ASSUME NEW b \in Bufs, PoolSide(b) PROVE PageContentInv' /\ [Store!StoreNext]_Shown
    BY <1>1, NewBuilderOK, PoolStepOK DEF PoolSide
  <1>2. ASSUME NEW p \in Pages, BuilderSide(p)
        PROVE  PageContentInv' /\ [Store!StoreNext]_Shown
    <2>1. ASSUME NEW k \in Lengths, NEW v \in Values,
                 \/ AppendBytes(p, Run(k, v)) \/ WriteMut(p, Run(k, v))
                 \/ AllocFrom(p, Run(k, v)) \/ AllocWith(p, Run(k, v))
                 \/ \E n \in Lengths : AllocWithLen(p, Run(k, v), n)
          PROVE  PageContentInv' /\ [Store!StoreNext]_Shown
      <3>1. Run(k, v) \in Seq(Values) /\ Len(Run(k, v)) \in Nat
        BY RunIsSeq, PageContentAssumption
      <3>2. \A n \in Lengths : n \in Nat
        BY PageContentAssumption
      <3>3. PageBytes \in Nat
        BY PageContentAssumption
      <3> QED  BY <2>1, <3>1, <3>2, <3>3, AppendBytesOK, WriteMutOK, FillAndSealOK
               DEF AllocFrom, AllocWith, AllocWithLen
    <2>2. ASSUME NEW n \in Lengths, SetLen(p, n) PROVE PageContentInv' /\ [Store!StoreNext]_Shown
      BY <2>2, SetLenOK, PageContentAssumption
    <2> QED  BY <1>2, <2>1, <2>2, SealPageOK, CloneOK, DropPageOK DEF BuilderSide
  <1>3. CASE DropPagePool \/ PageContentFinished \/ UNCHANGED pcvars
    BY <1>3, PoolStepOK DEF PageContentFinished
  <1> QED  BY <1>1, <1>2, <1>3 DEF PageContentNext

\* The invariant behind it holds in every reachable state: in particular no two
\* live pages have one buffer (PageContentTypeOK), whatever is cloned, dropped,
\* unwound and recycled in between.
THEOREM PageContentSound == PageContentSpec => []PageContentTypeOK
  <1>1. PageContentSpec => []PageContentInv
    BY PageContentInitOK, PageContentNextOK, PTL DEF PageContentSpec
  <1>2. PageContentInv => PageContentTypeOK
    BY DEF PageContentInv
  <1> QED  BY <1>1, <1>2, PTL

\* Pages keep their bytes: PageBuilder, Page and the alloc_* calls over a pool
\* that recycles, prewarms and releases buffers implement HandleStore.
THEOREM PagesImplementStore == PageContentSpec => PagesKeepTheirBytes
  BY PageContentInitOK, PageContentNextOK, PTL
  DEF PageContentSpec, PagesKeepTheirBytes, Store!StoreSpec
=============================================================================
