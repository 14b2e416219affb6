---------------------------- MODULE PageContent ----------------------------
(***************************************************************************)
(* The bytes behind PageBuilder and Page (src/src/page.rs), and the        *)
(* alloc_* calls of PagePool (src/src/pool.rs).  Buffers come from and go  *)
(* to PageLedger, which PagePool implements; a recycled buffer holds what  *)
(* its last user wrote, behind the list link.                              *)
(***************************************************************************)
EXTENDS PageLedger, Naturals, Sequences

CONSTANTS
  Pages,      \* slots for live PageBuilder or PageInner values
  PageBytes,  \* page_size, capacity() of every page
  NULL,
  Values, ZERO, LINK,   \* bytes: of user code, fresh, and part of a next pointer
  Lengths,    \* bound: lengths user code writes or sets
  MaxRefs     \* bound: clones of one page

ASSUME PageContentAssumption ==
  /\ PageBytes \in Nat \ {0} /\ Lengths \subseteq Nat /\ MaxRefs \in Nat \ {0}
  /\ ZERO # LINK /\ Values \cap {ZERO, LINK} = {} /\ NULL \notin Bufs

VARIABLES
  mem,   \* [Bufs -> bytes]
  page,  \* [Pages -> state, references, buffer, logical length]
  call   \* pages whose builder is still inside alloc_from, _with or _with_len

pcvars == <<mem, page, call, ledger>>

NoPage == [st |-> "none", refs |-> 0, buf |-> NULL, len |-> 0]

\* No page is longer than its capacity, and no two pages have one buffer.
PageContentTypeOK ==
  /\ mem \in [Bufs -> [1 .. PageBytes -> Values \cup {ZERO, LINK}]]
  /\ page \in [Pages -> [st : {"none", "builder", "sealed"}, refs : 0 .. MaxRefs,
                         buf : Bufs \cup {NULL}, len : 0 .. PageBytes]]
  /\ \A p, q \in Pages : page[p].buf = page[q].buf => p = q \/ page[p] = NoPage
  /\ call \subseteq {p \in Pages : page[p].st = "builder"}
  /\ LedgerTypeOK

Zeros == [i \in 1 .. PageBytes |-> ZERO]

PageContentInit ==
  /\ LedgerInit
  /\ mem = [b \in Bufs |-> Zeros]
  /\ page = [p \in Pages |-> NoPage]
  /\ call = {}

-----------------------------------------------------------------------------
(* PagePool.  An alloc_* call holds &mut self until it returns.            *)

Linked(b) == [mem EXCEPT ![b][1] = LINK]

\* allocate, by user code or inside an alloc_* call.
NewBuilder(p, b, inside) ==
  /\ call = {} /\ page[p].st = "none"
  /\ Grant(b) \/ Obtain(b)
  /\ page' = [page EXCEPT ![p] = [st |-> "builder", refs |-> 1, buf |-> b, len |-> 0]]
  /\ call' = inside
  /\ UNCHANGED mem

PrewarmPage(b) == call = {} /\ Reserve(b) /\ mem' = Linked(b) /\ UNCHANGED <<page, call>>

ReleasePage(b) ==
  Release(b) /\ mem' = [mem EXCEPT ![b] = Zeros] /\ UNCHANGED <<page, call>>

DropPagePool == call = {} /\ Close /\ UNCHANGED <<mem, page, call>>

-----------------------------------------------------------------------------
(* PageBuilder.                                                            *)

\* as_mut_slice: the whole buffer; as_slice: its first len bytes.
AsMutSlice(p) == mem[page[p].buf]
AsSlice(p)    == SubSeq(mem[page[p].buf], 1, page[p].len)

\* Memory after s is written at position at of the page.
Put(p, at, s) ==
  [mem EXCEPT ![page[p].buf] =
     [i \in 1 .. PageBytes |-> IF i - at \in 1 .. Len(s) THEN s[i - at] ELSE @[i]]]

InHand(p) == page[p].st = "builder" /\ p \notin call

Remaining(p) == PageBytes - page[p].len

\* Mutant: the check leaves out what is already there.
AppendIgnoresLen(p, s) ==
  /\ InHand(p)
  /\ IF Len(s) > PageBytes
     THEN UNCHANGED <<mem, page>>
     ELSE mem' = Put(p, page[p].len, s) /\ page' = [page EXCEPT ![p].len = @ + Len(s)]
  /\ UNCHANGED <<call, ledger>>

\* append: all of s, or Err(PageFull) and nothing.
AppendBytes(p, s) ==
  /\ InHand(p)
  /\ IF Len(s) > Remaining(p)
     THEN UNCHANGED <<mem, page>>
     ELSE mem' = Put(p, page[p].len, s) /\ page' = [page EXCEPT ![p].len = @ + Len(s)]
  /\ UNCHANGED <<call, ledger>>

WriteMut(p, s) ==
  /\ InHand(p)
  /\ Len(s) <= Len(AsMutSlice(p))
  /\ mem' = Put(p, 0, s)
  /\ UNCHANGED <<page, call, ledger>>

\* set_len: panics above the capacity, before anything is changed.
SetLen(p, n) ==
  /\ InHand(p) /\ n <= PageBytes
  /\ page' = [page EXCEPT ![p].len = n]
  /\ UNCHANGED <<mem, call, ledger>>

SealPage(p) ==
  /\ InHand(p)
  /\ page' = [page EXCEPT ![p].st = "sealed"]
  /\ UNCHANGED <<mem, call, ledger>>

-----------------------------------------------------------------------------
(* The ends of alloc_from, alloc_with and alloc_with_len: write, set_len,  *)
(* seal.  alloc_from refuses data longer than a page before it allocates.  *)

FillAndSeal(p, s, n) ==
  /\ p \in call /\ Len(s) <= PageBytes /\ n <= PageBytes
  /\ mem' = Put(p, 0, s)
  /\ page' = [page EXCEPT ![p] = [st |-> "sealed", refs |-> @.refs, buf |-> @.buf, len |-> n]]
  /\ call' = call \ {p}
  /\ UNCHANGED ledger

AllocFrom(p, data)    == FillAndSeal(p, data, Len(data))
AllocWith(p, s)       == FillAndSeal(p, s, PageBytes)
AllocWithLen(p, s, n) == FillAndSeal(p, s, n)

-----------------------------------------------------------------------------
(* Page.                                                                   *)

ClonePage(p) ==
  /\ page[p].st = "sealed" /\ page[p].refs < MaxRefs
  /\ page' = [page EXCEPT ![p].refs = @ + 1]
  /\ UNCHANGED <<mem, call, ledger>>

DropClone(p) ==
  /\ page[p].refs > 1
  /\ page' = [page EXCEPT ![p].refs = @ - 1]
  /\ UNCHANGED <<mem, call, ledger>>

\* Mutant: every clone that is dropped returns the buffer.
DropEveryClone(p) ==
  /\ page[p].refs > 0
  /\ Return(page[p].buf)
  /\ mem' = Linked(page[p].buf)
  /\ page' = [page EXCEPT ![p] = IF @.refs > 1 THEN [@ EXCEPT !.refs = @ - 1] ELSE NoPage]
  /\ call' = call \ {p}

\* PageInner::drop, or PageBuilder::drop of an unsealed builder: by user code,
\* or by a panic of init or set_len that unwinds an alloc_* call.
DropPage(p) ==
  /\ page[p].refs = 1
  /\ Return(page[p].buf)
  /\ mem' = Linked(page[p].buf)
  /\ page' = [page EXCEPT ![p] = NoPage]
  /\ call' = call \ {p}

-----------------------------------------------------------------------------
Run(k, v) == [i \in 1 .. k |-> v]

PoolSide(b) ==
  \/ \E p \in Pages : NewBuilder(p, b, {}) \/ NewBuilder(p, b, {p})
  \/ PrewarmPage(b) \/ ReleasePage(b)

BuilderSide(p) ==
  \/ \E k \in Lengths, v \in Values :
       \/ AppendBytes(p, Run(k, v)) \/ WriteMut(p, Run(k, v))
       \/ AllocFrom(p, Run(k, v)) \/ AllocWith(p, Run(k, v))
       \/ \E n \in Lengths : AllocWithLen(p, Run(k, v), n)
  \/ \E n \in Lengths : SetLen(p, n)
  \/ SealPage(p) \/ ClonePage(p) \/ DropClone(p) \/ DropPage(p)

PageContentFinished ==
  /\ ~open /\ \A b \in Bufs : owner[b] = "source"
  /\ UNCHANGED pcvars

PageContentNext ==
  \/ \E b \in Bufs : PoolSide(b)
  \/ \E p \in Pages : BuilderSide(p)
  \/ DropPagePool \/ PageContentFinished

PageContentSpec == PageContentInit /\ [][PageContentNext]_pcvars

-----------------------------------------------------------------------------
\* A page as HandleStore has it.
Shown ==
  [p \in Pages |->
     IF page[p].st = "none"
     THEN [st |-> "none", refs |-> 0, len |-> 0, data |-> <<>>]
     ELSE [st |-> page[p].st, refs |-> page[p].refs, len |-> page[p].len,
           data |-> AsMutSlice(p)]]

Store == INSTANCE HandleStore WITH
  Handles <- Pages, Cells <- Values \cup {ZERO, LINK}, handle <- Shown

\* Each page has its bytes to itself: a buffer that is returned, linked,
\* recycled, prewarmed or released changes no live page, a failed append or
\* an unwound alloc_* call changes nothing another page can see, and nothing
\* changes a sealed page.
PagesKeepTheirBytes == Store!StoreSpec
=============================================================================
