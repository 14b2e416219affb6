------------------------- MODULE ReturnOrderProofs -------------------------
(***************************************************************************)
(* NoRace of ReturnOrder, for any number of threads and buffers.           *)
(*                                                                         *)
(* NoRace alone is not inductive: a drain makes the queue accessible to    *)
(* the owner, so what is on the queue has to be in the message the swap    *)
(* acquires; and pop_local follows a link, so links have to stay on their  *)
(* list.  OrderInv says both.                                              *)
(***************************************************************************)
EXTENDS ReturnOrder, TLAPS

Ptr == Bufs \cup {NULL}
Pushing == {"load", "link", "cas"}

OrderTypeOK ==
  /\ pc \in [Threads -> {"idle", "load", "link", "cas", "arc", "drop", "walk"}]
  /\ reg \in [Threads -> [buf : Ptr, head : Ptr]]
  /\ at \in [Bufs -> Threads \cup {"source", "local", "queue"}]
  /\ owner \in Threads \cup {NULL}
  /\ local_head \in Ptr /\ return_head \in Ptr
  /\ link \in [Bufs -> Ptr]
  /\ seen \in [Bufs -> SUBSET Threads]
  /\ head_msg \subseteq Bufs /\ arc_msg \subseteq Bufs

\* A thread inside push_return has its buffer, linked when it comes to the
\* exchange; the pool is dropped by the thread that has it.
HoldersOK ==
  \A t \in Threads :
    /\ pc[t] \in Pushing => reg[t].buf \in Bufs /\ at[reg[t].buf] = t
    /\ pc[t] = "cas" => link[reg[t].buf] = reg[t].head
    /\ pc[t] = "drop" => owner = t

OnList(p, l) == p = NULL \/ at[p] = l
Follows(b, l, head) == link[b] = NULL \/ (at[link[b]] = l /\ link[b] # head)

\* The heads and the links stay on their list, and no two of them are equal.
ListsOK ==
  /\ OnList(local_head, "local") /\ OnList(return_head, "queue")
  /\ \A b \in Bufs :
       /\ at[b] = "local" => Follows(b, "local", local_head)
       /\ at[b] = "queue" => Follows(b, "queue", return_head)
  /\ \A b, c \in Bufs :
       at[b] \in {"local", "queue"} /\ at[c] \in {"local", "queue"}
         /\ link[b] = link[c] /\ link[b] # NULL => b = c

\* PoolShared::drop runs alone: nobody else holds an Arc, and none comes back.
WalkOK ==
  \A t \in Threads : pc[t] = "walk" =>
    /\ owner = NULL /\ return_head = NULL
    /\ OnList(reg[t].head, "queue")
    /\ \A b \in Bufs : at[b] = "queue" => Follows(b, "queue", reg[t].head)
    /\ \A b \in Bufs : at[b] \notin Threads
    /\ \A u \in Threads \ {t} : pc[u] = "idle"

\* The pool and every page are gone.
AllGone == owner = NULL /\ \A t \in Threads : ~HoldsArc(t)

\* What the owner may touch it knows; what is queued the exchanges released.
KnownOK ==
  /\ \A b \in Bufs : at[b] \in Threads => at[b] \in seen[b]
  /\ \A b \in Bufs : at[b] = "local" /\ owner # NULL => owner \in seen[b]
  /\ \A b \in Bufs : at[b] = "queue" => b \in head_msg \/ AllGone
  /\ \A t \in Threads : pc[t] = "walk" => \A b \in Bufs : at[b] = "queue" => t \in seen[b]

OrderInv == OrderTypeOK /\ HoldersOK /\ ListsOK /\ WalkOK /\ KnownOK

-----------------------------------------------------------------------------
(* One lemma per action.                                                   *)

\* A fresh buffer is ordered for the thread that gets it.
LEMMA AllocateFreshInv ==
  ASSUME OrderInv, NEW t \in Threads, NEW b \in Bufs, AllocateFresh(t, b)
  PROVE  OrderInv'
  <1> USE OrderAssumption DEF OrderInv, OrderTypeOK, Ptr, AllocateFresh, Access, Idle
  <1>1. OrderTypeOK'
    OBVIOUS
  <1>2. HoldersOK'
    BY DEF HoldersOK, Pushing
  <1>3. ListsOK'
    BY DEF HoldersOK, Pushing, ListsOK, WalkOK, OnList, Follows
  <1>4. WalkOK'
    BY DEF HoldersOK, Pushing, ListsOK, WalkOK, OnList, Follows
  <1>5. KnownOK'
    BY DEF HoldersOK, Pushing, ListsOK, WalkOK, OnList, Follows, KnownOK, AllGone, HoldsArc
  <1> QED  BY <1>1, <1>2, <1>3, <1>4, <1>5

\* A prewarmed buffer becomes the head of the owner's list.
LEMMA PrewarmPageInv ==
  ASSUME OrderInv, NEW t \in Threads, NEW b \in Bufs, PrewarmPage(t, b)
  PROVE  OrderInv'
  <1> USE OrderAssumption DEF OrderInv, OrderTypeOK, Ptr, PrewarmPage, Access, Idle
  <1>1. OrderTypeOK'
    OBVIOUS
  <1>2. HoldersOK'
    BY DEF HoldersOK, Pushing
  <1>3. ListsOK'
    BY DEF HoldersOK, Pushing, ListsOK, WalkOK, OnList, Follows
  <1>4. WalkOK'
    BY DEF HoldersOK, Pushing, ListsOK, WalkOK, OnList, Follows
  <1>5. KnownOK'
    BY DEF HoldersOK, Pushing, ListsOK, WalkOK, OnList, Follows, KnownOK, AllGone, HoldsArc
  <1> QED  BY <1>1, <1>2, <1>3, <1>4, <1>5

\* The holder touches its page and starts the push.
LEMMA PushInv ==
  ASSUME OrderInv, NEW t \in Threads, NEW b \in Bufs, Push(t, b)
  PROVE  OrderInv'
  <1> USE OrderAssumption DEF OrderInv, OrderTypeOK, Ptr, Push, Access, Idle
  <1>1. OrderTypeOK'
    OBVIOUS
  <1>2. HoldersOK'
    BY DEF HoldersOK, Pushing
  <1>3. ListsOK'
    BY DEF HoldersOK, Pushing, ListsOK, WalkOK, OnList, Follows
  <1>4. WalkOK'
    BY DEF HoldersOK, Pushing, ListsOK, WalkOK, OnList, Follows
  <1>5. KnownOK'
    BY DEF HoldersOK, Pushing, ListsOK, WalkOK, OnList, Follows, KnownOK, AllGone, HoldsArc
  <1> QED  BY <1>1, <1>2, <1>3, <1>4, <1>5

\* The swap acquires what the queue's exchanges released: the owner comes to
\* know every buffer that becomes local.
LEMMA DrainInv ==
  ASSUME OrderInv, NEW t \in Threads, Drain(t)
  PROVE  OrderInv'
  <1> USE OrderAssumption DEF OrderInv, OrderTypeOK, Ptr, Drain, Learn, Acquired, Idle
  <1>1. OrderTypeOK'
    OBVIOUS
  <1>2. HoldersOK'
    BY DEF HoldersOK, Pushing
  <1>3. ListsOK'
    BY DEF HoldersOK, Pushing, ListsOK, WalkOK, OnList, Follows
  <1>4. WalkOK'
    BY DEF HoldersOK, Pushing, ListsOK, WalkOK, OnList, Follows
  <1>5. KnownOK'
    BY DEF HoldersOK, Pushing, ListsOK, WalkOK, OnList, Follows, KnownOK, AllGone, HoldsArc
  <1> QED  BY <1>1, <1>2, <1>3, <1>4, <1>5

\* The head leaves the local list, its link stays on it.
LEMMA PopLocalInv ==
  ASSUME OrderInv, NEW t \in Threads, PopLocal(t)
  PROVE  OrderInv'
  <1> USE OrderAssumption DEF OrderInv, OrderTypeOK, Ptr, PopLocal, Access, Idle
  <1>1. OrderTypeOK'
    OBVIOUS
  <1>2. HoldersOK'
    BY DEF HoldersOK, Pushing, ListsOK, OnList
  <1>3. ListsOK'
    BY DEF HoldersOK, Pushing, ListsOK, WalkOK, OnList, Follows
  <1>4. WalkOK'
    BY DEF HoldersOK, Pushing, ListsOK, WalkOK, OnList, Follows
  <1>5. KnownOK'
    BY DEF HoldersOK, Pushing, ListsOK, WalkOK, OnList, Follows, KnownOK, AllGone, HoldsArc
  <1> QED  BY <1>1, <1>2, <1>3, <1>4, <1>5

\* The Relaxed load teaches the pusher nothing.
LEMMA LoadHeadInv ==
  ASSUME OrderInv, NEW t \in Threads, LoadHead(t)
  PROVE  OrderInv'
  <1> USE OrderAssumption DEF OrderInv, OrderTypeOK, Ptr, LoadHead
  <1>1. OrderTypeOK'
    OBVIOUS
  <1>2. HoldersOK'
    BY DEF HoldersOK, Pushing
  <1>3. ListsOK'
    BY DEF HoldersOK, Pushing, ListsOK, WalkOK, OnList, Follows
  <1>4. WalkOK'
    BY DEF HoldersOK, Pushing, ListsOK, WalkOK, OnList, Follows
  <1>5. KnownOK'
    BY DEF HoldersOK, Pushing, ListsOK, WalkOK, OnList, Follows, KnownOK, AllGone, HoldsArc
  <1> QED  BY <1>1, <1>2, <1>3, <1>4, <1>5

\* The link is written into a buffer that is still the pusher's.
LEMMA WriteLinkInv ==
  ASSUME OrderInv, NEW t \in Threads, WriteLink(t)
  PROVE  OrderInv'
  <1> USE OrderAssumption DEF OrderInv, OrderTypeOK, Ptr, WriteLink, Access
  <1>1. OrderTypeOK'
    OBVIOUS
  <1>2. HoldersOK'
    BY DEF HoldersOK, Pushing
  <1>3. ListsOK'
    BY DEF HoldersOK, Pushing, ListsOK, WalkOK, OnList, Follows
  <1>4. WalkOK'
    BY DEF HoldersOK, Pushing, ListsOK, WalkOK, OnList, Follows
  <1>5. KnownOK'
    BY DEF HoldersOK, Pushing, ListsOK, WalkOK, OnList, Follows, KnownOK, AllGone, HoldsArc
  <1> QED  BY <1>1, <1>2, <1>3, <1>4, <1>5

\* The exchange: if it succeeds, the head is the value that was linked to, and
\* what the pusher knows, its buffer included, is released.
LEMMA CasInv ==
  ASSUME OrderInv, NEW t \in Threads, Cas(t)
  PROVE  OrderInv'
  <1> USE OrderAssumption DEF OrderInv, OrderTypeOK, Ptr
  <1> DEFINE b == reg[t].buf
  <1>0. pc[t] = "cas" /\ b \in Bufs /\ at[b] = t /\ link[b] = reg[t].head /\ t \in seen[b]
    BY DEF Cas, HoldersOK, Pushing, KnownOK, AllGone, HoldsArc
  <1>1. CASE return_head' # return_head \/ at' # at \/ pc'[t] = "arc"
    <2>1. /\ return_head = reg[t].head /\ return_head' = b
          /\ head_msg' = head_msg \cup {c \in Bufs : t \in seen[c]}
          /\ at' = [at EXCEPT ![b] = "queue"]
          /\ pc' = [pc EXCEPT ![t] = "arc"]
          /\ reg' = [reg EXCEPT ![t] = [buf |-> NULL, head |-> NULL]]
      BY <1>1 DEF Cas, Released, Knows
    <2>2. UNCHANGED <<owner, local_head, link, seen, arc_msg>>
      BY DEF Cas
    <2> HIDE DEF b
    <2>3. OrderTypeOK'
      <3>1. reg' \in [Threads -> [buf : Ptr, head : Ptr]]
        BY <2>1
      <3> QED  BY <1>0, <2>1, <2>2, <3>1
    <2>4. HoldersOK'
      BY <1>0, <2>1, <2>2 DEF HoldersOK, Pushing
    <2>5. ListsOK'
      BY <1>0, <2>1, <2>2 DEF ListsOK, OnList, Follows
    <2>6. WalkOK'
      BY <1>0, <2>1, <2>2 DEF WalkOK
    <2>7. KnownOK'
      BY <1>0, <2>1, <2>2 DEF KnownOK, AllGone, HoldsArc, WalkOK
    <2> QED  BY <2>3, <2>4, <2>5, <2>6, <2>7
  <1>2. CASE pc' = [pc EXCEPT ![t] = "load"] /\ UNCHANGED <<reg, return_head, at, head_msg>>
    <2>1. UNCHANGED <<owner, local_head, link, seen, arc_msg>>
      BY DEF Cas
    <2>2. OrderTypeOK' /\ HoldersOK'
      BY <1>0, <1>2, <2>1 DEF HoldersOK, Pushing
    <2>3. ListsOK' /\ WalkOK' /\ KnownOK'
      BY <1>0, <1>2, <2>1 DEF ListsOK, OnList, Follows, WalkOK, KnownOK, AllGone, HoldsArc
    <2> QED  BY <2>2, <2>3
  <1> QED  BY <1>0, <1>1, <1>2 DEF Cas

\* The last Arc acquires what all the others released.
LEMMA DropArcInv ==
  ASSUME OrderInv, NEW t \in Threads, DropArc(t)
  PROVE  OrderInv'
  <1> USE OrderAssumption DEF OrderInv, OrderTypeOK, Ptr, DropArc, Learn, Knows, LastArc, HoldsArc
  <1>1. OrderTypeOK'
    <2>1. CASE LastArc(t)
      <3>1. seen' \in [Bufs -> SUBSET Threads]
        BY <2>1
      <3>2. reg' \in [Threads -> [buf : Ptr, head : Ptr]]
        BY <2>1
      <3> QED  BY <2>1, <3>1, <3>2
    <2>2. CASE ~LastArc(t)
      BY <2>2
    <2> QED  BY <2>1, <2>2
  <1>2. HoldersOK'
    BY DEF HoldersOK, Pushing
  <1>3. ListsOK'
    BY DEF HoldersOK, Pushing, ListsOK, WalkOK, OnList, Follows
  <1>4. WalkOK'
    BY DEF HoldersOK, Pushing, ListsOK, WalkOK, OnList, Follows
  <1>5. KnownOK'
    BY DEF HoldersOK, Pushing, ListsOK, WalkOK, OnList, Follows, KnownOK, AllGone, HoldsArc
  <1> QED  BY <1>1, <1>2, <1>3, <1>4, <1>5

\* PagePool::drop walks the local list, which its thread knows.
LEMMA ReleaseLocalInv ==
  ASSUME OrderInv, NEW t \in Threads, ReleaseLocal(t)
  PROVE  OrderInv'
  <1> USE OrderAssumption DEF OrderInv, OrderTypeOK, Ptr, ReleaseLocal, Access
  <1>1. OrderTypeOK'
    OBVIOUS
  <1>2. HoldersOK'
    BY DEF HoldersOK, Pushing, ListsOK, OnList
  <1>3. ListsOK'
    BY DEF HoldersOK, Pushing, ListsOK, WalkOK, OnList, Follows
  <1>4. WalkOK'
    BY DEF HoldersOK, Pushing, ListsOK, WalkOK, OnList, Follows
  <1>5. KnownOK'
    <2>1. owner = t /\ pc[t] = "drop" /\ \A u \in Threads : pc[u] # "walk"
      BY DEF HoldersOK, WalkOK
    <2>2. CASE local_head = NULL
      BY <2>1, <2>2 DEF KnownOK, AllGone
    <2>3. CASE local_head # NULL
      BY <2>1, <2>3 DEF KnownOK, AllGone, ListsOK, OnList
    <2> QED  BY <2>2, <2>3
  <1> QED  BY <1>1, <1>2, <1>3, <1>4, <1>5

\* The drop of the pool starts.
LEMMA DropPoolInv ==
  ASSUME OrderInv, NEW t \in Threads, DropPool(t)
  PROVE  OrderInv'
  <1> USE OrderAssumption DEF OrderInv, OrderTypeOK, Ptr, DropPool, Idle
  <1>1. OrderTypeOK'
    OBVIOUS
  <1>2. HoldersOK'
    BY DEF HoldersOK, Pushing
  <1>3. ListsOK'
    BY DEF HoldersOK, Pushing, ListsOK, WalkOK, OnList, Follows
  <1>4. WalkOK'
    BY DEF HoldersOK, Pushing, ListsOK, WalkOK, OnList, Follows
  <1>5. KnownOK'
    BY DEF HoldersOK, Pushing, ListsOK, WalkOK, OnList, Follows, KnownOK, AllGone, HoldsArc
  <1> QED  BY <1>1, <1>2, <1>3, <1>4, <1>5

\* PoolShared::drop walks the queue, which its thread has acquired.
LEMMA ReleaseReturnedInv ==
  ASSUME OrderInv, NEW t \in Threads, ReleaseReturned(t)
  PROVE  OrderInv'
  <1> USE OrderAssumption DEF OrderInv, OrderTypeOK, Ptr
  <1> DEFINE h == reg[t].head
  <1>0. /\ pc[t] = "walk" /\ owner = NULL /\ return_head = NULL
        /\ UNCHANGED <<owner, local_head, return_head, link>>
        /\ h = NULL \/ (h \in Bufs /\ at[h] = "queue" /\ Follows(h, "queue", h))
        /\ \A u \in Threads \ {t} : pc[u] = "idle"
    BY DEF ReleaseReturned, WalkOK, OnList
  <1>1. CASE h = NULL
    <2>1. pc' = [pc EXCEPT ![t] = "idle"] /\ UNCHANGED <<reg, at, seen, head_msg, arc_msg>>
      BY <1>1 DEF ReleaseReturned
    <2>2. OrderTypeOK' /\ HoldersOK' /\ WalkOK'
      BY <1>0, <1>1, <2>1 DEF HoldersOK, Pushing, WalkOK
    <2>3. ListsOK'
      BY <1>0, <1>1, <2>1 DEF ListsOK, OnList, Follows
    <2>4. KnownOK'
      BY <1>0, <1>1, <2>1 DEF KnownOK, AllGone, HoldsArc, WalkOK
    <2> QED  BY <2>2, <2>3, <2>4
  <1>2. CASE h # NULL
    <2>1. /\ reg' = [reg EXCEPT ![t].head = link[h]]
          /\ at' = [at EXCEPT ![h] = "source"]
          /\ seen' = [seen EXCEPT ![h] = {t}]
          /\ head_msg' = head_msg \ {h} /\ arc_msg' = arc_msg \ {h}
          /\ pc' = pc
      BY <1>2 DEF ReleaseReturned, Access
    <2> HIDE DEF h
    <2>2. OrderTypeOK'
      BY <1>0, <1>2, <2>1
    <2>3. HoldersOK'
      BY <1>0, <1>2, <2>1 DEF HoldersOK, Pushing
    <2>4. ListsOK' /\ WalkOK'
      BY <1>0, <1>2, <2>1 DEF ListsOK, OnList, Follows, WalkOK, h
    <2>5. KnownOK'
      BY <1>0, <1>2, <2>1 DEF KnownOK, AllGone, HoldsArc
    <2> QED  BY <2>2, <2>3, <2>4, <2>5
  <1> QED  BY <1>1, <1>2

\* The next owner learns what the last one knew.
LEMMA SendPoolInv ==
  ASSUME OrderInv, NEW t \in Threads, NEW u \in Threads, SendPool(t, u)
  PROVE  OrderInv'
  <1> USE OrderAssumption DEF OrderInv, OrderTypeOK, Ptr, SendPool, Learn, Knows, Idle
  <1>1. OrderTypeOK'
    OBVIOUS
  <1>2. HoldersOK'
    BY DEF HoldersOK, Pushing
  <1>3. ListsOK'
    BY DEF HoldersOK, Pushing, ListsOK, WalkOK, OnList, Follows
  <1>4. WalkOK'
    BY DEF HoldersOK, Pushing, ListsOK, WalkOK, OnList, Follows
  <1>5. KnownOK'
    BY DEF HoldersOK, Pushing, ListsOK, WalkOK, OnList, Follows, KnownOK, AllGone, HoldsArc
  <1> QED  BY <1>1, <1>2, <1>3, <1>4, <1>5

\* The next holder learns what the last one knew.
LEMMA SendPageInv ==
  ASSUME OrderInv, NEW t \in Threads, NEW u \in Threads, NEW b \in Bufs, SendPage(t, u, b)
  PROVE  OrderInv'
  <1> USE OrderAssumption DEF OrderInv, OrderTypeOK, Ptr, SendPage, Learn, Knows, Idle
  <1>1. OrderTypeOK'
    OBVIOUS
  <1>2. HoldersOK'
    BY DEF HoldersOK, Pushing
  <1>3. ListsOK'
    BY DEF HoldersOK, Pushing, ListsOK, WalkOK, OnList, Follows
  <1>4. WalkOK'
    BY DEF HoldersOK, Pushing, ListsOK, WalkOK, OnList, Follows
  <1>5. KnownOK'
    BY DEF HoldersOK, Pushing, ListsOK, WalkOK, OnList, Follows, KnownOK, AllGone, HoldsArc
  <1> QED  BY <1>1, <1>2, <1>3, <1>4, <1>5

-----------------------------------------------------------------------------
\* Initially every buffer is with the source and nothing is known.
LEMMA OrderInitInv == OrderInit => OrderInv
  <1> SUFFICES ASSUME OrderInit PROVE OrderInv
    OBVIOUS
  <1> USE OrderAssumption DEF OrderInit
  <1>1. OrderTypeOK
    BY DEF OrderTypeOK, Ptr
  <1>2. HoldersOK /\ WalkOK
    BY DEF HoldersOK, Pushing, WalkOK
  <1>3. ListsOK /\ KnownOK
    BY DEF ListsOK, OnList, KnownOK
  <1> QED  BY <1>1, <1>2, <1>3 DEF OrderInv

\* Every step keeps the invariant.
LEMMA OrderNextInv == OrderInv /\ [OrderNext]_ovars => OrderInv'
  <1>1. ASSUME OrderInv, OrderNext PROVE OrderInv'
    <2>1. CASE OrderFinished
      BY <1>1, <2>1 DEF OrderFinished, ovars, OrderInv, OrderTypeOK, HoldersOK, ListsOK,
         OnList, Follows, WalkOK, KnownOK, AllGone, HoldsArc
    <2> QED
      BY <1>1, <2>1, AllocateFreshInv, PrewarmPageInv, PushInv, DrainInv, PopLocalInv,
         LoadHeadInv, WriteLinkInv, CasInv, DropArcInv, ReleaseLocalInv, DropPoolInv,
         ReleaseReturnedInv, SendPoolInv, SendPageInv DEF OrderNext
  <1>2. ASSUME OrderInv, UNCHANGED ovars PROVE OrderInv'
    BY <1>2 DEF ovars, OrderInv, OrderTypeOK, HoldersOK, ListsOK, OnList, Follows, WalkOK,
       KnownOK, AllGone, HoldsArc
  <1> QED  BY <1>1, <1>2

\* In every interleaving of allocations, drops on any thread, hand-overs and
\* shutdown, each plain access to a buffer is ordered after the one before it:
\* the orderings of return_head (load Relaxed, exchange Release, swap Acquire)
\* are enough, for any number of threads and buffers.
THEOREM RaceFree == OrderSpec => []NoRace
  <1>1. OrderInv => NoRace
    BY OrderAssumption DEF OrderInv, OrderTypeOK, KnownOK, NoRace, Accessible
  <1> QED  BY <1>1, OrderInitInv, OrderNextInv, PTL DEF OrderSpec
=============================================================================
