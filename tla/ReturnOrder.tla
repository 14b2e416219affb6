---------------------------- MODULE ReturnOrder ----------------------------
(***************************************************************************)
(* The memory ordering of the return queue (src/src/pool.rs).  The links   *)
(* and the user data in a buffer are plain memory; only return_head is     *)
(* atomic: loaded Relaxed, exchanged Release, swapped Acquire.  In         *)
(* PagePool the atomics are sequentially consistent; here an access to a   *)
(* buffer counts as ordered only if happens-before says so.                *)
(*                                                                         *)
(* seen[b] is the set of threads for which the latest access to buffer b   *)
(* has happened before.  A message (the value of return_head, or the count *)
(* of Arc<PoolShared>) carries the set of buffers whose latest access      *)
(* happened before it was released.                                        *)
(***************************************************************************)
CONSTANTS Threads, Bufs, NULL

ASSUME OrderAssumption ==
  /\ NULL \notin Bufs \cup Threads
  /\ Threads \cap {"source", "local", "queue"} = {}

VARIABLES
  pc, reg,      \* [Threads -> place in the code; push_return's raw and head]
  at,           \* [Bufs -> the thread whose page or call has it, or a list]
  owner,        \* the thread that has the PagePool; NULL once it is dropped
  local_head, return_head, link,
  seen,         \* [Bufs -> threads ordered after the latest access]
  head_msg,     \* buffers released with the current value of return_head
  arc_msg       \* buffers released with the count of Arc<PoolShared>

ovars == <<pc, reg, at, owner, local_head, return_head, link, seen, head_msg, arc_msg>>

OrderInit ==
  /\ pc = [t \in Threads |-> "idle"]
  /\ reg = [t \in Threads |-> [buf |-> NULL, head |-> NULL]]
  /\ at = [b \in Bufs |-> "source"]
  /\ owner \in Threads
  /\ local_head = NULL /\ return_head = NULL /\ link = [b \in Bufs |-> NULL]
  /\ seen = [b \in Bufs |-> {}]
  /\ head_msg = {} /\ arc_msg = {}

-----------------------------------------------------------------------------
(* Happens-before.                                                         *)

Knows(t) == {b \in Bufs : t \in seen[b]}

\* t reads or writes b: now only t is ordered after the latest access.
Access(t, b) ==
  /\ seen' = [seen EXCEPT ![b] = {t}]
  /\ head_msg' = head_msg \ {b}
  /\ arc_msg' = arc_msg \ {b}

\* t acquires a message that carries M.
Learn(t, M) == seen' = [b \in Bufs |-> IF b \in M THEN seen[b] \cup {t} ELSE seen[b]]

\* Mutant of the compare-exchange: it is Relaxed, and releases nothing.
ReleasedRelaxed(t) == head_msg
\* The exchange is a Release, and being a read-modify-write it carries on what
\* the value it replaces had released: the pusher itself never acquires.
Released(t) == head_msg \cup Knows(t)

\* Mutant of the swap: it is Relaxed, and acquires nothing.
AcquiredRelaxed == {}
\* drain_return_queue swaps with Acquire.
Acquired == head_msg

-----------------------------------------------------------------------------
(* The owner.                                                              *)

Idle(t) == pc[t] = "idle"

\* allocate_fresh: the source's memory is ordered for who gets it.
AllocateFresh(t, b) ==
  /\ owner = t /\ Idle(t) /\ local_head = NULL /\ return_head = NULL
  /\ at[b] = "source"
  /\ at' = [at EXCEPT ![b] = t]
  /\ Access(t, b)
  /\ UNCHANGED <<pc, reg, owner, local_head, return_head, link>>

\* drain_return_queue: one swap moves the whole queue.
Drain(t) ==
  /\ owner = t /\ Idle(t) /\ local_head = NULL /\ return_head # NULL
  /\ local_head' = return_head /\ return_head' = NULL
  /\ at' = [b \in Bufs |-> IF at[b] = "queue" THEN "local" ELSE at[b]]
  /\ Learn(t, Acquired)
  /\ UNCHANGED <<pc, reg, owner, link, head_msg, arc_msg>>

\* pop_local reads the link of the head, a plain read.
PopLocal(t) ==
  /\ owner = t /\ Idle(t) /\ local_head # NULL
  /\ local_head' = link[local_head]
  /\ at' = [at EXCEPT ![local_head] = t]
  /\ Access(t, local_head)
  /\ UNCHANGED <<pc, reg, owner, return_head, link>>

\* prewarm links a fresh buffer into the local list.
PrewarmPage(t, b) ==
  /\ owner = t /\ Idle(t) /\ at[b] = "source"
  /\ link' = [link EXCEPT ![b] = local_head]
  /\ local_head' = b
  /\ at' = [at EXCEPT ![b] = "local"]
  /\ Access(t, b)
  /\ UNCHANGED <<pc, reg, owner, return_head>>

-----------------------------------------------------------------------------
(* push_return, on any thread.                                             *)

\* The holder reads or writes the page and drops it: load(Relaxed) ...
Push(t, b) ==
  /\ Idle(t) /\ at[b] = t
  /\ pc' = [pc EXCEPT ![t] = "load"]
  /\ reg' = [reg EXCEPT ![t].buf = b]
  /\ Access(t, b)
  /\ UNCHANGED <<at, owner, local_head, return_head, link>>

LoadHead(t) ==
  /\ pc[t] = "load"
  /\ pc' = [pc EXCEPT ![t] = "link"]
  /\ reg' = [reg EXCEPT ![t].head = return_head]
  /\ UNCHANGED <<at, owner, local_head, return_head, link, seen, head_msg, arc_msg>>

\* ... write the link, a plain write ...
WriteLink(t) ==
  /\ pc[t] = "link"
  /\ pc' = [pc EXCEPT ![t] = "cas"]
  /\ link' = [link EXCEPT ![reg[t].buf] = reg[t].head]
  /\ Access(t, reg[t].buf)
  /\ UNCHANGED <<reg, at, owner, local_head, return_head>>

\* ... compare_exchange_weak(Release, Relaxed).
Cas(t) ==
  /\ pc[t] = "cas"
  /\ \/ /\ return_head = reg[t].head
        /\ return_head' = reg[t].buf
        /\ head_msg' = Released(t)
        /\ at' = [at EXCEPT ![reg[t].buf] = "queue"]
        /\ pc' = [pc EXCEPT ![t] = "arc"]
        /\ reg' = [reg EXCEPT ![t] = [buf |-> NULL, head |-> NULL]]
     \/ /\ pc' = [pc EXCEPT ![t] = "load"]
        /\ UNCHANGED <<reg, return_head, at, head_msg>>
  /\ UNCHANGED <<owner, local_head, link, seen, arc_msg>>

-----------------------------------------------------------------------------
(* Arc<PoolShared>: every handle that goes is a Release decrement; the     *)
(* last one has an Acquire fence before PoolShared::drop.                  *)

HoldsArc(t) == pc[t] \in {"load", "link", "cas", "arc"} \/ \E b \in Bufs : at[b] = t

LastArc(t) == /\ owner = NULL /\ \A u \in Threads \ {t} : ~HoldsArc(u)
              /\ \A b \in Bufs : at[b] # t

\* The page's handle goes after push_return; the last one swaps the queue out
\* with Acquire and walks it.
DropArc(t) ==
  /\ pc[t] = "arc"
  /\ arc_msg' = arc_msg \cup Knows(t)
  /\ IF LastArc(t)
     THEN /\ pc' = [pc EXCEPT ![t] = "walk"]
          /\ reg' = [reg EXCEPT ![t].head = return_head]
          /\ return_head' = NULL
          /\ Learn(t, arc_msg \cup head_msg)
     ELSE pc' = [pc EXCEPT ![t] = "idle"] /\ UNCHANGED <<reg, return_head, seen>>
  /\ UNCHANGED <<at, owner, local_head, link, head_msg>>

\* PagePool::drop: the walk releases the local list, then the pool's Arc goes.
DropPool(t) ==
  /\ owner = t /\ Idle(t)
  /\ pc' = [pc EXCEPT ![t] = "drop"]
  /\ UNCHANGED <<reg, at, owner, local_head, return_head, link, seen, head_msg, arc_msg>>

ReleaseLocal(t) ==
  /\ pc[t] = "drop"
  /\ IF local_head = NULL
     THEN /\ owner' = NULL
          /\ pc' = [pc EXCEPT ![t] = "arc"]
          /\ UNCHANGED <<at, local_head, seen, head_msg, arc_msg>>
     ELSE /\ local_head' = link[local_head]
          /\ at' = [at EXCEPT ![local_head] = "source"]
          /\ Access(t, local_head)
          /\ UNCHANGED <<pc, owner>>
  /\ UNCHANGED <<reg, return_head, link>>

\* PoolShared::drop: read the link, then release the buffer.
ReleaseReturned(t) ==
  /\ pc[t] = "walk"
  /\ IF reg[t].head = NULL
     THEN pc' = [pc EXCEPT ![t] = "idle"] /\ UNCHANGED <<reg, at, seen, head_msg, arc_msg>>
     ELSE /\ reg' = [reg EXCEPT ![t].head = link[reg[t].head]]
          /\ at' = [at EXCEPT ![reg[t].head] = "source"]
          /\ Access(t, reg[t].head)
          /\ UNCHANGED pc
  /\ UNCHANGED <<owner, local_head, return_head, link>>

-----------------------------------------------------------------------------
(* Pages and pools are Send: what hands them over synchronizes.            *)

SendPage(t, u, b) ==
  /\ at[b] = t /\ Idle(t) /\ t # u
  /\ at' = [at EXCEPT ![b] = u]
  /\ Learn(u, Knows(t))
  /\ UNCHANGED <<pc, reg, owner, local_head, return_head, link, head_msg, arc_msg>>

SendPool(t, u) ==
  /\ owner = t /\ Idle(t) /\ t # u
  /\ owner' = u
  /\ Learn(u, Knows(t))
  /\ UNCHANGED <<pc, reg, at, local_head, return_head, link, head_msg, arc_msg>>

OrderFinished ==
  /\ owner = NULL /\ \A t \in Threads : Idle(t) /\ ~HoldsArc(t)
  /\ UNCHANGED ovars

OrderNext ==
  \/ \E t \in Threads :
       \/ \E b \in Bufs : AllocateFresh(t, b) \/ PrewarmPage(t, b) \/ Push(t, b)
       \/ Drain(t) \/ PopLocal(t) \/ LoadHead(t) \/ WriteLink(t) \/ Cas(t)
       \/ DropArc(t) \/ ReleaseLocal(t) \/ DropPool(t) \/ ReleaseReturned(t)
       \/ \E u \in Threads : SendPool(t, u) \/ \E b \in Bufs : SendPage(t, u, b)
  \/ OrderFinished

OrderSpec == OrderInit /\ [][OrderNext]_ovars

-----------------------------------------------------------------------------
\* The buffers a thread's next step may read or write without asking: its own
\* pages, the owner's local list, the queue that PoolShared::drop walks.
Accessible(t) ==
  {b \in Bufs : \/ at[b] = t
                \/ at[b] = "local" /\ owner = t
                \/ at[b] = "queue" /\ pc[t] = "walk"}

\* No thread touches a buffer whose latest access, by whatever thread, has not
\* happened before: no data race on a link or on user data, no stale link.
\* The Release of push_return and the Acquire of the swap are enough, although
\* a pusher links to a head it has loaded Relaxed.
NoRace == \A t \in Threads : \A b \in Accessible(t) : t \in seen[b]

=============================================================================
