---------------------------- MODULE PagePoolInv ----------------------------
(***************************************************************************)
(* The inductive invariant of PagePool.  It describes the two intrusive    *)
(* lists without sequences: which pointers exist, that they lead to        *)
(* buffers the pool owns, that no two of them lead to the same buffer, and *)
(* that every set of such buffers is entered from outside it, which rules  *)
(* out a lost buffer and a cycle alike.                                    *)
(***************************************************************************)
EXTENDS PagePool

\* The pointers that start a list: the two heads, and the head local to
\* PoolShared::drop while it runs.
Heads == {local_head, return_head} \cup {reg[t].head : t \in At({"shared_drop"})}

\* The locals a step reads are there: the tenant of an allocate or a release,
\* the new_bytes the peak is compared with.
LocalsOK ==
  /\ \A t \in Threads :
       pc[t] \in AcquirePcs \cup {"in_use", "rr_bytes", "rr_pages"} \cup RecordPcs
         => reg[t].ten \in Tenants
  /\ \A t \in At({"ra_peak", "ra_store"}) : reg[t].n \in Counter
  /\ \A b \in Live : page[b].ten \in Tenants

\* Buffers in the hands of a thread or of a page.
HoldersOK ==
  /\ \A t \in At(HoldPcs) : reg[t].buf \in mapped \ Live
  /\ \A t, u \in At(HoldPcs) : reg[t].buf = reg[u].buf => t = u
  /\ Live \subseteq mapped

\* Buffers in the hands of the pool: a pointer leads to one of them, no two
\* pointers to the same one, and no set of them is cut off from the heads.
ChainsOK ==
  /\ Heads \subseteq FreeBufs \cup {NULL}
  /\ \A b \in FreeBufs : word[b] \in (FreeBufs \ Heads) \cup {NULL}
  /\ \A b, c \in FreeBufs : word[b] = word[c] /\ word[b] # NULL => b = c
  /\ \A S \in SUBSET FreeBufs :
       S # {} => \/ Heads \cap S # {}
                 \/ \E c \in FreeBufs \ S : word[c] \in S

\* The two lists do not share their first buffer, and a thread about to
\* compare-exchange has linked its buffer to the head it expects.
HeadsOK ==
  /\ local_head = return_head => local_head = NULL
  /\ \A t \in At({"cas"}) : word[reg[t].buf] = reg[t].head

\* Who holds an Arc<PoolShared>, and what is over once nobody does.
ArcOK ==
  /\ \A b \in Bufs : b \in strong <=> \/ b \in Live
                                      \/ \E t \in At(RecordPcs) : reg[t].buf = b
  /\ \A t \in Threads : t \in strong <=> pc[t] \in DropPcs
  /\ At(PoolPcs) # {} => POOL \in strong
  /\ \A t, u \in At(PoolPcs) : t = u
  /\ At(SharedDropPcs) # {} => strong = {}
  /\ \A t, u \in At(SharedDropPcs) : t = u
  /\ POOL \notin strong => local_head = NULL
  /\ strong = {} /\ At({"shared_swap"}) = {} => return_head = NULL

\* Every reachable state of PagePool satisfies the whole of it.
IInv == TypeOK /\ LocalsOK /\ HoldersOK /\ ChainsOK /\ HeadsOK /\ ArcOK
=============================================================================
