---------------------------- MODULE HandleStore ----------------------------
(***************************************************************************)
(* What a builder and the sealed handle it becomes promise to their        *)
(* holders: each handle has bytes of its own.  Nothing that happens to     *)
(* another handle, to the pool or to memory that is recycled changes them, *)
(* only the builder's own operations do, and after seal nothing does.      *)
(* PageContent and ChunkContent implement it; the example programs use it. *)
(***************************************************************************)
EXTENDS Naturals, Sequences

CONSTANTS
  Handles,   \* slots for live builders and sealed handles
  Cells      \* what one byte of memory may hold

VARIABLE handle   \* [Handles -> state, references, logical length, capacity bytes]

NoHandle == [st |-> "none", refs |-> 0, len |-> 0, data |-> <<>>]

StoreTypeOK ==
  \A h \in Handles :
    /\ handle[h].st \in {"none", "builder", "sealed"}
    /\ handle[h].refs \in Nat
    /\ handle[h].data \in Seq(Cells)
    /\ handle[h].len \in 0 .. Len(handle[h].data)

StoreInit == handle = [h \in Handles |-> NoHandle]

\* as_slice: the first len bytes.
View(h) == SubSeq(handle[h].data, 1, handle[h].len)

Becomes(h, from, value) ==
  handle[h].st = from /\ handle' = [handle EXCEPT ![h] = value]

\* allocate: the bytes may be anything, a recycled buffer is not cleared.
Create(h, d) == Becomes(h, "none", [st |-> "builder", refs |-> 1, len |-> 0, data |-> d])

\* append, set_len, writes through as_mut_slice: the capacity stays.
Edit(h, d, n) ==
  /\ Len(d) = Len(handle[h].data) /\ n <= Len(d)
  /\ Becomes(h, "builder", [st |-> "builder", refs |-> handle[h].refs, len |-> n, data |-> d])

\* seal, after a last edit in the alloc_* calls.
Complete(h, d, n) ==
  /\ Len(d) = Len(handle[h].data) /\ n <= Len(d)
  /\ Becomes(h, "builder", [st |-> "sealed", refs |-> 1, len |-> n, data |-> d])

Share(h)   == Becomes(h, "sealed", [handle[h] EXCEPT !.refs = @ + 1])
Unshare(h) == handle[h].refs > 1 /\ Becomes(h, "sealed", [handle[h] EXCEPT !.refs = @ - 1])
Discard(h) == handle[h].refs = 1 /\ Becomes(h, handle[h].st, NoHandle)

\* The bytes and the length of a step are whatever the next state says.
StoreNext ==
  \E h \in Handles :
    LET d == handle'[h].data
        n == handle'[h].len
    IN  \/ Create(h, d) \/ Edit(h, d, n) \/ Complete(h, d, n)
        \/ Share(h) \/ Unshare(h) \/ Discard(h)

StoreSpec == StoreInit /\ [][StoreNext]_handle
=============================================================================
