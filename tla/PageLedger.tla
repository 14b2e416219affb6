----------------------------- MODULE PageLedger -----------------------------
(***************************************************************************)
(* What a PagePool promises, without lists, atomics or reference counts:   *)
(* a ledger of who owns each buffer.                                       *)
(*                                                                         *)
(* A buffer is with the source, with the pool, or with exactly one user.   *)
(* Once the pool is closed, users may still return buffers but get no new  *)
(* ones, and only then do buffers go back to the source.                   *)
(***************************************************************************)
CONSTANT Bufs

VARIABLES
  owner,  \* [Bufs -> {"source", "pool", "user"}]
  open    \* the PagePool has not started to drop

ledger == <<owner, open>>

LedgerTypeOK ==
  /\ owner \in [Bufs -> {"source", "pool", "user"}]
  /\ open \in BOOLEAN

LedgerInit == owner = [b \in Bufs |-> "source"] /\ open = TRUE

Move(b, from, to) ==
  /\ owner[b] = from
  /\ owner' = [owner EXCEPT ![b] = to]
  /\ UNCHANGED open

Reserve(b) == open /\ Move(b, "source", "pool")     \* prewarm
Obtain(b)  == open /\ Move(b, "source", "user")     \* allocate, from the source
Grant(b)   == open /\ Move(b, "pool", "user")       \* allocate, recycled
Return(b)  == Move(b, "user", "pool")               \* drop of the last handle
Release(b) == ~open /\ Move(b, "pool", "source")    \* shutdown
Close      == open /\ open' = FALSE /\ UNCHANGED owner

LedgerNext ==
  \/ \E b \in Bufs : Reserve(b) \/ Obtain(b) \/ Grant(b) \/ Return(b) \/ Release(b)
  \/ Close

LedgerSpec == LedgerInit /\ [][LedgerNext]_ledger
=============================================================================
