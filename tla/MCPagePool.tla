----------------------------- MODULE MCPagePool -----------------------------
(* Small instances of PagePool for TLC.                                    *)
EXTENDS PagePool, TLC

\* Threads and buffers are interchangeable.
Symmetry == Permutations(Threads) \cup Permutations(Bufs)
=============================================================================
