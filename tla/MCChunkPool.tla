---------------------------- MODULE MCChunkPool ----------------------------
(* Small instances of ChunkPool for TLC.                                   *)
EXTENDS ChunkPool, TLC

CONSTANTS b1, b2

\* Two buffers, the first aligned to DEFAULT_ALIGN only.
MCBase == b1 :> 10 @@ b2 :> 24

Symmetry == Permutations(Threads) \cup Permutations(Chunks)
=============================================================================
