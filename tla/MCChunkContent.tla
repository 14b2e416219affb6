-------------------------- MODULE MCChunkContent --------------------------
(* Small instances of ChunkContent for TLC.                                *)
EXTENDS ChunkContent, TLC

CONSTANTS b1, b2

MCBase == b1 :> 4 @@ b2 :> 8

Symmetry == Permutations(Threads) \cup Permutations(Chunks)
=============================================================================
