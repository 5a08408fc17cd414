--------------------------- MODULE MCChunkDownload ---------------------------
(* ChunkDownload for TLC: the threads are interchangeable. *)
EXTENDS ChunkDownload, TLC

ThreadSymmetry == Permutations(Threads)

=============================================================================
