---------------------------- MODULE MCChunkLocks ----------------------------
(* Model checking of ChunkLocks, with an array that grows by one or two.   *)
EXTENDS ChunkLocks
=============================================================================
