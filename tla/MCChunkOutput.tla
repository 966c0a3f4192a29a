--------------------------- MODULE MCChunkOutput ---------------------------
(* Model checking of ChunkOutput: chunk ids that are negative, early, late *)
(* and more than two buffer lengths ahead.                                 *)
EXTENDS ChunkOutput

MCIds == -2 .. 8
=============================================================================
