--------------------------- MODULE MCChunkTrader ---------------------------
(* Model checking of ChunkTrader.                                          *)
EXTENDS ChunkTrader
=============================================================================
