----------------------------- MODULE MCChunkIndex -----------------------------
(* Small instances of the index for TLC. *)
EXTENDS ChunkIndex
=============================================================================
