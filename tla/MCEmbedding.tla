---------------------------- MODULE MCEmbedding ----------------------------
(* Small instances of the vector index for TLC. *)
EXTENDS EmbeddingIndex, TLC

CONSTANTS u1, u2
=============================================================================
