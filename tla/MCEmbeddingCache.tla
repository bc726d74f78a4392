--------------------------- MODULE MCEmbeddingCache ---------------------------
(***************************************************************************)
(* Instances of EmbeddingCache for TLC.                                    *)
(***************************************************************************)
EXTENDS EmbeddingCache, TLC

Symmetry == Permutations(Thread) \cup Permutations(Text)
===============================================================================
