----------------------------- MODULE MCRagStore -----------------------------
(* Instance of RagStore for TLC. *)
EXTENDS RagStore, TLC

SessionSymmetry == Permutations(Session)
=============================================================================
