---------------------------- MODULE MCRagBulkAdd ----------------------------
(* Instance of RagBulkAdd for TLC. *)
EXTENDS RagBulkAdd, TLC
=============================================================================
