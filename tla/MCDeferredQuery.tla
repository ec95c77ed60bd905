-------------------------- MODULE MCDeferredQuery --------------------------
(* Instance of DeferredQuery for TLC. *)
EXTENDS DeferredQuery, TLC
=============================================================================
