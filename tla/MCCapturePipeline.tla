------------------------- MODULE MCCapturePipeline -------------------------
(* Instance of CapturePipeline for TLC. *)
EXTENDS CapturePipeline, TLC
=============================================================================
