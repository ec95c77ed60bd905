-------------------------- MODULE MCSerialEndpoint --------------------------
(* Instance of SerialEndpoint for TLC. *)
EXTENDS SerialEndpoint
=============================================================================
