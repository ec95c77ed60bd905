---------------------------- MODULE MCHttpFront ----------------------------
(* Instance of HttpFront for TLC. *)
EXTENDS HttpFront

Paths == Operation \cup Represented
=============================================================================
