---------------------------- MODULE MCHttpPipe ----------------------------
(* Instance of HttpPipe for TLC. *)
EXTENDS HttpPipe
=============================================================================
