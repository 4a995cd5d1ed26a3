-------------------------- MODULE MCDaemonSession --------------------------
(* Instance of DaemonSession for TLC. *)
EXTENDS DaemonSession

CONSTANTS a1
=============================================================================
