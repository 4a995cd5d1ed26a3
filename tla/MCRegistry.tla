----------------------------- MODULE MCRegistry -----------------------------
(***************************************************************************)
(* TLC instance of Registry: two sessions of one user and one of another   *)
(* compete for two hostnames, one of which the gateway may also pick.      *)
(***************************************************************************)
EXTENDS Registry, TLC

CONSTANTS u1, u2, s1, s2, s3, h1, h2

MCUserOf == (s1 :> u1) @@ (s2 :> u1) @@ (s3 :> u2)

(* The sessions s1 and s2, of the same user, play the same role; so do the *)
(* tunnel ids.                                                             *)
MCSymmetry == Permutations({s1, s2}) \cup Permutations(TunnelIds)
=============================================================================
