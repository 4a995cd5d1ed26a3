----------------------------- MODULE MCIdentity -----------------------------
(* Instance of Identity for TLC. *)
EXTENDS Identity, TLC

CONSTANTS u1, t1, t2, d1, d2, r1, r2, c1

Symm == Permutations({t1, t2}) \cup Permutations({d1, d2}) \cup Permutations({r1, r2})
=============================================================================
