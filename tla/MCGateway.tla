----------------------------- MODULE MCGateway -----------------------------
(***************************************************************************)
(* TLC instances of Gateway.                                               *)
(***************************************************************************)
EXTENDS Gateway, TLC

CONSTANTS u1, u2, c1, c2, s1, s2, s3

(* s3 is a session of another user.                                        *)
TwoUsersUserOf == [s \in Sessions |-> IF s = s3 THEN u2 ELSE u1]
(* s1 and s2 are sessions of one device, s3 is one of another.             *)
TwoDevicesClientOf == [s \in Sessions |-> IF s = s3 THEN c2 ELSE c1]

(* All are sessions of one user.                                           *)
OneUserUserOf == [s \in Sessions |-> u1]

(* All are sessions of one device. *)
OneDeviceClientOf == [s \in Sessions |-> c1]

(* Quotas of each user: 1 always, or now 1 and now 2.                      *)
One == [u \in Users |-> 1]
Two == [u \in Users |-> 2]

TunnelSymmetry == Permutations(TunnelIds)
=============================================================================
