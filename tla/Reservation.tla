---------------------------- MODULE Reservation ----------------------------
(***************************************************************************)
(* What the router's registry promises about public hostnames, with no     *)
(* tunnel ids, no maps and no garbage collection: a hostname is free, or   *)
(* leased to one user.  A lease whose session is connected, or that is     *)
(* persistent, does not end by itself; any other one ends when its grace   *)
(* time has passed.                                                        *)
(*                                                                         *)
(* Registry implements this specification (Registry!Lease is the           *)
(* refinement mapping).                                                    *)
(***************************************************************************)
EXTENDS Integers

CONSTANTS Users,      \* user ids
          Sessions,   \* session objects
          UserOf,     \* the user whose certificate opened a session
          Hosts,      \* hostnames under the base domain
          Grace,      \* how long an offline, non-persistent lease is kept
          None        \* no lease, no session

VARIABLES lease,      \* lease[h]: None, or who holds hostname h and how
          now         \* the clock

vars == <<lease, now>>

Held(user, sess, persist, until) ==
    [user |-> user, sess |-> sess, persist |-> persist, until |-> until]

Offline(l) == l # None /\ l.sess = None

Over(l, time) == Offline(l) /\ ~l.persist /\ time > l.until

Init == /\ lease = [h \in Hosts |-> None]
        /\ now = 1

(* A session takes a free hostname, or one its own user holds offline. *)
Claim(s, h, persist) ==
    /\ lease[h] = None \/ (Offline(lease[h]) /\ lease[h].user = UserOf[s])
    /\ lease' = [lease EXCEPT ![h] = Held(UserOf[s], s, persist, 0)]
    /\ UNCHANGED now

(* A session takes over a lease of its own user as it is. *)
TakeOver(s, h) ==
    /\ lease[h] # None /\ lease[h].user = UserOf[s]
    /\ lease' = [lease EXCEPT ![h] = Held(UserOf[s], s, lease[h].persist, 0)]
    /\ UNCHANGED now

GiveUp(h) ==
    /\ lease' = [lease EXCEPT ![h] = None]
    /\ UNCHANGED now

(* A session is gone: every lease it holds goes offline at once. *)
Disconnect(s) ==
    /\ lease' = [h \in Hosts |->
                   IF lease[h] # None /\ lease[h].sess = s
                   THEN Held(lease[h].user, None, lease[h].persist,
                             IF lease[h].persist THEN 0 ELSE now + Grace)
                   ELSE lease[h]]
    /\ UNCHANGED now

(* Time passes, and the offline leases whose grace is over end. *)
Tick ==
    /\ now' = now + 1
    /\ lease' = [h \in Hosts |-> IF Over(lease[h], now') THEN None ELSE lease[h]]

Next == \/ \E s \in Sessions, h \in Hosts, p \in BOOLEAN : Claim(s, h, p)
        \/ \E s \in Sessions, h \in Hosts : TakeOver(s, h)
        \/ \E h \in Hosts : GiveUp(h)
        \/ \E s \in Sessions : Disconnect(s)
        \/ Tick

Spec == Init /\ [][Next]_vars
=============================================================================
