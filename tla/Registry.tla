------------------------------ MODULE Registry ------------------------------
(***************************************************************************)
(* gateway/router/registry.go: the map from public hostnames to tunnels.   *)
(*                                                                         *)
(* Every exported method of router.Registry runs under one mutex, so each  *)
(* is one action here; callers interleave between methods, never inside.   *)
(* The two Go maps hold pointers to shared `live` objects.  Here heap      *)
(* holds the objects, byTunnel the ids present as keys of the Go map       *)
(* byTunnel (the value under a key is always the object with that id), and *)
(* byHost the id of the object a hostname points to.                       *)
(*                                                                         *)
(* time.Now is a counter that starts at 1, so that 0 is the zero           *)
(* time.Time.  Tunnel ids are 8 random bytes: an id is used once.          *)
(* ClientID and CreatedAt, which no method reads, are left out.            *)
(***************************************************************************)
EXTENDS Integers, FiniteSets

CONSTANTS Users,        \* user ids
          Sessions,     \* *tunnel.Session objects
          UserOf,       \* Session.UserID()
          Hosts,        \* valid hostnames: a label, then the base domain
          RandomHosts,  \* those whose label is 12 hex digits
          TunnelIds,    \* ids randomHex(8) can return
          Grace,        \* Registry.grace
          MaxTime,      \* bound on the clock, for model checking
          None          \* Go's nil

AnyHost == "any"          \* the empty subdomain: let the gateway choose
BadName == "invalid"      \* a subdomain validateSubdomain rejects
Subdomains == Hosts \cup {AnyHost, BadName}

ZeroTime == 0             \* time.Time{}

Live == [host : Hosts, user : Users, persist : BOOLEAN, grace : Nat,
         sess : Sessions \cup {None}]

Leases == [user : Users, sess : Sessions \cup {None}, persist : BOOLEAN, until : Nat]

ASSUME RegistryAssumption ==
    /\ UserOf \in [Sessions -> Users]
    /\ RandomHosts \subseteq Hosts /\ RandomHosts # {}
    /\ AnyHost \notin Hosts /\ BadName \notin Hosts
    /\ Grace \in Nat \ {0}            \* New replaces grace <= 0 by 2 minutes
    /\ MaxTime \in Nat
    /\ None \notin Hosts \cup TunnelIds \cup Sessions \cup Users
    /\ None \notin Live \cup Leases

VARIABLES heap,      \* heap[id]: the live object with that TunnelID, or None
          byTunnel,  \* keys of the Go map byTunnel
          byHost,    \* byHost[h]: id of the object byHost[h] points to, or None
          now        \* time.Now()

regVars == <<heap, byTunnel, byHost, now>>

RegInit == /\ heap = [id \in TunnelIds |-> None]
           /\ byTunnel = {}
           /\ byHost = [h \in Hosts |-> None]
           /\ now = 1

-----------------------------------------------------------------------------
(* Read-only methods. *)

Bound(id) == heap[id].sess # None

CountForUser(u) == Cardinality({id \in byTunnel : heap[id].user = u /\ Bound(id)})

(* Lookup(h) finds a tunnel. *)
Routed(h) == byHost[h] # None /\ Bound(byHost[h])

-----------------------------------------------------------------------------
(* gcLocked: the entries to collect, and both maps afterwards. *)

Expired(id) == /\ ~Bound(id)
               /\ ~heap[id].persist
               /\ heap[id].grace = ZeroTime \/ now > heap[id].grace

\* Mutant: persistent entries are collected too.
GarbageWithPersist == {id \in byTunnel : ~Bound(id) /\ now > heap[id].grace}

Garbage == {id \in byTunnel : Expired(id)}

ByTunnelGC == byTunnel \ Garbage

ByHostGC == [h \in Hosts |-> IF \E id \in Garbage : heap[id].host = h
                             THEN None
                             ELSE byHost[h]]

(* pickHostLocked, which runs after gcLocked: the hostnames it can return. *)
Free(h) == ByHostGC[h] = None

\* Mutant: the owner of the entry is not compared.
ReclaimableByAnyone(u, h) == ~Free(h) /\ ~Bound(ByHostGC[h])

Reclaimable(u, h) == /\ ~Free(h)
                     /\ heap[ByHostGC[h]].user = u
                     /\ ~Bound(ByHostGC[h])

PickHost(u, sub) ==
    {h \in Hosts : \/ sub = AnyHost /\ h \in RandomHosts /\ Free(h)
                   \/ sub = h /\ (Free(h) \/ Reclaimable(u, h))}

(* It fails on a bad, taken or in-use name, or when 16 random labels in a  *)
(* row are taken.                                                          *)
PickHostFails(u, sub) ==
    \/ sub = AnyHost /\ \E h \in RandomHosts : ~Free(h)
    \/ sub # AnyHost /\ PickHost(u, sub) = {}

-----------------------------------------------------------------------------
(* Allocate: collect, pick a hostname (dropping the user's own dead entry  *)
(* for it), and enter a new object in both maps.                           *)
Allocate(s, sub, persist, h, id) ==
    /\ h \in PickHost(UserOf[s], sub)
    /\ heap[id] = None
    /\ heap' = [heap EXCEPT ![id] = [host |-> h, user |-> UserOf[s],
                                     persist |-> persist, grace |-> ZeroTime,
                                     sess |-> s]]
    /\ byTunnel' = (ByTunnelGC \ {ByHostGC[h]}) \cup {id}
    /\ byHost' = [ByHostGC EXCEPT ![h] = id]
    /\ UNCHANGED now

(* Allocate returns an error; the collection has been done all the same. *)
AllocateFails(s, sub) ==
    /\ PickHostFails(UserOf[s], sub)
    /\ byTunnel' = ByTunnelGC
    /\ byHost' = ByHostGC
    /\ UNCHANGED <<heap, now>>

\* Mutant: the hostname is not deleted.
ReleaseKeepsHost(id) ==
    IF id \in byTunnel
    THEN /\ byTunnel' = byTunnel \ {id}
         /\ UNCHANGED <<heap, byHost, now>>
    ELSE UNCHANGED regVars

\* Mutant: the object is dropped, its key in byTunnel is not.
ReleaseKeepsTunnel(id) ==
    IF id \in byTunnel
    THEN /\ heap' = [heap EXCEPT ![id] = None]
         /\ byHost' = [byHost EXCEPT ![heap[id].host] = None]
         /\ UNCHANGED <<byTunnel, now>>
    ELSE UNCHANGED regVars

Release(id) ==
    IF id \in byTunnel
    THEN /\ byTunnel' = byTunnel \ {id}
         /\ byHost' = [byHost EXCEPT ![heap[id].host] = None]
         /\ UNCHANGED <<heap, now>>
    ELSE UNCHANGED regVars

\* Mutant: the grace time is not started.
DisconnectWithoutGrace(s) ==
    /\ heap' = [id \in TunnelIds |->
                  IF id \in byTunnel /\ heap[id].sess = s
                  THEN [heap[id] EXCEPT !.sess = None]
                  ELSE heap[id]]
    /\ UNCHANGED <<byTunnel, byHost, now>>

DisconnectSession(s) ==
    /\ heap' = [id \in TunnelIds |->
                  IF id \in byTunnel /\ heap[id].sess = s
                  THEN [heap[id] EXCEPT
                          !.sess = None,
                          !.grace = IF heap[id].persist THEN ZeroTime
                                                        ELSE now + Grace]
                  ELSE heap[id]]
    /\ UNCHANGED <<byTunnel, byHost, now>>

\* Mutant: any session may rebind any tunnel.
RebindByAnyone(id, s) ==
    /\ id \in byTunnel
    /\ heap' = [heap EXCEPT ![id].sess = s, ![id].grace = ZeroTime]
    /\ UNCHANGED <<byTunnel, byHost, now>>

(* Rebind returns true; when it returns false nothing changes. *)
Rebind(id, s) ==
    /\ id \in byTunnel
    /\ heap[id].user = UserOf[s]
    /\ heap' = [heap EXCEPT ![id].sess = s, ![id].grace = ZeroTime]
    /\ UNCHANGED <<byTunnel, byHost, now>>

Tick == /\ now < MaxTime
        /\ now' = now + 1
        /\ UNCHANGED <<heap, byTunnel, byHost>>

RegNext ==
    \/ \E s \in Sessions, sub \in Subdomains, p \in BOOLEAN, h \in Hosts, id \in TunnelIds :
          Allocate(s, sub, p, h, id)
    \/ \E s \in Sessions, sub \in Subdomains : AllocateFails(s, sub)
    \/ \E id \in TunnelIds : Release(id)
    \/ \E s \in Sessions : DisconnectSession(s)
    \/ \E id \in TunnelIds, s \in Sessions : Rebind(id, s)
    \/ Tick

RegSpec == RegInit /\ [][RegNext]_regVars

-----------------------------------------------------------------------------
(* Types of the registry's state: both maps refer to allocated objects.    *)
RegTypeOK ==
    /\ heap \in [TunnelIds -> Live \cup {None}]
    /\ byTunnel \subseteq TunnelIds
    /\ \A id \in byTunnel : heap[id] # None
    /\ byHost \in [Hosts -> TunnelIds \cup {None}]
    /\ now \in Nat \ {0}

(* The two maps describe the same set of tunnels: whatever sequence of     *)
(* allocations, collections, reclaims and releases has run, an entry of    *)
(* byTunnel is the one its hostname points to, and byHost points to no     *)
(* object that has left byTunnel.  (So two tunnels never share a hostname, *)
(* and no public request reaches a released tunnel.)                       *)
MapsAgree ==
    /\ \A id \in byTunnel : byHost[heap[id].host] = id
    /\ \A h \in Hosts : byHost[h] # None =>
          byHost[h] \in byTunnel /\ heap[byHost[h]].host = h

(* A tunnel is bound only to a session of the user it was allocated to, so *)
(* Lookup hands a visitor of that user's hostname to nobody else.          *)
BoundToOwner ==
    \A id \in byTunnel : Bound(id) => heap[id].user = UserOf[heap[id].sess]

(* An entry waiting without a session and without Persist has a deadline   *)
(* no further away than the grace time: the reservation of a hostname      *)
(* always ends, however often its owner reconnected before.                *)
GraceBounded ==
    \A id \in byTunnel : ~Bound(id) /\ ~heap[id].persist =>
        heap[id].grace \in 1 .. (now + Grace)

(* Hostname h is in use, kept for ever, or still within its grace time.    *)
Reserved(h) == byHost[h] # None /\ ~Expired(byHost[h])

(* A reserved hostname keeps its owner through every step but a Release of *)
(* its tunnel: no collection, allocation by another user, reconnection or  *)
(* passing of time lets another user take it (docs/architecture.md:115).   *)
ReservationHeld ==
    [][\A h \in Hosts :
         Reserved(h) /\ ~Release(byHost[h]) =>
            byHost'[h] # None /\ heap'[byHost'[h]].user = heap[byHost[h]].user]_regVars

-----------------------------------------------------------------------------
(* The registry implements Reservation: an entry that has expired but has  *)
(* not been collected yet counts as a free hostname.                       *)
LeaseOf(o) == [user |-> o.user, sess |-> o.sess, persist |-> o.persist, until |-> o.grace]

Lease == [h \in Hosts |-> IF Reserved(h) THEN LeaseOf(heap[byHost[h]]) ELSE None]

Reservations == INSTANCE Reservation WITH lease <- Lease

(* Every step of the registry is a step of Reservation or changes no lease. *)
ReservationsSpec == Reservations!Spec
=============================================================================
