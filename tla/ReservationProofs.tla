-------------------------- MODULE ReservationProofs --------------------------
(***************************************************************************)
(* The registry implements Reservation.  Each method maps to one step of   *)
(* Reservation (or to none): the lemmas say which, the theorem combines    *)
(* them under the invariant of RegistryProofs.                             *)
(***************************************************************************)
EXTENDS RegistryProofs

(* The mapping at one hostname. *)
LEMMA LeaseAt ==
    ASSUME RegInv, NEW h \in Hosts
    PROVE  /\ ~Reserved(h) => Lease[h] = None
           /\ Reserved(h) =>
                 /\ Lease[h] = LeaseOf(heap[byHost[h]])
                 /\ Lease[h] # None
                 /\ byHost[h] \in byTunnel
                 /\ heap[byHost[h]] \in Live
                 /\ heap[byHost[h]].host = h
<1> USE RegistryAssumption DEF RegInv
<1>1. ~Reserved(h) => Lease[h] = None
  BY DEF Lease
<1>2. ASSUME Reserved(h)
      PROVE  /\ Lease[h] = LeaseOf(heap[byHost[h]])
             /\ byHost[h] \in byTunnel
             /\ heap[byHost[h]].host = h
  BY <1>2 DEF Lease, Reserved, MapsAgree
<1>3. ASSUME Reserved(h)
      PROVE  heap[byHost[h]] \in Live
  BY <1>2, <1>3, LiveObject
<1>4. ASSUME Reserved(h)
      PROVE  Lease[h] # None
  <2>1. LeaseOf(heap[byHost[h]]) \in Leases
    BY <1>3, <1>4 DEF Live, Leases, LeaseOf
  <2> QED
    BY <1>2, <1>4, <2>1
<1> QED
  BY <1>1, <1>2, <1>3, <1>4

(* The collection is invisible: a hostname whose entry and object a step   *)
(* changes no further than gcLocked does keeps its lease.                  *)
LEMMA SameLease ==
    ASSUME RegInv, NEW h \in Hosts,
           byHost'[h] = ByHostGC[h] \/ byHost'[h] = byHost[h],
           byHost'[h] # None => heap'[byHost'[h]] = heap[byHost[h]],
           now' = now
    PROVE  Lease'[h] = Lease[h]
<1>1. CASE Reserved(h)
  <2>1. byHost'[h] = byHost[h] /\ byHost[h] # None
    BY <1>1, GCSparesReserved DEF Reserved
  <2>2. Reserved(h)'
    BY <1>1, <2>1 DEF Reserved, Expired, Bound
  <2> QED
    BY <1>1, <2>1, <2>2 DEF Lease
<1>2. CASE ~Reserved(h)
  <2>1. ~Reserved(h)'
    BY <1>2, GCSparesReserved DEF Reserved, Expired, Bound
  <2> QED
    BY <1>2, <2>1 DEF Lease
<1> QED
  BY <1>1, <1>2

-----------------------------------------------------------------------------
LEMMA InitMaps == RegInit => Reservations!Init
BY RegistryAssumption DEF RegInit, Reservations!Init, Lease, Reserved

LEMMA AllocateMaps ==
    ASSUME RegInv,
           NEW s \in Sessions, NEW sub \in Subdomains, NEW p \in BOOLEAN,
           NEW h \in Hosts, NEW id \in TunnelIds,
           Allocate(s, sub, p, h, id)
    PROVE  Reservations!Claim(s, h, p)
<1> USE RegistryAssumption
<1>1. /\ id # None /\ id \notin byTunnel
      /\ heap'[id] = [host |-> h, user |-> UserOf[s], persist |-> p,
                      grace |-> ZeroTime, sess |-> s]
      /\ \A other \in byTunnel : heap'[other] = heap[other]
      /\ byHost' = [ByHostGC EXCEPT ![h] = id]
      /\ now' = now
  BY DEF Allocate, RegInv, RegTypeOK
<1>2. byHost'[h] = id /\ \A g \in Hosts \ {h} : byHost'[g] = ByHostGC[g]
  BY <1>1, AfterGC
<1>3. Lease[h] = None \/ (Reservations!Offline(Lease[h]) /\ Lease[h].user = UserOf[s])
  <2>1. CASE Reserved(h)
    <3>1. ByHostGC[h] = byHost[h] /\ byHost[h] # None
      BY <2>1, GCSparesReserved DEF Reserved
    <3>2. Reclaimable(UserOf[s], h)
      BY <3>1 DEF Allocate, PickHost, Free
    <3>3. Lease[h] = LeaseOf(heap[byHost[h]]) /\ Lease[h] # None
      BY <2>1, LeaseAt
    <3> QED
      BY <3>1, <3>2, <3>3 DEF Reclaimable, Bound, LeaseOf, Reservations!Offline
  <2>2. CASE ~Reserved(h)
    BY <2>2, LeaseAt
  <2> QED
    BY <2>1, <2>2
<1>4. Lease'[h] = Reservations!Held(UserOf[s], s, p, 0)
  <2>1. Reserved(h)'
    BY <1>1, <1>2 DEF Reserved, Expired, Bound
  <2> QED
    BY <1>1, <1>2, <2>1 DEF Lease, LeaseOf, Reservations!Held, ZeroTime
<1>5. ASSUME NEW g \in Hosts \ {h} PROVE Lease'[g] = Lease[g]
  <2>1. byHost'[g] # None => heap'[byHost'[g]] = heap[byHost[g]]
    BY <1>1, <1>2, AfterGC
  <2> QED
    BY <1>1, <1>2, <2>1, SameLease
<1>6. Lease' = [Lease EXCEPT ![h] = Reservations!Held(UserOf[s], s, p, 0)]
  BY <1>4, <1>5 DEF Lease
<1> QED
  BY <1>1, <1>3, <1>6 DEF Reservations!Claim

LEMMA AllocateFailsMaps ==
    ASSUME RegInv, NEW s \in Sessions, NEW sub \in Subdomains,
           AllocateFails(s, sub)
    PROVE  UNCHANGED Reservations!vars
<1>1. ASSUME NEW h \in Hosts PROVE Lease'[h] = Lease[h]
  <2>1. byHost'[h] # None => heap'[byHost'[h]] = heap[byHost[h]]
    BY AfterGC DEF AllocateFails
  <2> QED
    BY <2>1, SameLease DEF AllocateFails
<1>2. Lease' = Lease
  BY <1>1 DEF Lease
<1> QED
  BY <1>2 DEF Reservations!vars, AllocateFails

LEMMA ReleaseMaps ==
    ASSUME RegInv, NEW id \in TunnelIds, Release(id), id \in byTunnel
    PROVE  Reservations!GiveUp(heap[id].host)
<1> DEFINE own == heap[id].host
<1>1. own \in Hosts /\ byHost' = [byHost EXCEPT ![own] = None]
      /\ heap' = heap /\ now' = now
  BY LiveObject DEF Release, Live, RegInv
<1>2. byHost'[own] = None /\ \A g \in Hosts \ {own} : byHost'[g] = byHost[g]
  BY <1>1 DEF RegInv, RegTypeOK
<1> HIDE DEF own
<1>3. Lease'[own] = None
  BY <1>1, <1>2 DEF Lease, Reserved
<1>4. \A g \in Hosts \ {own} : Lease'[g] = Lease[g]
  BY <1>1, <1>2, SameLease
<1>5. Lease' = [Lease EXCEPT ![own] = None]
  BY <1>3, <1>4 DEF Lease
<1> QED
  BY <1>1, <1>5 DEF Reservations!GiveUp, own

LEMMA DisconnectSessionMaps ==
    ASSUME RegInv, NEW s \in Sessions, DisconnectSession(s)
    PROVE  Reservations!Disconnect(s)
<1> USE RegistryAssumption
<1>1. byHost' = byHost /\ now' = now
  BY DEF DisconnectSession
<1>2. ASSUME NEW h \in Hosts, Reserved(h), heap[byHost[h]].sess = s
      PROVE  Lease'[h] = Reservations!Held(Lease[h].user, None, Lease[h].persist,
                             IF Lease[h].persist THEN 0 ELSE now + Grace)
  <2> DEFINE o     == heap[byHost[h]]
             until == IF o.persist THEN ZeroTime ELSE now + Grace
  <2>1. o \in Live /\ byHost[h] \in byTunnel /\ byHost[h] \in TunnelIds
        /\ Lease[h] = LeaseOf(o) /\ byHost[h] # None
    BY <1>2, LeaseAt, LiveObject DEF RegInv, Reserved
  <2>2. heap'[byHost[h]] = Bind(o, None, until)
    BY <1>2, <2>1 DEF DisconnectSession, Bind
  <2>3. until \in Nat /\ until <= now + Grace /\ (~o.persist => until # ZeroTime)
    BY DEF ZeroTime, RegInv, RegTypeOK
  <2> HIDE DEF until, o
  <2>4. /\ Bind(o, None, until).user = o.user
        /\ Bind(o, None, until).persist = o.persist
        /\ Bind(o, None, until).sess = None
        /\ Bind(o, None, until).grace = until
    BY <2>1, <2>3, BindKeeps
  <2>5. ~o.persist => until = now + Grace
    BY DEF until
  <2>6. Reserved(h)'
    BY <1>1, <2>1, <2>2, <2>3, <2>4, <2>5 DEF Reserved, Expired, Bound, RegInv, RegTypeOK
  <2>7. Lease'[h] = LeaseOf(Bind(o, None, until))
    BY <1>1, <2>2, <2>6 DEF Lease
  <2>8. Lease'[h] = [user |-> o.user, sess |-> None, persist |-> o.persist, until |-> until]
    BY <2>4, <2>7 DEF LeaseOf
  <2> QED
    BY <2>1, <2>8 DEF LeaseOf, Reservations!Held, until, ZeroTime
<1>3. ASSUME NEW h \in Hosts, ~(Reserved(h) /\ heap[byHost[h]].sess = s)
      PROVE  Lease'[h] = Lease[h]
  <2>1. ASSUME byHost[h] # None PROVE heap'[byHost[h]] = heap[byHost[h]]
    <3>1. heap[byHost[h]].sess # s
      BY <1>3, <2>1 DEF Reserved, Expired, Bound
    <3> QED
      BY <2>1, <3>1 DEF DisconnectSession, RegInv, RegTypeOK
  <2> QED
    BY <1>1, <2>1, SameLease
<1>4. ASSUME NEW h \in Hosts
      PROVE  (Lease[h] # None /\ Lease[h].sess = s)
               <=> (Reserved(h) /\ heap[byHost[h]].sess = s)
  <2>1. CASE Reserved(h)
    <3>1. Lease[h] = LeaseOf(heap[byHost[h]]) /\ Lease[h] # None
      BY <2>1, LeaseAt
    <3> QED
      BY <2>1, <3>1 DEF LeaseOf
  <2>2. CASE ~Reserved(h)
    BY <2>2, LeaseAt
  <2> QED
    BY <2>1, <2>2
<1>5. \A h \in Hosts :
         Lease'[h] = IF Lease[h] # None /\ Lease[h].sess = s
                     THEN Reservations!Held(Lease[h].user, None, Lease[h].persist,
                             IF Lease[h].persist THEN 0 ELSE now + Grace)
                     ELSE Lease[h]
  BY <1>2, <1>3, <1>4
<1> QED
  BY <1>1, <1>5 DEF Reservations!Disconnect, Lease

LEMMA RebindMaps ==
    ASSUME RegInv, NEW id \in TunnelIds, NEW s \in Sessions, Rebind(id, s)
    PROVE  Reservations!Next
<1> USE RegistryAssumption
<1>0. PICK o \in Live, h \in Hosts : o = heap[id] /\ h = heap[id].host
  BY LiveObject DEF Rebind, Live, RegInv
<1>1. id \in byTunnel /\ byHost[h] = id /\ id # None
  BY <1>0 DEF Rebind, RegInv, MapsAgree
<1>2. byHost' = byHost /\ now' = now
      /\ heap'[id] = Bind(o, s, ZeroTime)
      /\ \A other \in TunnelIds \ {id} : heap'[other] = heap[other]
  BY <1>0 DEF Rebind, Bind, RegInv, RegTypeOK
<1>3. ZeroTime \in Nat /\ o.user = UserOf[s]
  BY <1>0 DEF ZeroTime, Rebind
<1>4. Lease'[h] = Reservations!Held(UserOf[s], s, o.persist, 0)
  <2>1. /\ Bind(o, s, ZeroTime).user = o.user
        /\ Bind(o, s, ZeroTime).persist = o.persist
        /\ Bind(o, s, ZeroTime).sess = s
        /\ Bind(o, s, ZeroTime).grace = ZeroTime
    BY <1>1, <1>3, BindKeeps
  <2>2. Reserved(h)'
    BY <1>1, <1>2, <2>1 DEF Reserved, Expired, Bound
  <2>3. Lease'[h] = LeaseOf(Bind(o, s, ZeroTime))
    <3>1. Lease'[h] = LeaseOf(heap'[byHost'[h]])
      BY <1>1, <2>2 DEF Lease
    <3> QED
      BY <1>1, <1>2, <3>1
  <2> QED
    BY <1>3, <2>1, <2>3 DEF LeaseOf, Reservations!Held, ZeroTime
<1>5. \A g \in Hosts \ {h} : Lease'[g] = Lease[g]
  <2> SUFFICES ASSUME NEW g \in Hosts \ {h} PROVE Lease'[g] = Lease[g]
    OBVIOUS
  <2>1. byHost[g] # None => byHost[g] \in TunnelIds \ {id}
    <3>1. byHost[g] # None => byHost[g] \in TunnelIds /\ heap[byHost[g]].host = g
      BY DEF RegInv, RegTypeOK, MapsAgree
    <3> QED
      BY <1>0, <3>1
  <2> QED
    BY <1>2, <2>1, SameLease
<1>6. Lease' = [Lease EXCEPT ![h] = Reservations!Held(UserOf[s], s, o.persist, 0)]
  BY <1>4, <1>5 DEF Lease
<1>7. CASE Reserved(h)
  <2>1. Lease[h] = LeaseOf(o) /\ Lease[h] # None
    BY <1>0, <1>1, <1>7, LeaseAt
  <2>2. Lease[h].user = UserOf[s] /\ Lease[h].persist = o.persist
    BY <1>3, <2>1 DEF LeaseOf
  <2>3. Reservations!TakeOver(s, h)
    BY <1>2, <1>6, <2>1, <2>2 DEF Reservations!TakeOver
  <2> QED
    BY <1>1, <2>3 DEF Reservations!Next
<1>8. CASE ~Reserved(h)
  <2>1. Lease[h] = None
    BY <1>1, <1>8, LeaseAt
  <2>2. o.persist \in BOOLEAN
    BY <1>1 DEF Live
  <2>3. Reservations!Claim(s, h, o.persist)
    BY <1>2, <1>6, <2>1 DEF Reservations!Claim
  <2> QED
    BY <1>1, <2>2, <2>3 DEF Reservations!Next
<1> QED
  BY <1>7, <1>8

LEMMA TickMaps ==
    ASSUME RegInv, Tick
    PROVE  Reservations!Tick
<1>1. heap' = heap /\ byHost' = byHost /\ now' = now + 1
  BY DEF Tick
<1>2. ASSUME NEW h \in Hosts, Reserved(h)
      PROVE  Reserved(h)' <=> ~Reservations!Over(Lease[h], now')
  <2> DEFINE o == heap[byHost[h]]
  <2>1. o \in Live /\ Lease[h] = LeaseOf(o) /\ Lease[h] # None
        /\ byHost[h] # None /\ byHost[h] \in byTunnel
    BY <1>2, LeaseAt DEF Reserved
  <2>2. o.sess = None /\ ~o.persist => o.grace # ZeroTime
    BY <2>1 DEF RegInv, GraceBounded, Bound, ZeroTime
  <2>3. Reserved(h)' <=> ~(o.sess = None /\ ~o.persist /\ now' > o.grace)
    BY <1>1, <2>1, <2>2 DEF Reserved, Expired, Bound
  <2>4. Reservations!Over(Lease[h], now') <=>
          (o.sess = None /\ ~o.persist /\ now' > o.grace)
    <3> HIDE DEF o
    <3>1. Lease[h].sess = o.sess /\ Lease[h].persist = o.persist /\ Lease[h].until = o.grace
      BY <2>1 DEF LeaseOf
    <3> QED
      BY <2>1, <3>1 DEF Reservations!Over, Reservations!Offline
  <2> HIDE DEF o
  <2> QED
    BY <2>3, <2>4
<1>3. ASSUME NEW h \in Hosts, Reserved(h)
      PROVE  Lease'[h] = IF Reservations!Over(Lease[h], now') THEN None ELSE Lease[h]
  BY <1>1, <1>2, <1>3, LeaseAt DEF Lease
<1>4. ASSUME NEW h \in Hosts, ~Reserved(h)
      PROVE  Lease'[h] = IF Reservations!Over(Lease[h], now') THEN None ELSE Lease[h]
  <2>1. Lease[h] = None
    BY <1>4, LeaseAt
  <2>2. ~Reserved(h)'
    <3>1. byHost[h] # None => byHost[h] \in byTunnel
      BY DEF RegInv, MapsAgree
    <3>2. byHost[h] # None => heap[byHost[h]].grace \in Nat
      BY <3>1, LiveObject DEF RegInv, Live
    <3> QED
      BY <1>1, <1>4, <3>2 DEF Reserved, Expired, Bound, RegInv, RegTypeOK
  <2>3. Lease'[h] = None
    BY <2>2 DEF Lease
  <2> QED
    BY <2>1, <2>3
<1> QED
  BY <1>1, <1>3, <1>4 DEF Reservations!Tick, Lease

-----------------------------------------------------------------------------
LEMMA StepMaps ==
    ASSUME RegInv, [RegNext]_regVars
    PROVE  [Reservations!Next]_(Reservations!vars)
<1>1. ASSUME NEW s \in Sessions, NEW sub \in Subdomains, NEW p \in BOOLEAN,
             NEW h \in Hosts, NEW id \in TunnelIds, Allocate(s, sub, p, h, id)
      PROVE  Reservations!Next
  BY <1>1, AllocateMaps DEF Reservations!Next
<1>2. ASSUME NEW s \in Sessions, NEW sub \in Subdomains, AllocateFails(s, sub)
      PROVE  UNCHANGED Reservations!vars
  BY <1>2, AllocateFailsMaps
<1>3. ASSUME UNCHANGED regVars
      PROVE  UNCHANGED Reservations!vars
  BY <1>3 DEF regVars, Reservations!vars, Lease, LeaseOf, Reserved, Expired, Bound
<1>4. ASSUME NEW id \in TunnelIds, Release(id)
      PROVE  [Reservations!Next]_(Reservations!vars)
  <2>1. CASE id \in byTunnel
    <3>1. heap[id].host \in Hosts
      BY <2>1, LiveObject DEF RegInv, Live
    <3> QED
      BY <1>4, <2>1, <3>1, ReleaseMaps DEF Reservations!Next
  <2>2. CASE id \notin byTunnel
    BY <1>3, <1>4, <2>2 DEF Release
  <2> QED
    BY <2>1, <2>2
<1>5. ASSUME NEW s \in Sessions, DisconnectSession(s)
      PROVE  Reservations!Next
  BY <1>5, DisconnectSessionMaps DEF Reservations!Next
<1>6. ASSUME NEW id \in TunnelIds, NEW s \in Sessions, Rebind(id, s)
      PROVE  Reservations!Next
  BY <1>6, RebindMaps
<1>7. ASSUME Tick
      PROVE  Reservations!Next
  BY <1>7, TickMaps DEF Reservations!Next
<1> QED
  BY <1>1, <1>2, <1>3, <1>4, <1>5, <1>6, <1>7 DEF RegNext

(* The registry, with its two maps and its lazy collection, offers exactly *)
(* the hostname leases of Reservation.                                     *)
THEOREM RegistryImplementsReservation == RegSpec => ReservationsSpec
<1>1. RegInit => Reservations!Init
  BY InitMaps
<1>2. RegInv /\ [RegNext]_regVars => [Reservations!Next]_(Reservations!vars)
  BY StepMaps
<1> QED
  BY <1>1, <1>2, RegistryInvariant, PTL
     DEF RegSpec, ReservationsSpec, Reservations!Spec
=============================================================================
