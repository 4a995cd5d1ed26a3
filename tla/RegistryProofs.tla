--------------------------- MODULE RegistryProofs ---------------------------
(***************************************************************************)
(* Proofs about Registry.  RegInv is inductive: each method preserves it   *)
(* (one lemma per method, which Gateway's proofs cite as well).  MapsAgree *)
(* needs the typing of the heap; GraceBounded and BoundToOwner need        *)
(* nothing else.                                                           *)
(***************************************************************************)
EXTENDS Registry, TLAPS

RegInv == RegTypeOK /\ MapsAgree /\ BoundToOwner /\ GraceBounded

(* What the types say of one object in byTunnel. *)
LEMMA LiveObject ==
    ASSUME RegTypeOK, NEW id \in byTunnel
    PROVE  /\ id \in TunnelIds
           /\ heap[id] \in Live
  BY DEF RegTypeOK

(* Changing whom an object is bound to, and until when it is kept, leaves   *)
(* the rest of it alone.                                                   *)
Bind(o, s, t) == [o EXCEPT !.sess = s, !.grace = t]

LEMMA BindKeeps ==
    ASSUME NEW o \in Live, NEW s \in Sessions \cup {None}, NEW t \in Nat
    PROVE  /\ Bind(o, s, t) \in Live
           /\ Bind(o, s, t).host = o.host
           /\ Bind(o, s, t).user = o.user
           /\ Bind(o, s, t).persist = o.persist
           /\ Bind(o, s, t).sess = s
           /\ Bind(o, s, t).grace = t
  BY DEF Live, Bind

(* A collected tunnel takes exactly its own hostname with it. *)
LEMMA AfterGC ==
    ASSUME RegInv
    PROVE  /\ ByTunnelGC \subseteq byTunnel
           /\ ByHostGC \in [Hosts -> TunnelIds \cup {None}]
           /\ \A id \in ByTunnelGC : ByHostGC[heap[id].host] = id
           /\ \A h \in Hosts : ByHostGC[h] # None =>
                 /\ ByHostGC[h] = byHost[h]
                 /\ ByHostGC[h] \in ByTunnelGC
                 /\ heap[ByHostGC[h]].host = h
<1> USE RegistryAssumption DEF RegInv
<1>1. ByTunnelGC \subseteq byTunnel
  BY DEF ByTunnelGC
<1>2. ByHostGC \in [Hosts -> TunnelIds \cup {None}]
  BY DEF ByHostGC, RegTypeOK
<1>3. ASSUME NEW id \in ByTunnelGC
      PROVE  ByHostGC[heap[id].host] = id
  <2>1. heap[id].host \in Hosts /\ byHost[heap[id].host] = id
    BY <1>1, LiveObject DEF Live, MapsAgree
  <2>2. \A other \in Garbage : heap[other].host # heap[id].host
    BY <1>1, <2>1 DEF MapsAgree, Garbage, ByTunnelGC
  <2> QED
    BY <2>1, <2>2 DEF ByHostGC
<1>4. ASSUME NEW h \in Hosts, ByHostGC[h] # None
      PROVE  /\ ByHostGC[h] = byHost[h]
             /\ ByHostGC[h] \in ByTunnelGC
             /\ heap[ByHostGC[h]].host = h
  <2>1. ByHostGC[h] = byHost[h] /\ ~\E id \in Garbage : heap[id].host = h
    BY <1>4 DEF ByHostGC
  <2>2. byHost[h] \in byTunnel /\ heap[byHost[h]].host = h
    BY <1>4, <2>1 DEF MapsAgree
  <2> QED
    BY <2>1, <2>2 DEF ByTunnelGC
<1> QED
  BY <1>1, <1>2, <1>3, <1>4

-----------------------------------------------------------------------------
LEMMA InitRegInv == RegInit => RegInv
<1> SUFFICES ASSUME RegInit PROVE RegInv
  OBVIOUS
<1> USE RegistryAssumption DEF RegInit
<1>1. RegTypeOK
  BY DEF RegTypeOK
<1>2. MapsAgree
  BY DEF MapsAgree
<1>3. BoundToOwner /\ GraceBounded
  BY DEF BoundToOwner, GraceBounded
<1> QED
  BY <1>1, <1>2, <1>3 DEF RegInv

LEMMA AllocateRegInv ==
    ASSUME RegInv,
           NEW s \in Sessions, NEW sub \in Subdomains, NEW p \in BOOLEAN,
           NEW h \in Hosts, NEW id \in TunnelIds,
           Allocate(s, sub, p, h, id)
    PROVE  RegInv'
<1> USE RegistryAssumption
<1> DEFINE new == [host |-> h, user |-> UserOf[s], persist |-> p,
                   grace |-> ZeroTime, sess |-> s]
<1>1. /\ new \in Live
      /\ heap[id] = None
      /\ heap' = [heap EXCEPT ![id] = new]
      /\ byTunnel' = (ByTunnelGC \ {ByHostGC[h]}) \cup {id}
      /\ byHost' = [ByHostGC EXCEPT ![h] = id]
      /\ now' = now
  BY DEF Allocate, Live, ZeroTime
<1>2. id \notin byTunnel /\ id # None
  BY <1>1 DEF RegInv, RegTypeOK
<1>3. heap' \in [TunnelIds -> Live \cup {None}] /\ heap'[id] = new
  BY <1>1 DEF RegInv, RegTypeOK
<1>4. \A other \in byTunnel : heap'[other] = heap[other]
  BY <1>1, <1>2 DEF RegInv, RegTypeOK
<1>5. RegTypeOK'
  BY <1>1, <1>2, <1>3, <1>4, AfterGC DEF RegInv, RegTypeOK
<1>6. MapsAgree'
  <2>1. byHost'[h] = id /\ \A g \in Hosts \ {h} : byHost'[g] = ByHostGC[g]
    BY <1>1, AfterGC
  <2>2. ASSUME NEW other \in byTunnel', other # id
        PROVE  byHost'[heap'[other].host] = other
    <3>1. other \in ByTunnelGC /\ other # ByHostGC[h] /\ other \in byTunnel
      BY <1>1, <2>2, AfterGC
    <3>2. heap'[other] = heap[other] /\ heap[other].host \in Hosts
      BY <1>4, <3>1, LiveObject DEF Live, RegInv
    <3>3. ByHostGC[heap[other].host] = other
      BY <3>1, AfterGC
    <3>4. heap[other].host # h
      BY <3>1, <3>3
    <3> QED
      BY <2>1, <3>2, <3>3, <3>4
  <2>3. byHost'[heap'[id].host] = id
    BY <1>3, <2>1
  <2>4. ASSUME NEW g \in Hosts, g # h, byHost'[g] # None
        PROVE  byHost'[g] \in byTunnel' /\ heap'[byHost'[g]].host = g
    <3>1. byHost'[g] = ByHostGC[g] /\ ByHostGC[g] \in ByTunnelGC
          /\ heap[ByHostGC[g]].host = g
      BY <2>1, <2>4, AfterGC
    <3>2. ByHostGC[g] # ByHostGC[h]
      BY <2>4, <3>1, AfterGC
    <3> QED
      BY <1>1, <1>4, <3>1, <3>2, AfterGC
  <2>5. byHost'[h] \in byTunnel' /\ heap'[byHost'[h]].host = h
    BY <1>1, <1>3, <2>1
  <2> QED
    BY <2>2, <2>3, <2>4, <2>5 DEF MapsAgree
<1>7. \A other \in byTunnel' : other # id => other \in byTunnel
  BY <1>1, AfterGC
<1>8. BoundToOwner'
  BY <1>3, <1>4, <1>7 DEF RegInv, BoundToOwner, Bound
<1>9. GraceBounded'
  BY <1>1, <1>2, <1>3, <1>4, <1>7 DEF RegInv, GraceBounded, Bound
<1> QED
  BY <1>5, <1>6, <1>8, <1>9 DEF RegInv

LEMMA AllocateFailsRegInv ==
    ASSUME RegInv, NEW s \in Sessions, NEW sub \in Subdomains,
           AllocateFails(s, sub)
    PROVE  RegInv'
<1> USE DEF AllocateFails, RegInv
<1>1. RegTypeOK'
  BY AfterGC DEF RegTypeOK
<1>2. MapsAgree'
  BY AfterGC DEF MapsAgree
<1>3. BoundToOwner' /\ GraceBounded'
  BY AfterGC DEF BoundToOwner, GraceBounded, Bound
<1> QED
  BY <1>1, <1>2, <1>3

LEMMA ReleaseRegInv ==
    ASSUME RegInv, NEW id, Release(id)
    PROVE  RegInv'
<1> USE DEF RegInv
<1>1. CASE id \in byTunnel
  <2>1. /\ byTunnel' = byTunnel \ {id}
        /\ byHost' = [byHost EXCEPT ![heap[id].host] = None]
        /\ heap' = heap /\ now' = now
    BY <1>1 DEF Release
  <2>2. RegTypeOK'
    BY <2>1 DEF RegTypeOK
  <2>3. heap[id].host \in Hosts /\ byHost[heap[id].host] = id
    BY <1>1, LiveObject DEF Live, MapsAgree
  <2>4. byHost'[heap[id].host] = None
        /\ \A g \in Hosts \ {heap[id].host} : byHost'[g] = byHost[g]
    BY <2>1, <2>3 DEF RegTypeOK
  <2>5. \A other \in byTunnel' : /\ other \in byTunnel
                                 /\ heap[other].host \in Hosts
                                 /\ heap[other].host # heap[id].host
    BY <2>1, <2>3, LiveObject DEF MapsAgree, Live
  <2>6. MapsAgree'
    BY <2>1, <2>3, <2>4, <2>5 DEF MapsAgree
  <2>7. BoundToOwner' /\ GraceBounded'
    BY <2>1 DEF BoundToOwner, GraceBounded, Bound
  <2> QED
    BY <2>2, <2>6, <2>7
<1>2. CASE id \notin byTunnel
  BY <1>2 DEF Release, regVars, RegTypeOK, MapsAgree, BoundToOwner, GraceBounded, Bound
<1> QED
  BY <1>1, <1>2

LEMMA DisconnectSessionRegInv ==
    ASSUME RegInv, NEW s \in Sessions, DisconnectSession(s)
    PROVE  RegInv'
<1> USE RegistryAssumption DEF RegInv
<1> DEFINE dropped(id) == [heap[id] EXCEPT
                             !.sess = None,
                             !.grace = IF heap[id].persist THEN ZeroTime
                                                           ELSE now + Grace]
<1>1. /\ heap' = [id \in TunnelIds |->
                    IF id \in byTunnel /\ heap[id].sess = s THEN dropped(id)
                                                            ELSE heap[id]]
      /\ byTunnel' = byTunnel /\ byHost' = byHost /\ now' = now
  BY DEF DisconnectSession
<1>2. \A id \in byTunnel : /\ dropped(id) \in Live
                           /\ dropped(id).host = heap[id].host
                           /\ dropped(id).user = heap[id].user
                           /\ dropped(id).persist = heap[id].persist
                           /\ dropped(id).sess = None
                           /\ ~heap[id].persist => dropped(id).grace = now + Grace
  <2> SUFFICES ASSUME NEW id \in byTunnel
               PROVE  /\ dropped(id) \in Live
                      /\ dropped(id).host = heap[id].host
                      /\ dropped(id).user = heap[id].user
                      /\ dropped(id).persist = heap[id].persist
                      /\ dropped(id).sess = None
                      /\ ~heap[id].persist => dropped(id).grace = now + Grace
    OBVIOUS
  <2> DEFINE until == IF heap[id].persist THEN ZeroTime ELSE now + Grace
  <2>1. until \in Nat /\ (~heap[id].persist => until = now + Grace)
    BY DEF ZeroTime, RegTypeOK
  <2>2. heap[id] \in Live
    BY LiveObject
  <2>3. dropped(id) = Bind(heap[id], None, until)
    BY DEF Bind
  <2> HIDE DEF until, dropped
  <2>4. /\ Bind(heap[id], None, until) \in Live
        /\ Bind(heap[id], None, until).host = heap[id].host
        /\ Bind(heap[id], None, until).user = heap[id].user
        /\ Bind(heap[id], None, until).persist = heap[id].persist
        /\ Bind(heap[id], None, until).sess = None
        /\ Bind(heap[id], None, until).grace = until
    BY <2>1, <2>2, BindKeeps
  <2> QED
    BY <2>1, <2>3, <2>4
<1>3. \A id \in byTunnel : /\ id \in TunnelIds
                           /\ heap'[id] = IF heap[id].sess = s THEN dropped(id)
                                                               ELSE heap[id]
  BY <1>1, LiveObject
<1> HIDE DEF dropped
<1>4. RegTypeOK'
  BY <1>1, <1>2 DEF RegTypeOK
<1>5. MapsAgree'
  BY <1>1, <1>2, <1>3 DEF MapsAgree
<1>6. BoundToOwner'
  BY <1>1, <1>2, <1>3 DEF BoundToOwner, Bound
<1>7. now + Grace \in 1 .. (now' + Grace)
  BY <1>1 DEF RegTypeOK
<1>8. GraceBounded'
  BY <1>1, <1>2, <1>3, <1>7 DEF GraceBounded, Bound
<1> QED
  BY <1>4, <1>5, <1>6, <1>8

LEMMA RebindRegInv ==
    ASSUME RegInv, NEW id \in TunnelIds, NEW s \in Sessions, Rebind(id, s)
    PROVE  RegInv'
<1> USE RegistryAssumption DEF RegInv
<1> DEFINE bound == [heap[id] EXCEPT !.sess = s, !.grace = ZeroTime]
<1>1. /\ id \in byTunnel
      /\ heap[id].user = UserOf[s]
      /\ heap' = [heap EXCEPT ![id] = bound]
      /\ byTunnel' = byTunnel /\ byHost' = byHost /\ now' = now
  BY DEF Rebind
<1>2. /\ bound \in Live
      /\ bound.host = heap[id].host
      /\ bound.user = heap[id].user
      /\ bound.sess = s
  BY <1>1, LiveObject DEF Live, ZeroTime
<1>3. heap'[id] = bound /\ \A other \in byTunnel : other # id => heap'[other] = heap[other]
  BY <1>1 DEF RegTypeOK
<1> HIDE DEF bound
<1>4. RegTypeOK'
  BY <1>1, <1>2, <1>3 DEF RegTypeOK
<1>5. MapsAgree'
  BY <1>1, <1>2, <1>3 DEF MapsAgree
<1>6. BoundToOwner' /\ GraceBounded'
  BY <1>1, <1>2, <1>3 DEF BoundToOwner, GraceBounded, Bound
<1> QED
  BY <1>4, <1>5, <1>6

LEMMA TickRegInv ==
    ASSUME RegInv, Tick
    PROVE  RegInv'
<1> USE RegistryAssumption DEF RegInv, Tick
<1>1. RegTypeOK' /\ MapsAgree' /\ BoundToOwner'
  BY DEF RegTypeOK, MapsAgree, BoundToOwner, Bound
<1>2. GraceBounded'
  BY DEF RegTypeOK, GraceBounded, Bound
<1> QED
  BY <1>1, <1>2

LEMMA StutterRegInv ==
    ASSUME RegInv, UNCHANGED regVars
    PROVE  RegInv'
BY DEF regVars, RegInv, RegTypeOK, MapsAgree, BoundToOwner, GraceBounded, Bound

LEMMA NextRegInv ==
    ASSUME RegInv, [RegNext]_regVars
    PROVE  RegInv'
<1>1. ASSUME NEW s \in Sessions, NEW sub \in Subdomains, NEW p \in BOOLEAN,
             NEW h \in Hosts, NEW id \in TunnelIds, Allocate(s, sub, p, h, id)
      PROVE  RegInv'
  BY <1>1, AllocateRegInv
<1>2. ASSUME NEW s \in Sessions, NEW sub \in Subdomains, AllocateFails(s, sub)
      PROVE  RegInv'
  BY <1>2, AllocateFailsRegInv
<1>3. ASSUME NEW id \in TunnelIds, Release(id)
      PROVE  RegInv'
  BY <1>3, ReleaseRegInv
<1>4. ASSUME NEW s \in Sessions, DisconnectSession(s)
      PROVE  RegInv'
  BY <1>4, DisconnectSessionRegInv
<1>5. ASSUME NEW id \in TunnelIds, NEW s \in Sessions, Rebind(id, s)
      PROVE  RegInv'
  BY <1>5, RebindRegInv
<1>6. CASE Tick
  BY <1>6, TickRegInv
<1>7. CASE UNCHANGED regVars
  BY <1>7, StutterRegInv
<1> QED
  BY <1>1, <1>2, <1>3, <1>4, <1>5, <1>6, <1>7 DEF RegNext

-----------------------------------------------------------------------------
(* In every behaviour of the registry, for any number of users, sessions,  *)
(* hostnames and tunnels, the inductive invariant holds.                   *)
THEOREM RegistryInvariant == RegSpec => []RegInv
<1>1. RegInit => RegInv
  BY InitRegInv
<1>2. RegInv /\ [RegNext]_regVars => RegInv'
  BY NextRegInv
<1> QED
  BY <1>1, <1>2, PTL DEF RegSpec

(* Both maps only ever refer to allocated objects.                         *)
THEOREM RegistryTypes == RegSpec => []RegTypeOK
<1>1. RegInv => RegTypeOK
  BY DEF RegInv
<1> QED
  BY <1>1, RegistryInvariant, PTL

(* byHost and byTunnel never come to disagree.                             *)
THEOREM RegistryMapsAgree == RegSpec => []MapsAgree
<1>1. RegInv => MapsAgree
  BY DEF RegInv
<1> QED
  BY <1>1, RegistryInvariant, PTL

(* No tunnel is ever bound to another user's session.                      *)
THEOREM RegistryBoundToOwner == RegSpec => []BoundToOwner
<1>1. RegInv => BoundToOwner
  BY DEF RegInv
<1> QED
  BY <1>1, RegistryInvariant, PTL

(* Every reservation that can end has a deadline within the grace time.    *)
THEOREM RegistryGraceBounded == RegSpec => []GraceBounded
<1>1. RegInv => GraceBounded
  BY DEF RegInv
<1> QED
  BY <1>1, RegistryInvariant, PTL

-----------------------------------------------------------------------------
(* The collection leaves every reserved hostname where it points, and      *)
(* frees every other one.                                                  *)
LEMMA GCSparesReserved ==
    ASSUME RegInv, NEW h \in Hosts
    PROVE  /\ Reserved(h) => ByHostGC[h] = byHost[h]
           /\ ~Reserved(h) => ByHostGC[h] = None
<1>1. byHost[h] # None => byHost[h] \in byTunnel /\ heap[byHost[h]].host = h
  BY DEF RegInv, MapsAgree
<1>2. CASE Reserved(h)
  <2>1. \A id \in Garbage : heap[id].host # h
    BY <1>2 DEF Reserved, Garbage, RegInv, MapsAgree
  <2> QED
    BY <1>2, <2>1 DEF ByHostGC
<1>3. CASE ~Reserved(h)
  BY <1>1, <1>3 DEF Reserved, Garbage, ByHostGC
<1> QED
  BY <1>2, <1>3

KeepsOwner(h) ==
    byHost'[h] # None /\ heap'[byHost'[h]].user = heap[byHost[h]].user

LEMMA StepKeepsOwner ==
    ASSUME RegInv, [RegNext]_regVars,
           NEW h \in Hosts, Reserved(h), ~Release(byHost[h])
    PROVE  KeepsOwner(h)
<1> USE RegistryAssumption DEF RegInv, KeepsOwner
<1> DEFINE own == byHost[h]
<1>1. own # None /\ own \in byTunnel /\ own \in TunnelIds /\ heap[own].host = h
  BY LiveObject DEF Reserved, MapsAgree
<1>2. ASSUME NEW s \in Sessions, NEW sub \in Subdomains, NEW p \in BOOLEAN,
             NEW g \in Hosts, NEW id \in TunnelIds, Allocate(s, sub, p, g, id)
      PROVE  KeepsOwner(h)
  <2>1. ByHostGC[h] = own
    BY GCSparesReserved
  <2>2. id # own /\ id # None
    BY <1>1, <1>2 DEF Allocate, RegTypeOK
  <2>3. /\ heap'[own] = heap[own]
        /\ heap'[id].user = UserOf[s]
        /\ byHost' = [ByHostGC EXCEPT ![g] = id]
    BY <1>1, <1>2, <2>2 DEF Allocate, RegTypeOK
  <2>4. CASE g = h
    <3>1. Reclaimable(UserOf[s], h)
      BY <1>1, <1>2, <2>1, <2>4 DEF Allocate, PickHost, Free
    <3> QED
      BY <2>1, <2>2, <2>3, <2>4, <3>1, AfterGC DEF Reclaimable
  <2>5. CASE g # h
    BY <1>1, <2>1, <2>3, <2>5, AfterGC
  <2> QED
    BY <2>4, <2>5
<1>3. ASSUME NEW s \in Sessions, NEW sub \in Subdomains, AllocateFails(s, sub)
      PROVE  KeepsOwner(h)
  BY <1>1, <1>3, GCSparesReserved DEF AllocateFails
<1>4. ASSUME NEW id \in TunnelIds, Release(id)
      PROVE  KeepsOwner(h)
  <2>1. id # own
    BY <1>4
  <2>2. id \in byTunnel => heap[id].host # h /\ heap[id].host \in Hosts
    BY <2>1, LiveObject DEF MapsAgree, Live
  <2> QED
    BY <1>1, <1>4, <2>2 DEF Release, regVars, RegTypeOK
<1>5. ASSUME NEW s \in Sessions, DisconnectSession(s)
      PROVE  KeepsOwner(h)
  <2>1. heap'[own].user = heap[own].user
    BY <1>1, <1>5, LiveObject DEF DisconnectSession, Live
  <2> QED
    BY <1>1, <1>5, <2>1 DEF DisconnectSession
<1>6. ASSUME NEW id \in TunnelIds, NEW s \in Sessions, Rebind(id, s)
      PROVE  KeepsOwner(h)
  <2>1. heap'[own].user = heap[own].user
    BY <1>1, <1>6, LiveObject DEF Rebind, Live, RegTypeOK
  <2> QED
    BY <1>1, <1>6, <2>1 DEF Rebind
<1>7. CASE Tick
  BY <1>1, <1>7 DEF Tick
<1>8. CASE UNCHANGED regVars
  BY <1>1, <1>8 DEF regVars
<1> QED
  BY <1>2, <1>3, <1>4, <1>5, <1>6, <1>7, <1>8 DEF RegNext

(* An object keeps its owner for ever, and an id that has left byTunnel    *)
(* does not come back.                                                     *)
LEMMA ObjectsPersist ==
    ASSUME RegInv, [RegNext]_regVars, NEW id \in TunnelIds, heap[id] # None
    PROVE  /\ heap'[id] # None
           /\ heap'[id].user = heap[id].user
           /\ id \in byTunnel' => id \in byTunnel
<1> USE RegistryAssumption DEF RegInv
<1> DEFINE Same == /\ heap'[id] # None
                   /\ heap'[id].user = heap[id].user
                   /\ id \in byTunnel' => id \in byTunnel
<1>0. heap[id] \in Live
  BY DEF RegTypeOK
<1>1. ASSUME NEW s \in Sessions, NEW sub \in Subdomains, NEW p \in BOOLEAN,
             NEW h \in Hosts, NEW new \in TunnelIds, Allocate(s, sub, p, h, new)
      PROVE  Same
  <2>1. new # id
    BY <1>1 DEF Allocate
  <2> QED
    BY <1>1, <2>1, AfterGC DEF Allocate, RegTypeOK
<1>2. ASSUME NEW s \in Sessions, NEW sub \in Subdomains, AllocateFails(s, sub)
      PROVE  Same
  BY <1>2, AfterGC DEF AllocateFails
<1>3. ASSUME NEW other \in TunnelIds, Release(other)
      PROVE  Same
  BY <1>3 DEF Release, regVars
<1>4. ASSUME NEW s \in Sessions, DisconnectSession(s)
      PROVE  Same
  <2>1. \A t \in Nat : Bind(heap[id], None, t) \in Live
                      /\ Bind(heap[id], None, t).user = heap[id].user
    BY <1>0, BindKeeps
  <2>2. \E t \in Nat : heap'[id] = heap[id] \/ heap'[id] = Bind(heap[id], None, t)
    <3>1. (IF heap[id].persist THEN ZeroTime ELSE now + Grace) \in Nat
      BY DEF ZeroTime, RegTypeOK
    <3> QED
      BY <1>4, <3>1 DEF DisconnectSession, Bind
  <2> QED
    BY <1>0, <1>4, <2>1, <2>2 DEF DisconnectSession
<1>5. ASSUME NEW other \in TunnelIds, NEW s \in Sessions, Rebind(other, s)
      PROVE  Same
  <2>1. heap'[id] = heap[id] \/ heap'[id] = Bind(heap[id], s, ZeroTime)
    BY <1>5 DEF Rebind, Bind, RegTypeOK
  <2>2. /\ Bind(heap[id], s, ZeroTime) \in Live
        /\ Bind(heap[id], s, ZeroTime).user = heap[id].user
    BY <1>0, BindKeeps DEF ZeroTime
  <2> QED
    BY <1>0, <1>5, <2>1, <2>2 DEF Rebind
<1>6. CASE Tick
  BY <1>6 DEF Tick
<1>7. CASE UNCHANGED regVars
  BY <1>7 DEF regVars
<1> QED
  BY <1>1, <1>2, <1>3, <1>4, <1>5, <1>6, <1>7 DEF RegNext

(* No step but the release of its tunnel takes a reserved hostname from    *)
(* its owner.                                                              *)
THEOREM RegistryReservationHeld == RegSpec => ReservationHeld
<1>1. RegInv /\ [RegNext]_regVars =>
        [\A h \in Hosts :
           Reserved(h) /\ ~Release(byHost[h]) =>
             byHost'[h] # None /\ heap'[byHost'[h]].user = heap[byHost[h]].user]_regVars
  BY StepKeepsOwner DEF KeepsOwner
<1> QED
  BY <1>1, RegistryInvariant, PTL DEF RegSpec, ReservationHeld
=============================================================================
