---------------------------- MODULE GatewayProofs ----------------------------
(***************************************************************************)
(* Proofs about Gateway.  The gateway only touches the registry through    *)
(* its methods, so what RegistryProofs and ReservationProofs show holds of *)
(* the whole gateway.  SessInv, the invariant about session handlers, adds *)
(* to the checked properties that the message a handler acts on is typed   *)
(* by its program counter, and that a tunnel about to be released still    *)
(* belongs to the user who was checked (ReleaseChecked).                   *)
(***************************************************************************)
EXTENDS Gateway, ReservationProofs, FiniteSetTheorems

(* Between GetTunnel and Release the owner cannot change: an id is never   *)
(* given to another object.                                                *)
ReleaseChecked ==
    \A s \in Sessions :
        /\ ctrl[s] \in CloseTunnel => heap[ctrl[s].id] # None
        /\ pc[s] = "release" /\ ctrl[s].id \in byTunnel =>
              heap[ctrl[s].id].user = UserOf[s]

SessInv == SessionTypes /\ ReleaseChecked /\ BoundSessionsServe /\ SessionsLive

Inv == RegInv /\ SessInv

(* The two kinds of control messages are told apart by their type. *)
LEMMA Messages ==
    /\ \A m \in OpenTunnel : /\ m \in Message /\ m \notin CloseTunnel
                             /\ m.subdomain \in Subdomains /\ m.persist \in BOOLEAN
    /\ \A m \in CloseTunnel : m \in Message /\ m \notin OpenTunnel /\ m.id \in TunnelIds
  BY DEF OpenTunnel, CloseTunnel, Message

-----------------------------------------------------------------------------
(* Every step of the gateway is a registry method or leaves it alone.      *)
LEMMA HandlerCallsRegistry ==
    ASSUME SessInv, NEW s \in Sessions, Handler(s)
    PROVE  [RegNext]_regVars
<1> USE DEF SessInv, SessionTypes
<1>1. CASE DisconnectPrev(s)
  <2>1. prev[s] \in Sessions
    BY <1>1 DEF DisconnectPrev, Goto
  <2> QED
    BY <1>1, <2>1 DEF DisconnectPrev, RegNext
<1>2. CASE OpenAllocated(s)
  <2>1. ctrl[s] \in OpenTunnel
    BY <1>2 DEF OpenAllocated, Goto
  <2> QED
    BY <1>2, <2>1, Messages DEF OpenAllocated, RegNext
<1>3. CASE OpenRefused(s)
  <2>1. ctrl[s] \in OpenTunnel
    BY <1>3 DEF OpenRefused, Goto
  <2> QED
    BY <1>3, <2>1, Messages DEF OpenRefused, RegNext
<1>4. CASE CloseReleased(s)
  <2>1. ctrl[s] \in CloseTunnel
    BY <1>4 DEF CloseReleased, Goto
  <2> QED
    BY <1>4, <2>1, Messages DEF CloseReleased, RegNext
<1>5. CASE Disconnect(s)
  BY <1>5 DEF Disconnect, RegNext
<1>6. CASE ClosePrev(s) \/ Install(s) \/ CheckQuota(s) \/ OverQuota(s) \/ QuotaUnread(s)
           \/ CloseAllowed(s) \/ CloseNotOwned(s) \/ ReadFails(s) \/ Forget(s) \/ Close(s)
  BY <1>6 DEF ClosePrev, Install, CheckQuota, OverQuota, QuotaUnread, CloseAllowed,
              CloseNotOwned, ReadFails, Forget, Close
<1> QED
  BY <1>1, <1>2, <1>3, <1>4, <1>5, <1>6 DEF Handler

(* So is every step of the whole gateway. *)
LEMMA NextCallsRegistry ==
    ASSUME SessInv, [Next]_vars
    PROVE  [RegNext]_regVars
<1>1. ASSUME NEW s \in Sessions, Handler(s) PROVE [RegNext]_regVars
  BY <1>1, HandlerCallsRegistry
<1>2. ASSUME NEW s \in Sessions,
             ServeFirst(s) \/ FindPrevious(s) \/ ControlEnds(s) \/ Drop(s)
      PROVE  UNCHANGED regVars
  BY <1>2 DEF ServeFirst, FindPrevious, ControlEnds, Drop
<1>3. ASSUME NEW s \in Sessions, NEW m \in Message, Send(s, m)
      PROVE  UNCHANGED regVars
  BY <1>3 DEF Send
<1>4. ASSUME NEW r \in Requests, NEW h \in Hosts, LookupHost(r, h)
      PROVE  UNCHANGED regVars
  BY <1>4 DEF LookupHost
<1>5. ASSUME NEW r \in Requests, Acquire(r) \/ TooMany(r) \/ OpenStream(r) \/ Return(r)
      PROVE  UNCHANGED regVars
  BY <1>5 DEF Acquire, TooMany, OpenStream, Return
<1>6. CASE Time
  BY <1>6 DEF Time, RegNext
<1>7. CASE UNCHANGED vars
  BY <1>7 DEF vars
<1> QED
  BY <1>1, <1>2, <1>3, <1>4, <1>5, <1>6, <1>7 DEF Next

-----------------------------------------------------------------------------
(* SessionTypes is preserved.                                              *)
LEMMA HandlerTypes ==
    ASSUME SessInv, NEW s \in Sessions, Handler(s)
    PROVE  SessionTypes'
<1> USE GatewayAssumption DEF SessInv, SessionTypes, Goto, Done
<1>1. CASE DisconnectPrev(s)
  BY <1>1 DEF DisconnectPrev
<1>2. CASE ClosePrev(s)
  BY <1>2 DEF ClosePrev
<1>3. CASE Install(s)
  BY <1>3 DEF Install
<1>4. CASE CheckQuota(s)
  BY <1>4 DEF CheckQuota
<1>5. CASE OverQuota(s)
  BY <1>5 DEF OverQuota
<1>6. CASE OpenAllocated(s)
  BY <1>6 DEF OpenAllocated
<1>7. CASE OpenRefused(s)
  BY <1>7 DEF OpenRefused
<1>8. CASE CloseAllowed(s)
  BY <1>8 DEF CloseAllowed
<1>9. CASE CloseNotOwned(s)
  BY <1>9 DEF CloseNotOwned
<1>10. CASE CloseReleased(s)
  BY <1>10 DEF CloseReleased
<1>11. CASE ReadFails(s)
  BY <1>11 DEF ReadFails
<1>12. CASE Disconnect(s)
  BY <1>12 DEF Disconnect
<1>13. CASE Forget(s)
  BY <1>13 DEF Forget
<1>14. CASE Close(s)
  BY <1>14 DEF Close
<1>15. CASE QuotaUnread(s)
  BY <1>15 DEF QuotaUnread
<1> QED
  BY <1>1, <1>2, <1>3, <1>4, <1>5, <1>6, <1>7, <1>8, <1>9, <1>10, <1>11, <1>12,
     <1>13, <1>14, <1>15 DEF Handler

(* ... by the handlers, and by every other step. *)
LEMMA NextTypes ==
    ASSUME SessInv, [Next]_vars
    PROVE  SessionTypes'
<1> USE GatewayAssumption DEF SessInv
<1>1. ASSUME NEW s \in Sessions, Handler(s) PROVE SessionTypes'
  BY <1>1, HandlerTypes
<1>2. ASSUME NEW s \in Sessions, ServeFirst(s) PROVE SessionTypes'
  BY <1>2 DEF ServeFirst, SessionTypes, Goto
<1>3. ASSUME NEW s \in Sessions, FindPrevious(s) PROVE SessionTypes'
  BY <1>3 DEF FindPrevious, SessionTypes, Goto
<1>4. ASSUME NEW s \in Sessions, ControlEnds(s) PROVE SessionTypes'
  BY <1>4 DEF ControlEnds, SessionTypes, Goto
<1>5. ASSUME NEW s \in Sessions, Drop(s) PROVE SessionTypes'
  BY <1>5 DEF Drop, SessionTypes
<1>6. ASSUME NEW s \in Sessions, NEW m \in Message, Send(s, m) PROVE SessionTypes'
  <2>1. ctrl[s] \notin OpenTunnel /\ ctrl[s] \notin CloseTunnel
    BY <1>6, Messages DEF Send
  <2>2. /\ ctrl' = [ctrl EXCEPT ![s] = m]
        /\ UNCHANGED <<sessions, pc, prev, up>>
    BY <1>6 DEF Send
  <2> QED
    BY <2>1, <2>2 DEF SessionTypes
<1>7. ASSUME UNCHANGED sessVars PROVE SessionTypes'
  BY <1>7 DEF sessVars, SessionTypes
<1>8. ASSUME NEW r \in Requests, NEW h \in Hosts, LookupHost(r, h)
      PROVE  UNCHANGED sessVars
  BY <1>8 DEF LookupHost
<1>9. ASSUME NEW r \in Requests, Acquire(r) \/ TooMany(r) \/ OpenStream(r) \/ Return(r)
      PROVE  UNCHANGED sessVars
  BY <1>9 DEF Acquire, TooMany, OpenStream, Return
<1>10. ASSUME Time \/ UNCHANGED vars PROVE UNCHANGED sessVars
  BY <1>10 DEF Time, vars
<1> QED
  BY <1>1, <1>2, <1>3, <1>4, <1>5, <1>6, <1>7, <1>8, <1>9, <1>10 DEF Next

-----------------------------------------------------------------------------
(* ReleaseChecked is preserved: the heap keeps the owner of every object,  *)
(* and a message is only ever replaced by None or by one that Send checks. *)
LEMMA ObjectsKept ==
    ASSUME Inv, [Next]_vars
    PROVE  \A id \in TunnelIds : heap[id] # None =>
              /\ heap'[id] # None
              /\ heap'[id].user = heap[id].user
              /\ id \in byTunnel' => id \in byTunnel
BY NextCallsRegistry, ObjectsPersist DEF Inv

(* A session whose message stays, and that was not checked just now, keeps *)
(* ReleaseChecked. *)
LEMMA CheckedStays ==
    ASSUME Inv, [Next]_vars, NEW t \in Sessions,
           ctrl'[t] = ctrl[t],
           pc'[t] = "release" => pc[t] = "release"
    PROVE  /\ ctrl'[t] \in CloseTunnel => heap'[ctrl'[t].id] # None
           /\ pc'[t] = "release" /\ ctrl'[t].id \in byTunnel' =>
                 heap'[ctrl'[t].id].user = UserOf[t]
<1>1. ctrl[t] \in CloseTunnel => ctrl[t].id \in TunnelIds /\ heap[ctrl[t].id] # None
  BY Messages DEF Inv, SessInv, ReleaseChecked
<1>2. pc[t] = "release" => ctrl[t] \in CloseTunnel
  BY DEF Inv, SessInv, SessionTypes
<1>3. pc[t] = "release" /\ ctrl[t].id \in byTunnel => heap[ctrl[t].id].user = UserOf[t]
  BY DEF Inv, SessInv, ReleaseChecked
<1> QED
  BY <1>1, <1>2, <1>3, ObjectsKept

(* A session without a message satisfies ReleaseChecked. *)
LEMMA NoMessageChecked ==
    ASSUME Inv, NEW t \in Sessions, ctrl'[t] = None, pc'[t] # "release"
    PROVE  /\ ctrl'[t] \in CloseTunnel => heap'[ctrl'[t].id] # None
           /\ pc'[t] = "release" /\ ctrl'[t].id \in byTunnel' =>
                 heap'[ctrl'[t].id].user = UserOf[t]
BY GatewayAssumption, Messages

(* Only CloseAllowed makes a new promise, and it has just checked it. *)
LEMMA NextReleaseChecked ==
    ASSUME Inv, [Next]_vars
    PROVE  ReleaseChecked'
<1> SUFFICES ASSUME NEW t \in Sessions
             PROVE  /\ ctrl'[t] \in CloseTunnel => heap'[ctrl'[t].id] # None
                    /\ pc'[t] = "release" /\ ctrl'[t].id \in byTunnel' =>
                          heap'[ctrl'[t].id].user = UserOf[t]
  BY DEF ReleaseChecked
<1> DEFINE Kept == ctrl'[t] = ctrl[t] /\ (pc'[t] = "release" => pc[t] = "release")
           Cleared == ctrl'[t] = None /\ pc'[t] # "release"
<1>0. SessionTypes
  BY DEF Inv, SessInv
<1>1. CASE Kept
  BY <1>1, CheckedStays
<1>2. CASE Cleared
  BY <1>2, NoMessageChecked
<1>3. ASSUME NEW s \in Sessions, CloseAllowed(s), s = t
      PROVE  /\ ctrl'[t] \in CloseTunnel => heap'[ctrl'[t].id] # None
             /\ pc'[t] = "release" /\ ctrl'[t].id \in byTunnel' =>
                   heap'[ctrl'[t].id].user = UserOf[t]
  BY <1>3 DEF CloseAllowed, Inv, SessInv, ReleaseChecked, regVars
<1>4. ASSUME NEW s \in Sessions, NEW m \in Message, Send(s, m), s = t
      PROVE  /\ ctrl'[t] \in CloseTunnel => heap'[ctrl'[t].id] # None
             /\ pc'[t] = "release" /\ ctrl'[t].id \in byTunnel' =>
                   heap'[ctrl'[t].id].user = UserOf[t]
  <2>1. pc'[t] = pc[t] /\ ctrl[t] = None /\ pc[t] # "release"
    BY <1>0, <1>4, GatewayAssumption, Messages DEF Send, SessionTypes
  <2>2. ctrl'[t] = m /\ heap' = heap
    BY <1>0, <1>4 DEF Send, regVars, SessionTypes
  <2> QED
    BY <1>4, <2>1, <2>2 DEF Send
<1>5. ASSUME NEW s \in Sessions, Handler(s) \/ ControlEnds(s), ~(s = t /\ CloseAllowed(s))
      PROVE  Kept \/ Cleared
  BY <1>0, <1>5 DEF Handler, DisconnectPrev, ClosePrev, Install, CheckQuota, OverQuota, QuotaUnread,
       OpenAllocated, OpenRefused, CloseAllowed, CloseNotOwned, CloseReleased, ReadFails,
       ControlEnds, Disconnect, Forget, Close, Goto, Done, SessionTypes
<1>6. ASSUME NEW s \in Sessions, ServeFirst(s) \/ FindPrevious(s) \/ Drop(s)
      PROVE  Kept
  BY <1>0, <1>6 DEF ServeFirst, FindPrevious, Drop, Goto, SessionTypes
<1>7. ASSUME NEW s \in Sessions, NEW m \in Message, Send(s, m), s # t
      PROVE  Kept
  BY <1>0, <1>7 DEF Send, SessionTypes
<1>8. ASSUME NEW r \in Requests, NEW h \in Hosts, LookupHost(r, h)
      PROVE  Kept
  BY <1>8 DEF LookupHost, sessVars
<1>9. ASSUME NEW r \in Requests, Acquire(r) \/ TooMany(r) \/ OpenStream(r) \/ Return(r)
      PROVE  Kept
  BY <1>9 DEF Acquire, TooMany, OpenStream, Return, sessVars
<1>10. ASSUME Time \/ UNCHANGED vars PROVE Kept
  BY <1>10 DEF Time, vars, sessVars
<1> HIDE DEF Kept, Cleared
<1> QED
  BY <1>1, <1>2, <1>3, <1>4, <1>5, <1>6, <1>7, <1>8, <1>9, <1>10 DEF Next

-----------------------------------------------------------------------------
(* BoundSessionsServe is preserved.  Only OpenAllocated binds a tunnel, to *)
(* a session that serves; only Disconnect leaves the serving points, and   *)
(* it unbinds all the session's tunnels.                                   *)
ServingPoints == {"serve", "allocate", "release", "disconnect"}

BoundTo(s) == \E id \in byTunnel : heap[id].sess = s

(* BoundSessionsServe, said session by session. *)
LEMMA BoundSessions ==
    ASSUME RegTypeOK
    PROVE  BoundSessionsServe <=> \A s \in Sessions : BoundTo(s) => pc[s] \in ServingPoints
<1>1. \A id \in byTunnel : Bound(id) => heap[id].sess \in Sessions
  BY LiveObject DEF Live, Bound
<1>2. \A s \in Sessions : s # None
  BY RegistryAssumption
<1> QED
  BY <1>1, <1>2 DEF BoundSessionsServe, BoundTo, ServingPoints, Bound

(* What the registry methods the gateway calls do to BoundTo.              *)
LEMMA AllocateBinds ==
    ASSUME RegInv, NEW s \in Sessions, NEW sub \in Subdomains, NEW p \in BOOLEAN,
           NEW h \in Hosts, NEW id \in TunnelIds, Allocate(s, sub, p, h, id),
           NEW t \in Sessions, t # s, BoundTo(t)'
    PROVE  BoundTo(t)
<1>1. PICK other \in byTunnel' : heap'[other].sess = t
  BY DEF BoundTo
<1>2. heap'[id].sess = s
  BY DEF Allocate, RegInv, RegTypeOK
<1>3. other # id /\ other \in byTunnel
  BY <1>1, <1>2, AfterGC DEF Allocate
<1>4. heap'[other] = heap[other]
  BY <1>3 DEF Allocate, RegInv, RegTypeOK
<1> QED
  BY <1>1, <1>3, <1>4 DEF BoundTo

(* A refused allocation binds nothing. *)
LEMMA AllocateFailsBinds ==
    ASSUME RegInv, NEW s \in Sessions, NEW sub \in Subdomains, AllocateFails(s, sub),
           NEW t \in Sessions, BoundTo(t)'
    PROVE  BoundTo(t)
BY AfterGC DEF AllocateFails, BoundTo

(* Nor does a release. *)
LEMMA ReleaseBinds ==
    ASSUME NEW id, Release(id), NEW t \in Sessions, BoundTo(t)'
    PROVE  BoundTo(t)
BY DEF Release, BoundTo, regVars

(* DisconnectSession leaves no tunnel bound to its session. *)
LEMMA DisconnectBinds ==
    ASSUME RegInv, NEW s \in Sessions, DisconnectSession(s),
           NEW t \in Sessions, BoundTo(t)'
    PROVE  t # s /\ BoundTo(t)
<1> USE RegistryAssumption
<1>1. PICK id \in byTunnel : heap'[id].sess = t
  BY DEF BoundTo, DisconnectSession
<1>2. id \in TunnelIds /\ heap[id] \in Live
  BY LiveObject DEF RegInv
<1>3. heap[id].sess # s
  <2>1. SUFFICES ASSUME heap[id].sess = s PROVE FALSE
    OBVIOUS
  <2>2. \A u \in Nat : Bind(heap[id], None, u).sess = None
    BY <1>2, BindKeeps
  <2>3. (IF heap[id].persist THEN ZeroTime ELSE now + Grace) \in Nat
    BY DEF ZeroTime, RegInv, RegTypeOK
  <2>4. \E u \in Nat : heap'[id] = Bind(heap[id], None, u)
    BY <1>2, <2>1, <2>3 DEF DisconnectSession, Bind
  <2> QED
    BY <1>1, <2>2, <2>4
<1>4. heap'[id] = heap[id]
  BY <1>2, <1>3 DEF DisconnectSession
<1> QED
  BY <1>1, <1>3, <1>4 DEF BoundTo

(* The step lemma of BoundSessionsServe. *)
LEMMA NextBoundSessions ==
    ASSUME Inv, [Next]_vars
    PROVE  BoundSessionsServe'
<1>0. SessionTypes /\ RegInv /\ RegTypeOK /\ RegTypeOK'
      /\ \A t \in Sessions : BoundTo(t) => pc[t] \in ServingPoints
  <2>1. RegInv'
    BY NextCallsRegistry, NextRegInv DEF Inv
  <2> QED
    BY <2>1, BoundSessions DEF Inv, SessInv, RegInv
<1> SUFFICES ASSUME NEW t \in Sessions, BoundTo(t)'
             PROVE  pc'[t] \in ServingPoints
  <2>1. \A id \in byTunnel' : Bound(id)' => heap'[id].sess \in Sessions
    BY <1>0 DEF RegTypeOK, Live, Bound
  <2> QED
    BY <2>1 DEF BoundSessionsServe, BoundTo, ServingPoints
<1>1. ASSUME NEW s \in Sessions, DisconnectPrev(s) PROVE pc'[t] \in ServingPoints
  <2>1. DisconnectSession(prev[s]) /\ prev[s] \in Sessions /\ pc[s] = "disconnectPrev"
        /\ pc' = [pc EXCEPT ![s] = "closePrev"]
    BY <1>0, <1>1 DEF DisconnectPrev, SessionTypes, Goto
  <2>2. BoundTo(t)
    BY <1>0, <2>1, DisconnectBinds
  <2> QED
    BY <1>0, <2>1, <2>2 DEF ServingPoints, SessionTypes
<1>2. ASSUME NEW s \in Sessions, OpenAllocated(s) PROVE pc'[t] \in ServingPoints
  <2>1. /\ pc[s] = "allocate" /\ pc' = [pc EXCEPT ![s] = "serve"]
        /\ ctrl[s] \in OpenTunnel
        /\ \E h \in Hosts, id \in TunnelIds :
              Allocate(s, ctrl[s].subdomain, ctrl[s].persist, h, id)
    BY <1>0, <1>2 DEF OpenAllocated, SessionTypes, Goto
  <2>2. t # s => BoundTo(t)
    BY <1>0, <2>1, AllocateBinds, Messages
  <2> QED
    BY <1>0, <2>1, <2>2 DEF ServingPoints, SessionTypes
<1>3. ASSUME NEW s \in Sessions, OpenRefused(s) PROVE pc'[t] \in ServingPoints
  <2>1. /\ pc[s] = "allocate" /\ pc' = [pc EXCEPT ![s] = "serve"]
        /\ ctrl[s] \in OpenTunnel /\ AllocateFails(s, ctrl[s].subdomain)
    BY <1>0, <1>3 DEF OpenRefused, SessionTypes, Goto
  <2>2. BoundTo(t)
    BY <1>0, <2>1, AllocateFailsBinds, Messages
  <2> QED
    BY <1>0, <2>1, <2>2 DEF ServingPoints, SessionTypes
<1>4. ASSUME NEW s \in Sessions, CloseReleased(s) PROVE pc'[t] \in ServingPoints
  <2>1. BoundTo(t)
    BY <1>4, ReleaseBinds DEF CloseReleased
  <2> QED
    BY <1>0, <1>4, <2>1 DEF CloseReleased, Goto, ServingPoints, SessionTypes
<1>5. ASSUME NEW s \in Sessions, Disconnect(s) PROVE pc'[t] \in ServingPoints
  <2>1. t # s /\ BoundTo(t)
    BY <1>0, <1>5, DisconnectBinds DEF Disconnect
  <2> QED
    BY <1>0, <1>5, <2>1 DEF Disconnect, Goto, ServingPoints, SessionTypes
<1>6. ASSUME UNCHANGED regVars PROVE BoundTo(t)
  BY <1>6 DEF BoundTo, regVars
<1>7. ASSUME NEW s \in Sessions,
             \/ ClosePrev(s) \/ Install(s) \/ CheckQuota(s) \/ OverQuota(s) \/ QuotaUnread(s)
             \/ CloseAllowed(s) \/ CloseNotOwned(s) \/ ReadFails(s) \/ Forget(s) \/ Close(s)
             \/ ServeFirst(s) \/ FindPrevious(s) \/ ControlEnds(s) \/ Drop(s)
      PROVE  pc'[t] \in ServingPoints
  <2>1. BoundTo(t)
    BY <1>6, <1>7 DEF ClosePrev, Install, CheckQuota, OverQuota, QuotaUnread, CloseAllowed,
         CloseNotOwned, ReadFails, Forget, Close, ServeFirst, FindPrevious, ControlEnds, Drop
  <2> QED
    BY <1>0, <1>7, <2>1 DEF ClosePrev, Install, CheckQuota, OverQuota, QuotaUnread, CloseAllowed,
         CloseNotOwned, ReadFails, Forget, Close, ServeFirst, FindPrevious, ControlEnds, Drop,
         Goto, ServingPoints, SessionTypes
<1>8. ASSUME UNCHANGED <<regVars, sessVars>> \/ (UNCHANGED regVars /\ pc' = pc)
             \/ (Tick /\ UNCHANGED sessVars)
      PROVE  pc'[t] \in ServingPoints
  BY <1>0, <1>6, <1>8 DEF Tick, BoundTo, sessVars
<1>9. ASSUME NEW s \in Sessions, NEW m \in Message, Send(s, m)
      PROVE  pc'[t] \in ServingPoints
  BY <1>8, <1>9 DEF Send
<1>10. ASSUME NEW r \in Requests, NEW h \in Hosts, LookupHost(r, h)
       PROVE  pc'[t] \in ServingPoints
  BY <1>8, <1>10 DEF LookupHost
<1>11. ASSUME NEW r \in Requests, Acquire(r) \/ TooMany(r) \/ OpenStream(r) \/ Return(r)
       PROVE  pc'[t] \in ServingPoints
  BY <1>8, <1>11 DEF Acquire, TooMany, OpenStream, Return
<1>12. ASSUME Time \/ UNCHANGED vars PROVE pc'[t] \in ServingPoints
  BY <1>8, <1>12 DEF Time, vars
<1> QED
  BY <1>1, <1>2, <1>3, <1>4, <1>5, <1>7, <1>9, <1>10, <1>11, <1>12 DEF Next, Handler

-----------------------------------------------------------------------------
(* SessionsLive is preserved: an entry is written by a session that starts *)
(* to serve, and emptied when the session it names forgets itself.         *)
LEMMA NextSessionsLive ==
    ASSUME Inv, [Next]_vars
    PROVE  SessionsLive'
<1> USE GatewayAssumption, RegistryAssumption
<1>0. SessionTypes /\ SessionsLive
  BY DEF Inv, SessInv
<1> USE <1>0 DEF SessionsLive, SessionTypes, Goto
<1>1. ASSUME NEW s \in Sessions, Install(s) PROVE SessionsLive'
  BY <1>1 DEF Install
<1>2. ASSUME NEW s \in Sessions, ServeFirst(s) PROVE SessionsLive'
  BY <1>2 DEF ServeFirst
<1>3. ASSUME NEW s \in Sessions, Forget(s) PROVE SessionsLive'
  <2>1. /\ pc' = [pc EXCEPT ![s] = "close"]
        /\ sessions[ClientOf[s]] = s => sessions' = [sessions EXCEPT ![ClientOf[s]] = None]
        /\ sessions[ClientOf[s]] # s => sessions' = sessions
    BY <1>3 DEF Forget
  <2>2. \A c \in Clients : sessions'[c] # None => sessions'[c] = sessions[c] /\ sessions[c] # s
    BY <2>1
  <2> QED
    BY <2>1, <2>2
<1>4. ASSUME NEW s \in Sessions,
             \/ DisconnectPrev(s) \/ ClosePrev(s) \/ CheckQuota(s) \/ OverQuota(s) \/ QuotaUnread(s)
             \/ OpenAllocated(s) \/ OpenRefused(s) \/ CloseAllowed(s) \/ CloseNotOwned(s)
             \/ CloseReleased(s) \/ ReadFails(s) \/ Disconnect(s) \/ Close(s)
             \/ FindPrevious(s) \/ ControlEnds(s) \/ Drop(s)
      PROVE  SessionsLive'
  <2>1. /\ sessions' = sessions
        /\ \/ pc' = pc
           \/ \E next \in {"serve", "allocate", "release", "disconnect"} :
                 pc' = [pc EXCEPT ![s] = next]
           \/ pc[s] = "disconnect" /\ pc' = [pc EXCEPT ![s] = "forget"]
           \/ /\ pc[s] \in {"new", "disconnectPrev", "closePrev", "close"}
              /\ \E next : pc' = [pc EXCEPT ![s] = next]
    BY <1>4 DEF DisconnectPrev, ClosePrev, CheckQuota, OverQuota, QuotaUnread, OpenAllocated,
       OpenRefused, CloseAllowed, CloseNotOwned, CloseReleased, ReadFails, Disconnect,
       Close, FindPrevious, ControlEnds, Drop
  <2> QED
    BY <2>1
<1>5. ASSUME sessions' = sessions /\ pc' = pc PROVE SessionsLive'
  BY <1>5
<1>6. ASSUME NEW s \in Sessions, NEW m \in Message, Send(s, m) PROVE SessionsLive'
  BY <1>5, <1>6 DEF Send
<1>7. ASSUME NEW r \in Requests, NEW h \in Hosts, LookupHost(r, h) PROVE SessionsLive'
  BY <1>5, <1>7 DEF LookupHost, sessVars
<1>8. ASSUME NEW r \in Requests, Acquire(r) \/ TooMany(r) \/ OpenStream(r) \/ Return(r)
      PROVE  SessionsLive'
  BY <1>5, <1>8 DEF Acquire, TooMany, OpenStream, Return, sessVars
<1>9. ASSUME Time \/ UNCHANGED vars PROVE SessionsLive'
  BY <1>5, <1>9 DEF Time, vars, sessVars
<1> QED
  BY <1>1, <1>2, <1>3, <1>4, <1>6, <1>7, <1>8, <1>9 DEF Next, Handler

-----------------------------------------------------------------------------
(* Inv holds initially. *)
LEMMA InitInv == Init => Inv
<1> SUFFICES ASSUME Init PROVE Inv
  OBVIOUS
<1> USE RegistryAssumption, GatewayAssumption DEF Init
<1>1. RegInv
  BY InitRegInv
<1>2. SessionTypes
  BY DEF SessionTypes
<1>3. ReleaseChecked
  BY Messages DEF ReleaseChecked
<1>4. BoundSessionsServe /\ SessionsLive
  BY DEF BoundSessionsServe, SessionsLive, RegInit
<1> QED
  BY <1>1, <1>2, <1>3, <1>4 DEF Inv, SessInv

(* Every step preserves Inv. *)
LEMMA NextInv ==
    ASSUME Inv, [Next]_vars
    PROVE  Inv'
<1>1. RegInv'
  BY NextCallsRegistry, NextRegInv DEF Inv
<1> QED
  BY <1>1, NextTypes, NextReleaseChecked, NextBoundSessions, NextSessionsLive
     DEF Inv, SessInv

(* The inductive invariant of the gateway's sessions, for any number of    *)
(* devices, sessions, hostnames and tunnels.                               *)
THEOREM GatewayInvariant == Spec => []Inv
<1>1. Init => Inv
  BY InitInv
<1>2. Inv /\ [Next]_vars => Inv'
  BY NextInv
<1> QED
  BY <1>1, <1>2, PTL DEF Spec

(* No hostname is ever routed to a session that has cleaned up.            *)
THEOREM GatewayBoundSessionsServe == Spec => []BoundSessionsServe
<1>1. Inv => BoundSessionsServe
  BY DEF Inv, SessInv
<1> QED
  BY <1>1, GatewayInvariant, PTL

(* s.sessions only names sessions of the device that are still served.     *)
THEOREM GatewaySessionsLive == Spec => []SessionsLive
<1>1. Inv => SessionsLive
  BY DEF Inv, SessInv
<1> QED
  BY <1>1, GatewayInvariant, PTL

(* The handlers of the gateway use the registry as Registry says, so all   *)
(* that is proved of the registry holds in the gateway.                    *)
THEOREM GatewayUsesRegistry == Spec => RegSpec
<1>1. Init => RegInit
  BY DEF Init
<1>2. Inv /\ [Next]_vars => [RegNext]_regVars
  BY NextCallsRegistry DEF Inv
<1> QED
  BY <1>1, <1>2, GatewayInvariant, PTL DEF Spec, RegSpec

(* The whole gateway offers the hostname leases of Reservation.            *)
THEOREM GatewayImplementsReservation == Spec => ReservationsSpec
BY GatewayUsesRegistry, RegistryImplementsReservation, PTL

-----------------------------------------------------------------------------
(* A bound tunnel is removed by CloseReleased only, after the owner check. *)
LEMMA StepClosesOwn ==
    ASSUME Inv, [Next]_vars, NEW id \in byTunnel, Bound(id), id \notin byTunnel'
    PROVE  \E s \in Sessions : /\ pc[s] = "release" /\ ctrl[s].id = id
                               /\ UserOf[s] = heap[id].user
<1>0. ReleaseChecked /\ RegInv
  BY DEF Inv, SessInv
<1>1. id \notin Garbage
  BY DEF Garbage, Expired
<1>2. ASSUME NEW s \in Sessions, CloseReleased(s)
      PROVE  pc[s] = "release" /\ ctrl[s].id = id /\ UserOf[s] = heap[id].user
  BY <1>0, <1>2 DEF CloseReleased, Goto, Release, regVars, ReleaseChecked
<1>3. ASSUME NEW s \in Sessions, OpenAllocated(s) PROVE FALSE
  <2>1. PICK h \in Hosts, new \in TunnelIds :
          Allocate(s, ctrl[s].subdomain, ctrl[s].persist, h, new)
    BY <1>3 DEF OpenAllocated
  <2>2. id = ByHostGC[h]
    BY <1>1, <2>1 DEF Allocate, ByTunnelGC
  <2>3. id # None
    BY <1>0, RegistryAssumption DEF RegInv, RegTypeOK
  <2>4. ~Free(h) /\ ~Reclaimable(UserOf[s], h)
    BY <2>2, <2>3 DEF Free, Reclaimable
  <2> QED
    BY <2>1, <2>4 DEF Allocate, PickHost
<1>4. ASSUME NEW s \in Sessions, OpenRefused(s) PROVE FALSE
  BY <1>1, <1>4 DEF OpenRefused, AllocateFails, ByTunnelGC
<1>5. ASSUME byTunnel' = byTunnel PROVE FALSE
  BY <1>5
<1>6. ASSUME NEW s \in Sessions, DisconnectPrev(s) \/ Disconnect(s) PROVE FALSE
  BY <1>5, <1>6 DEF DisconnectPrev, Disconnect, DisconnectSession
<1>7. ASSUME UNCHANGED regVars PROVE FALSE
  BY <1>5, <1>7 DEF regVars
<1>8. ASSUME NEW s \in Sessions,
             \/ ClosePrev(s) \/ Install(s) \/ CheckQuota(s) \/ OverQuota(s) \/ QuotaUnread(s)
             \/ CloseAllowed(s) \/ CloseNotOwned(s) \/ ReadFails(s) \/ Forget(s) \/ Close(s)
             \/ ServeFirst(s) \/ FindPrevious(s) \/ ControlEnds(s) \/ Drop(s)
      PROVE  FALSE
  BY <1>7, <1>8 DEF ClosePrev, Install, CheckQuota, OverQuota, QuotaUnread, CloseAllowed,
       CloseNotOwned, ReadFails, Forget, Close, ServeFirst, FindPrevious, ControlEnds, Drop
<1>9. ASSUME NEW s \in Sessions, NEW m \in Message, Send(s, m) PROVE FALSE
  BY <1>7, <1>9 DEF Send
<1>10. ASSUME NEW r \in Requests, NEW h \in Hosts, LookupHost(r, h) PROVE FALSE
  BY <1>7, <1>10 DEF LookupHost
<1>11. ASSUME NEW r \in Requests, Acquire(r) \/ TooMany(r) \/ OpenStream(r) \/ Return(r)
       PROVE  FALSE
  BY <1>7, <1>11 DEF Acquire, TooMany, OpenStream, Return
<1>12. ASSUME Time \/ UNCHANGED vars PROVE FALSE
  BY <1>5, <1>12 DEF Time, Tick, vars, regVars
<1> QED
  BY <1>2, <1>3, <1>4, <1>6, <1>8, <1>9, <1>10, <1>11, <1>12 DEF Next, Handler

(* Only a session of its own user closes a connected tunnel.               *)
THEOREM GatewayClosedByOwner == Spec => ClosedByOwner
<1>1. Inv /\ [Next]_vars =>
        [\A id \in byTunnel : Bound(id) /\ id \notin byTunnel' =>
           \E s \in Sessions : /\ pc[s] = "release" /\ ctrl[s].id = id
                               /\ UserOf[s] = heap[id].user]_vars
  BY StepClosesOwn
<1> QED
  BY <1>1, GatewayInvariant, PTL DEF Spec, ClosedByOwner

-----------------------------------------------------------------------------
(* Only Forget empties an entry, and only that of the forgetting session.  *)
LEMMA StepEmptiesOwn ==
    ASSUME Inv, [Next]_vars, NEW c \in Clients, sessions[c] # None, sessions'[c] = None
    PROVE  pc[sessions[c]] = "forget" /\ pc'[sessions[c]] = "close"
<1>0. SessionTypes
  BY DEF Inv, SessInv
<1>1. ASSUME NEW s \in Sessions, Forget(s)
      PROVE  pc[sessions[c]] = "forget" /\ pc'[sessions[c]] = "close"
  BY <1>0, <1>1, GatewayAssumption DEF Forget, Goto, SessionTypes
<1>2. ASSUME NEW s \in Sessions, ServeFirst(s) \/ Install(s) PROVE FALSE
  BY <1>0, <1>2, GatewayAssumption, RegistryAssumption
     DEF ServeFirst, Install, SessionTypes
<1>3. ASSUME sessions' = sessions PROVE FALSE
  BY <1>3
<1>4. ASSUME NEW s \in Sessions,
             \/ DisconnectPrev(s) \/ ClosePrev(s) \/ CheckQuota(s) \/ OverQuota(s) \/ QuotaUnread(s)
             \/ OpenAllocated(s) \/ OpenRefused(s) \/ CloseAllowed(s) \/ CloseNotOwned(s)
             \/ CloseReleased(s) \/ ReadFails(s) \/ Disconnect(s) \/ Close(s)
             \/ FindPrevious(s) \/ ControlEnds(s) \/ Drop(s)
      PROVE  FALSE
  BY <1>3, <1>4 DEF DisconnectPrev, ClosePrev, CheckQuota, OverQuota, QuotaUnread, OpenAllocated,
       OpenRefused, CloseAllowed, CloseNotOwned, CloseReleased, ReadFails, Disconnect,
       Close, FindPrevious, ControlEnds, Drop
<1>5. ASSUME NEW s \in Sessions, NEW m \in Message, Send(s, m) PROVE FALSE
  BY <1>3, <1>5 DEF Send
<1>6. ASSUME NEW r \in Requests, NEW h \in Hosts, LookupHost(r, h) PROVE FALSE
  BY <1>3, <1>6 DEF LookupHost, sessVars
<1>7. ASSUME NEW r \in Requests, Acquire(r) \/ TooMany(r) \/ OpenStream(r) \/ Return(r)
      PROVE  FALSE
  BY <1>3, <1>7 DEF Acquire, TooMany, OpenStream, Return, sessVars
<1>8. ASSUME Time \/ UNCHANGED vars PROVE FALSE
  BY <1>3, <1>8 DEF Time, vars, sessVars
<1> QED
  BY <1>1, <1>2, <1>4, <1>5, <1>6, <1>7, <1>8 DEF Next, Handler

(* The clean-up of a replaced session never unregisters its successor.     *)
THEOREM GatewayEntryOutlivesOthers == Spec => EntryOutlivesOthers
<1>1. Inv /\ [Next]_vars =>
        [\A c \in Clients : sessions[c] # None /\ sessions'[c] = None =>
           pc[sessions[c]] = "forget" /\ pc'[sessions[c]] = "close"]_vars
  BY StepEmptiesOwn
<1> QED
  BY <1>1, GatewayInvariant, PTL DEF Spec, EntryOutlivesOthers
=============================================================================
