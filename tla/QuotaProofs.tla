----------------------------- MODULE QuotaProofs -----------------------------
(***************************************************************************)
(* Proofs about the two quotas of a user in Gateway, for any number of     *)
(* sessions, requests and users and any quota.                             *)
(*                                                                         *)
(* Connections: a user's slots are exactly the requests between Acquire    *)
(* and Return.  ConnsExact is inductive together with RequestTypes; a      *)
(* request is routed to a typed session because the registry is typed,     *)
(* which is what GatewayInvariant contributes.                             *)
(*                                                                         *)
(* Tunnels: QuotaSlack is inductive once the sets it counts are known to   *)
(* be finite, by a count of how each step changes the user's tunnels, the  *)
(* sessions opening one and the sessions holding one.                      *)
(***************************************************************************)
EXTENDS GatewayProofs

-----------------------------------------------------------------------------
(* The requests that hold a slot of user u. *)
Holders(u) == {r \in Requests : rpc[r] \in {"openStream", "forward"} /\ route[r].user = u}

ReqInv == RequestTypes /\ ConnsExact

(* Their number is defined. *)
LEMMA HoldersFinite ==
    ASSUME NEW u
    PROVE  IsFiniteSet(Holders(u))
<1>1. Holders(u) \in SUBSET Requests
  BY DEF Holders
<1> QED
  BY <1>1, FS_Subset, GatewayAssumption

(* ConnsExact only depends on the slots and on who holds them.             *)
LEMMA ConnsKept ==
    ASSUME ConnsExact, cur' = cur, \A u \in Users : Holders(u)' = Holders(u)
    PROVE  ConnsExact'
BY DEF ConnsExact, Holders

(* A request that only knows its route holds no slot. *)
LEMMA LookupHostKeeps ==
    ASSUME RegInv, ReqInv, NEW r \in Requests, NEW h \in Hosts, LookupHost(r, h)
    PROVE  ReqInv'
<1>1. byHost[h] \in TunnelIds /\ heap[byHost[h]] \in Live /\ Bound(byHost[h])
  BY LiveObject DEF LookupHost, Routed, RegInv, RegTypeOK, MapsAgree
<1> DEFINE to == [id |-> byHost[h], user |-> heap[byHost[h]].user, sess |-> heap[byHost[h]].sess]
<1>2. to \in Route
  BY <1>1 DEF Live, Route, Bound
<1>3. /\ rpc' = [rpc EXCEPT ![r] = "acquire"]
      /\ route' = [route EXCEPT ![r] = to]
      /\ cur' = cur /\ rpc[r] = "idle"
  BY DEF LookupHost
<1> HIDE DEF to
<1>4. RequestTypes'
  BY <1>2, <1>3 DEF ReqInv, RequestTypes
<1>5. \A u \in Users : Holders(u)' = Holders(u)
  BY <1>3 DEF ReqInv, RequestTypes, Holders
<1> QED
  BY <1>3, <1>4, <1>5, ConnsKept DEF ReqInv

(* Quotas are positive numbers.                                            *)
LEMMA Quotas ==
    \A u \in Users : /\ MaxTunnels[u] \in Nat /\ MaxTunnels[u] >= 1 /\ LeastTunnels[u] \in Nat
                     /\ MaxConns[u] \in Nat /\ MaxConns[u] >= 1 /\ LeastConns[u] \in Nat
<1>1. /\ LeastTunnels \in [Users -> Nat \ {0}] /\ MaxTunnels \in [Users -> Nat \ {0}]
      /\ LeastConns \in [Users -> Nat \ {0}] /\ MaxConns \in [Users -> Nat \ {0}]
  BY GatewayAssumption
<1> QED
  BY <1>1

(* Acquire: one slot more, one holder more. *)
LEMMA AcquireKeeps ==
    ASSUME ReqInv, NEW r \in Requests, Acquire(r)
    PROVE  ReqInv'
<1>1. PICK owner \in Users : owner = route[r].user
  BY DEF Acquire, ReqInv, RequestTypes, Route
<1>2. /\ rpc' = [rpc EXCEPT ![r] = "openStream"] /\ rpc[r] = "acquire"
      /\ cur' = [cur EXCEPT ![owner] = @ + 1] /\ cur[owner] < MaxConns[owner]
      /\ route' = route
  <2>1. PICK quota \in ConnQuotas(owner) : cur[owner] < quota
    BY <1>1 DEF Acquire
  <2>2. MaxConns[owner] \in Nat /\ LeastConns[owner] \in Nat /\ cur[owner] \in Nat
    BY <1>1, Quotas DEF ReqInv, RequestTypes
  <2>3. cur[owner] < MaxConns[owner]
    BY <2>1, <2>2 DEF ConnQuotas
  <2> QED
    BY <1>1, <2>3 DEF Acquire
<1>3. RequestTypes'
  BY <1>1, <1>2 DEF ReqInv, RequestTypes
<1>4. r \notin Holders(owner) /\ Holders(owner)' = Holders(owner) \cup {r}
  BY <1>1, <1>2 DEF Holders, ReqInv, RequestTypes
<1>5. \A u \in Users : u # owner => Holders(u)' = Holders(u)
  BY <1>1, <1>2 DEF Holders, ReqInv, RequestTypes
<1>6. Cardinality(Holders(owner)') = Cardinality(Holders(owner)) + 1
  BY <1>4, HoldersFinite, FS_AddElement
<1>7. \A u \in Users : /\ cur[u] = Cardinality(Holders(u)) /\ cur[u] <= MaxConns[u]
                       /\ cur[u] \in Nat
  BY DEF ReqInv, RequestTypes, ConnsExact, Holders
<1>8. \A u \in Users : cur'[u] = Cardinality(Holders(u)') /\ cur'[u] <= MaxConns[u]
  BY <1>1, <1>2, <1>5, <1>6, <1>7, Quotas DEF ReqInv, RequestTypes
<1>9. ConnsExact'
  BY <1>8 DEF ConnsExact, Holders
<1> QED
  BY <1>3, <1>9 DEF ReqInv

(* Return: one of each less. *)
LEMMA ReturnKeeps ==
    ASSUME ReqInv, NEW r \in Requests, Return(r)
    PROVE  ReqInv'
<1>1. PICK owner \in Users : owner = route[r].user
  BY DEF Return, ReqInv, RequestTypes, Route
<1>2. /\ rpc' = [rpc EXCEPT ![r] = "idle"] /\ rpc[r] \in {"openStream", "forward"}
      /\ cur' = [cur EXCEPT ![owner] = @ - 1]
      /\ route' = [route EXCEPT ![r] = None]
  BY <1>1 DEF Return
<1>3. r \in Holders(owner) /\ Holders(owner)' = Holders(owner) \ {r}
  BY <1>1, <1>2 DEF Holders, ReqInv, RequestTypes
<1>4. \A u \in Users : u # owner => Holders(u)' = Holders(u)
  BY <1>1, <1>2 DEF Holders, ReqInv, RequestTypes
<1>5. /\ Cardinality(Holders(owner)') = Cardinality(Holders(owner)) - 1
      /\ Cardinality(Holders(owner)') \in Nat
  BY <1>3, HoldersFinite, FS_RemoveElement, FS_CardinalityType
<1>6. \A u \in Users : /\ cur[u] = Cardinality(Holders(u)) /\ cur[u] <= MaxConns[u]
                       /\ cur[u] \in Nat
  BY DEF ReqInv, RequestTypes, ConnsExact, Holders
<1>7. \A u \in Users : /\ cur'[u] = Cardinality(Holders(u)') /\ cur'[u] <= MaxConns[u]
                       /\ cur'[u] \in Nat
  BY <1>1, <1>2, <1>4, <1>5, <1>6, Quotas DEF ReqInv, RequestTypes
<1>8. ConnsExact'
  BY <1>7 DEF ConnsExact, Holders
<1>9. RequestTypes'
  BY <1>1, <1>2, <1>7 DEF ReqInv, RequestTypes
<1> QED
  BY <1>8, <1>9 DEF ReqInv

(* A refused request never held a slot. *)
LEMMA TooManyKeeps ==
    ASSUME ReqInv, NEW r \in Requests, TooMany(r)
    PROVE  ReqInv'
<1>1. RequestTypes'
  BY DEF TooMany, ReqInv, RequestTypes
<1>2. \A u \in Users : Holders(u)' = Holders(u)
  BY DEF TooMany, ReqInv, RequestTypes, Holders
<1> QED
  BY <1>1, <1>2, ConnsKept DEF TooMany, ReqInv

(* Opening the stream keeps the slot. *)
LEMMA OpenStreamKeeps ==
    ASSUME ReqInv, NEW r \in Requests, OpenStream(r)
    PROVE  ReqInv'
<1>1. RequestTypes'
  BY DEF OpenStream, ReqInv, RequestTypes
<1>2. \A u \in Users : Holders(u)' = Holders(u)
  BY DEF OpenStream, ReqInv, RequestTypes, Holders
<1> QED
  BY <1>1, <1>2, ConnsKept DEF OpenStream, ReqInv

(* The sessions, the environment and the clock leave the requests alone.   *)
LEMMA OthersKeep ==
    ASSUME ReqInv, UNCHANGED reqVars
    PROVE  ReqInv'
BY DEF ReqInv, RequestTypes, ConnsExact, reqVars

(* No step of a session touches them. *)
LEMMA SessionsLeaveRequests ==
    ASSUME NEW s \in Sessions,
           \/ Handler(s) \/ ServeFirst(s) \/ FindPrevious(s) \/ ControlEnds(s) \/ Drop(s)
           \/ \E m \in Message : Send(s, m)
    PROVE  UNCHANGED reqVars
BY DEF Handler, DisconnectPrev, ClosePrev, Install, CheckQuota, OverQuota, QuotaUnread, OpenAllocated,
       OpenRefused, CloseAllowed, CloseNotOwned, CloseReleased, ReadFails, Disconnect,
       Forget, Close, ServeFirst, FindPrevious, ControlEnds, Drop, Send

(* Every step preserves ReqInv. *)
LEMMA NextReqInv ==
    ASSUME RegInv, ReqInv, [Next]_vars
    PROVE  ReqInv'
<1>1. ASSUME NEW s \in Sessions,
             \/ Handler(s) \/ ServeFirst(s) \/ FindPrevious(s) \/ ControlEnds(s) \/ Drop(s)
             \/ \E m \in Message : Send(s, m)
      PROVE  ReqInv'
  BY <1>1, SessionsLeaveRequests, OthersKeep
<1>2. ASSUME NEW r \in Requests, NEW h \in Hosts, LookupHost(r, h) PROVE ReqInv'
  BY <1>2, LookupHostKeeps
<1>3. ASSUME NEW r \in Requests, Acquire(r) \/ TooMany(r) \/ OpenStream(r) \/ Return(r)
      PROVE  ReqInv'
  BY <1>3, AcquireKeeps, TooManyKeeps, OpenStreamKeeps, ReturnKeeps
<1>4. ASSUME Time \/ UNCHANGED vars PROVE ReqInv'
  BY <1>4, OthersKeep DEF Time, vars
<1> QED
  BY <1>1, <1>2, <1>3, <1>4 DEF Next

(* ReqInv holds initially. *)
LEMMA InitReqInv == Init => ReqInv
<1> SUFFICES ASSUME Init PROVE ReqInv
  OBVIOUS
<1>1. RequestTypes
  BY DEF Init, RequestTypes
<1>2. \A u \in Users : Holders(u) = {}
  BY DEF Init, Holders
<1>3. \A u \in Users : cur[u] = Cardinality(Holders(u)) /\ cur[u] <= MaxConns[u]
  <2> TAKE u \in Users
  <2>1. cur[u] = 0 /\ Cardinality(Holders(u)) = 0
    BY <1>2, FS_EmptySet DEF Init
  <2> QED
    BY <2>1, Quotas
<1> QED
  BY <1>1, <1>3 DEF ReqInv, ConnsExact, Holders

-----------------------------------------------------------------------------
(* A user's taken slots are exactly the requests in progress, and at most  *)
(* the quota, in every reachable state.                                    *)
THEOREM GatewayConnsExact == Spec => []ConnsExact
<1>1. Init => ReqInv
  BY InitReqInv
<1>2. Inv /\ ReqInv /\ [Next]_vars => ReqInv'
  BY NextReqInv DEF Inv
<1>3. ReqInv => ConnsExact
  BY DEF ReqInv
<1> QED
  BY <1>1, <1>2, <1>3, GatewayInvariant, PTL DEF Spec

(* Type correctness of the gateway, the slot counts included.              *)
THEOREM GatewayTypes == Spec => []GatewayTypeOK
<1>1. Init => ReqInv
  BY InitReqInv
<1>2. Inv /\ ReqInv /\ [Next]_vars => ReqInv'
  BY NextReqInv DEF Inv
<1>3. Inv /\ ReqInv => GatewayTypeOK
  BY DEF Inv, SessInv, ReqInv, GatewayTypeOK
<1> QED
  BY <1>1, <1>2, <1>3, GatewayInvariant, PTL DEF Spec

-----------------------------------------------------------------------------
(* The tunnels of user u that CountForUser counts.                         *)
Counted(u) == {id \in byTunnel : heap[id].user = u /\ Bound(id)}

(* QuotaSlack speaks of cardinalities: it needs the sets to be finite.     *)
QuotaInv ==
    /\ IsFiniteSet(byTunnel)
    /\ \A u \in Users : IsFiniteSet(Opening(u))
    /\ QuotaSlack

(* The arithmetic of QuotaSlack, for counted tunnels C, opening sessions O *)
(* and holding sessions H of a user with quota k.                          *)
Slack(C, O, H, k) == Cardinality(C) + Cardinality(O) <= k - 1 + Cardinality(O \cup H)

(* A session below the quota starts opening. *)
LEMMA SlackCheck ==
    ASSUME NEW C, NEW O, NEW H, NEW s, NEW k \in Nat,
           IsFiniteSet(C), IsFiniteSet(O), IsFiniteSet(H), Cardinality(C) < k
    PROVE  IsFiniteSet(O \cup {s}) /\ Slack(C, O \cup {s}, H, k)
<1> DEFINE P == O \cup {s}
<1>1. IsFiniteSet(P)
  BY FS_AddElement
<1> HIDE DEF P
<1>2. IsFiniteSet(P \cup H) /\ P \in SUBSET (P \cup H)
  BY <1>1, FS_Union
<1>3. Cardinality(P) <= Cardinality(P \cup H)
  BY <1>2, FS_Subset
<1>4. Cardinality(C) \in Nat /\ Cardinality(P) \in Nat /\ Cardinality(P \cup H) \in Nat
  BY <1>1, <1>2, FS_CardinalityType
<1>5. Slack(C, P, H, k)
  BY <1>3, <1>4 DEF Slack
<1> QED
  BY <1>1, <1>5 DEF P

(* It gets its tunnel: it opened and now holds. *)
LEMMA SlackAllocated ==
    ASSUME NEW C, NEW O, NEW H, NEW s \in O, NEW id, NEW k \in Nat, id \notin C,
           IsFiniteSet(C), IsFiniteSet(O), IsFiniteSet(H), Slack(C, O, H, k)
    PROVE  Slack(C \cup {id}, O \ {s}, H \cup {s}, k)
<1>1. (O \ {s}) \cup (H \cup {s}) = O \cup H
  OBVIOUS
<1>2. Cardinality(C \cup {id}) = Cardinality(C) + 1
  BY FS_AddElement
<1>3. Cardinality(O \ {s}) = Cardinality(O) - 1
  BY FS_RemoveElement
<1>4. Cardinality(C) \in Nat /\ Cardinality(O) \in Nat /\ Cardinality(O \cup H) \in Nat
  BY FS_Union, FS_CardinalityType
<1>5. Cardinality(C) + Cardinality(O) <= k - 1 + Cardinality(O \cup H)
  BY DEF Slack
<1>6. (Cardinality(C) + 1) + (Cardinality(O) - 1) <= k - 1 + Cardinality(O \cup H)
  BY <1>4, <1>5
<1>7. Cardinality((O \ {s}) \cup (H \cup {s})) = Cardinality(O \cup H)
  BY <1>1, Zenon
<1>8. Cardinality(C \cup {id}) + Cardinality(O \ {s})
        <= k - 1 + Cardinality((O \ {s}) \cup (H \cup {s}))
  BY <1>2, <1>3, <1>6, <1>7, Zenon
<1> QED
  BY <1>8, Zenon DEF Slack

(* It gets none. *)
LEMMA SlackRefused ==
    ASSUME NEW C, NEW O, NEW H, NEW s \in O, NEW k \in Nat,
           IsFiniteSet(C), IsFiniteSet(O), IsFiniteSet(H), Slack(C, O, H, k)
    PROVE  Slack(C, O \ {s}, H, k)
<1> DEFINE U == O \cup H
           V == (O \ {s}) \cup H
<1>1. IsFiniteSet(U) /\ IsFiniteSet(O \ {s}) /\ IsFiniteSet(V)
  BY FS_Union, FS_RemoveElement
<1>2. U \ {s} \in SUBSET V /\ s \in U
  OBVIOUS
<1>3. Cardinality(O \ {s}) = Cardinality(O) - 1
  BY FS_RemoveElement
<1> HIDE DEF U, V
<1>4. Cardinality(U \ {s}) = Cardinality(U) - 1 /\ Cardinality(U \ {s}) <= Cardinality(V)
  BY <1>1, <1>2, FS_RemoveElement, FS_Subset
<1>5. /\ Cardinality(C) \in Nat /\ Cardinality(O) \in Nat
      /\ Cardinality(U) \in Nat /\ Cardinality(V) \in Nat
  BY <1>1, FS_CardinalityType
<1>6. Cardinality(C) + Cardinality(O) <= k - 1 + Cardinality(U)
  BY DEF Slack, U
<1>7. Cardinality(C) + (Cardinality(O) - 1) <= k - 1 + Cardinality(V)
  BY <1>4, <1>5, <1>6
<1> QED
  BY <1>3, <1>7 DEF Slack, V

(* Tunnels are closed or lose their session t: a session that no longer    *)
(* holds a tunnel has lost one.                                            *)
LEMMA SlackDropped ==
    ASSUME NEW C, NEW O, NEW H, NEW D, NEW I, NEW t, NEW k \in Nat,
           D \subseteq C, I \subseteq H, H \ {t} \subseteq I,
           t \in H /\ t \notin I => D # C,
           IsFiniteSet(C), IsFiniteSet(O), IsFiniteSet(H), Slack(C, O, H, k)
    PROVE  Slack(D, O, I, k)
<1> DEFINE U == O \cup H
           V == O \cup I
<1>1. IsFiniteSet(D) /\ Cardinality(D) <= Cardinality(C) /\ (Cardinality(D) = Cardinality(C) => D = C)
  BY D \in SUBSET C, FS_Subset
<1>2. IsFiniteSet(U) /\ IsFiniteSet(I)
  BY I \in SUBSET H, FS_Union, FS_Subset
<1>3. IsFiniteSet(V)
  BY <1>2, FS_Union
<1>4. U \ {t} \in SUBSET V /\ (I = H => U = V)
  OBVIOUS
<1> HIDE DEF U, V
<1>5. Cardinality(U \ {t}) \in {Cardinality(U), Cardinality(U) - 1}
      /\ Cardinality(U \ {t}) <= Cardinality(V)
  BY <1>2, <1>3, <1>4, FS_RemoveElement, FS_Subset
<1>6. /\ Cardinality(C) \in Nat /\ Cardinality(D) \in Nat /\ Cardinality(O) \in Nat
      /\ Cardinality(U) \in Nat /\ Cardinality(V) \in Nat
  BY <1>1, <1>2, <1>3, FS_CardinalityType
<1>7. Cardinality(C) + Cardinality(O) <= k - 1 + Cardinality(U)
  BY DEF Slack, U
<1>8. I = H \/ (t \in H /\ t \notin I)
  OBVIOUS
<1>9. Cardinality(D) + Cardinality(O) <= k - 1 + Cardinality(V)
  <2>1. CASE I = H
    BY <2>1, <1>1, <1>4, <1>6, <1>7
  <2>2. CASE t \in H /\ t \notin I
    <3>1. Cardinality(D) < Cardinality(C)
      BY <2>2, <1>1, <1>6
    <3> QED
      BY <3>1, <1>5, <1>6, <1>7
  <2> QED
    BY <1>8, <2>1, <2>2
<1> QED
  BY <1>9 DEF Slack, V

-----------------------------------------------------------------------------
(* A session holds a tunnel when it is the session of one that is counted  *)
(* for its user, so the holders are finitely many.                         *)
LEMMA HoldingCounted ==
    ASSUME RegInv, NEW u \in Users
    PROVE  Holding(u) = {heap[id].sess : id \in Counted(u)}
<1>1. ASSUME NEW s \in Holding(u) PROVE \E id \in Counted(u) : heap[id].sess = s
  <2>1. PICK id \in byTunnel : heap[id].sess = s
    BY <1>1 DEF Holding
  <2>2. s \in Sessions /\ UserOf[s] = u /\ s # None
    BY <1>1, RegistryAssumption DEF Holding
  <2>3. heap[id].user = u /\ Bound(id)
    BY <2>1, <2>2 DEF Bound, RegInv, BoundToOwner
  <2> QED
    BY <2>1, <2>3 DEF Counted
<1>2. ASSUME NEW id \in Counted(u) PROVE heap[id].sess \in Holding(u)
  <2>1. heap[id].sess \in Sessions /\ id \in byTunnel
    BY <1>2, LiveObject DEF Counted, Bound, Live, RegInv
  <2>2. UserOf[heap[id].sess] = u
    BY <1>2 DEF Counted, RegInv, BoundToOwner
  <2> QED
    BY <2>1, <2>2 DEF Holding
<1> QED
  BY <1>1, <1>2

(* All the sets QuotaSlack counts are finite. *)
LEMMA QuotaSetsFinite ==
    ASSUME RegInv, IsFiniteSet(byTunnel), NEW u \in Users
    PROVE  IsFiniteSet(Counted(u)) /\ IsFiniteSet(Holding(u))
<1>1. IsFiniteSet(Counted(u))
  BY Counted(u) \in SUBSET byTunnel, FS_Subset DEF Counted
<1> DEFINE S == Counted(u)
           T == Holding(u)
           f == [id \in S |-> heap[id].sess]
<1>2. f \in [S -> T] /\ \A t \in T : \E id \in S : f[id] = t
  BY HoldingCounted
<1> HIDE DEF f, S, T
<1>3. f \in Surjection(S, T)
  BY <1>2 DEF Surjection
<1>4. IsFiniteSet(T)
  BY <1>1, <1>3, FS_Surjection DEF S
<1> QED
  BY <1>1, <1>4 DEF T

(* QuotaSlack, said with Slack. *)
LEMMA QuotaSlacks ==
    QuotaSlack <=> \A u \in Users : Slack(Counted(u), Opening(u), Holding(u), MaxTunnels[u])
BY DEF QuotaSlack, Slack, Counted, CountForUser

-----------------------------------------------------------------------------
(* What the registry methods the gateway calls do to the counted tunnels   *)
(* and to the holders of a user.                                           *)

(* A collection takes no bound tunnel, nor does pickHostLocked. *)
LEMMA BoundSurvives ==
    ASSUME RegInv, NEW id \in byTunnel, Bound(id)
    PROVE  /\ id \in ByTunnelGC
           /\ \A u \in Users, sub \in Subdomains, h \in Hosts :
                 h \in PickHost(u, sub) => ByHostGC[h] # id
<1>1. id \in ByTunnelGC
  BY DEF ByTunnelGC, Garbage, Expired
<1>2. id # None
  BY LiveObject, RegistryAssumption DEF RegInv
<1> QED
  BY <1>1, <1>2 DEF PickHost, Free, Reclaimable, Subdomains

(* Allocate: one tunnel more for the caller, who now holds one. *)
LEMMA AllocateCounts ==
    ASSUME RegInv, NEW s \in Sessions, NEW sub \in Subdomains, NEW p \in BOOLEAN,
           NEW h \in Hosts, NEW id \in TunnelIds, Allocate(s, sub, p, h, id),
           NEW u \in Users
    PROVE  /\ id \notin Counted(u)
           /\ Counted(u)' = IF u = UserOf[s] THEN Counted(u) \cup {id} ELSE Counted(u)
           /\ Holding(u)' = IF u = UserOf[s] THEN Holding(u) \cup {s} ELSE Holding(u)
           /\ byTunnel' \subseteq byTunnel \cup {id}
<1> DEFINE new == [host |-> h, user |-> UserOf[s], persist |-> p,
                   grace |-> ZeroTime, sess |-> s]
<1>1. new.user = UserOf[s] /\ new.sess = s /\ s # None
  BY RegistryAssumption
<1>2. /\ heap[id] = None
      /\ heap' = [heap EXCEPT ![id] = new]
      /\ byTunnel' = (ByTunnelGC \ {ByHostGC[h]}) \cup {id}
      /\ h \in PickHost(UserOf[s], sub)
  BY DEF Allocate
<1> HIDE DEF new
<1>3. /\ heap \in [TunnelIds -> Live \cup {None}] /\ byTunnel \subseteq TunnelIds
      /\ id \notin byTunnel
  BY <1>2 DEF RegInv, RegTypeOK
<1>4. heap'[id] = new /\ \A other \in byTunnel : heap'[other] = heap[other]
  BY <1>2, <1>3
<1>5. UserOf[s] \in Users
  BY RegistryAssumption
<1>6. \A other \in byTunnel : Bound(other) => other \in byTunnel'
  BY <1>2, <1>5, BoundSurvives
<1>7. byTunnel' \subseteq byTunnel \cup {id} /\ id \in byTunnel'
  BY <1>2, AfterGC
<1>8. Counted(u)' = IF u = UserOf[s] THEN Counted(u) \cup {id} ELSE Counted(u)
  BY <1>1, <1>3, <1>4, <1>6, <1>7 DEF Counted, Bound
<1>9. ASSUME NEW t \in Sessions, t # s
      PROVE  (\E x \in byTunnel' : heap'[x].sess = t) <=> (\E x \in byTunnel : heap[x].sess = t)
  <2>1. t # None
    BY RegistryAssumption
  <2> QED
    BY <1>1, <1>4, <1>6, <1>7, <1>9, <2>1 DEF Bound
<1>10. \E x \in byTunnel' : heap'[x].sess = s
  BY <1>1, <1>4, <1>7
<1>11. Holding(u)' = IF u = UserOf[s] THEN Holding(u) \cup {s} ELSE Holding(u)
  BY <1>9, <1>10 DEF Holding
<1> QED
  BY <1>3, <1>7, <1>8, <1>11 DEF Counted

(* A refused allocation changes neither. *)
LEMMA AllocateFailsCounts ==
    ASSUME RegInv, NEW s \in Sessions, NEW sub \in Subdomains, AllocateFails(s, sub),
           NEW u \in Users
    PROVE  Counted(u)' = Counted(u) /\ Holding(u)' = Holding(u) /\ byTunnel' \subseteq byTunnel
<1>1. /\ heap' = heap /\ byTunnel' \subseteq byTunnel
      /\ \A id \in byTunnel : Bound(id) => id \in byTunnel'
  BY AfterGC, BoundSurvives DEF AllocateFails
<1>2. Counted(u)' = Counted(u)
  BY <1>1 DEF Counted, Bound
<1>3. Holding(u)' = Holding(u)
  BY <1>1, RegistryAssumption DEF Holding, Bound
<1> QED
  BY <1>1, <1>2, <1>3

(* Counted tunnels and holders only go away, and a session t alone: as the *)
(* last tunnel of t goes, so does one that counts.                         *)
Dropped(u, t) ==
    /\ Counted(u)' \subseteq Counted(u)
    /\ Holding(u)' \subseteq Holding(u)
    /\ Holding(u) \ {t} \subseteq Holding(u)'
    /\ t \in Holding(u) /\ t \notin Holding(u)' => Counted(u)' # Counted(u)

(* Release: the session of the tunnel, if any, may have lost its last one. *)
LEMMA ReleaseCounts ==
    ASSUME RegInv, NEW id \in TunnelIds, Release(id), NEW u \in Users
    PROVE  Dropped(u, heap[id].sess) /\ byTunnel' \subseteq byTunnel
<1>1. CASE id \notin byTunnel
  BY <1>1 DEF Release, regVars, Dropped, Counted, Holding, Bound
<1>2. CASE id \in byTunnel
  <2>1. heap' = heap /\ byTunnel' = byTunnel \ {id}
    BY <1>2 DEF Release
  <2>2. Counted(u)' = Counted(u) \ {id}
    BY <2>1 DEF Counted, Bound
  <2>3. Holding(u)' \subseteq Holding(u) /\ Holding(u) \ {heap[id].sess} \subseteq Holding(u)'
    BY <2>1 DEF Holding
  <2>4. heap[id].sess \in Holding(u) => id \in Counted(u)
    BY <1>2, RegistryAssumption DEF Holding, Counted, Bound, RegInv, BoundToOwner
  <2> QED
    BY <2>1, <2>2, <2>3, <2>4 DEF Dropped
<1> QED
  BY <1>1, <1>2

(* DisconnectSession: all the tunnels of t stop counting. *)
LEMMA DisconnectCounts ==
    ASSUME RegInv, NEW t \in Sessions, DisconnectSession(t), NEW u \in Users
    PROVE  Dropped(u, t) /\ byTunnel' = byTunnel
<1> DEFINE until(id) == IF heap[id].persist THEN ZeroTime ELSE now + Grace
<1>1. /\ heap \in [TunnelIds -> Live \cup {None}] /\ byTunnel \subseteq TunnelIds
      /\ now \in Nat /\ Grace \in Nat
      /\ t # None
  BY RegistryAssumption DEF RegInv, RegTypeOK
<1>2. /\ heap' = [id \in TunnelIds |-> IF id \in byTunnel /\ heap[id].sess = t
                                       THEN Bind(heap[id], None, until(id)) ELSE heap[id]]
      /\ byTunnel' = byTunnel
  BY DEF DisconnectSession, Bind
<1>3. \A id : until(id) \in Nat
  BY <1>1 DEF ZeroTime
<1> HIDE DEF until
<1>4. ASSUME NEW id \in byTunnel, heap[id].sess = t
      PROVE  heap'[id].sess = None /\ heap'[id].user = heap[id].user
  <2>1. heap[id] \in Live
    BY LiveObject DEF RegInv
  <2>2. heap'[id] = Bind(heap[id], None, until(id))
    BY <1>1, <1>2, <1>4
  <2>3. \A n \in Nat : /\ Bind(heap[id], None, n).sess = None
                       /\ Bind(heap[id], None, n).user = heap[id].user
    BY <2>1, BindKeeps, RegistryAssumption
  <2> QED
    BY <1>3, <2>2, <2>3
<1>5. \A id \in byTunnel : heap[id].sess # t => heap'[id] = heap[id]
  BY <1>1, <1>2
<1>6. Counted(u)' = {id \in Counted(u) : heap[id].sess # t}
  BY <1>1, <1>2, <1>4, <1>5 DEF Counted, Bound
<1>7. Holding(u)' = Holding(u) \ {t}
  BY <1>1, <1>2, <1>4, <1>5, RegistryAssumption DEF Holding
<1>8. t \in Holding(u) => \E id \in Counted(u) : heap[id].sess = t
  BY HoldingCounted
<1> QED
  BY <1>2, <1>6, <1>7, <1>8 DEF Dropped

-----------------------------------------------------------------------------
(* A step that opens nothing and drops at most the tunnels of one session, *)
(* or some of them, keeps QuotaInv.                                        *)
LEMMA DroppedKeeps ==
    ASSUME Inv, QuotaInv, byTunnel' \subseteq byTunnel,
           \A u \in Users : Opening(u)' = Opening(u),
           \A u \in Users : \E t : Dropped(u, t)
    PROVE  QuotaInv'
<1>1. IsFiniteSet(byTunnel')
  BY byTunnel' \in SUBSET byTunnel, FS_Subset DEF QuotaInv
<1>2. ASSUME NEW u \in Users
      PROVE  Slack(Counted(u)', Opening(u)', Holding(u)', MaxTunnels[u])
  <2>1. PICK t : Dropped(u, t)
    OBVIOUS
  <2>2. /\ IsFiniteSet(Counted(u)) /\ IsFiniteSet(Holding(u)) /\ IsFiniteSet(Opening(u))
        /\ Slack(Counted(u), Opening(u), Holding(u), MaxTunnels[u])
    BY QuotaSetsFinite, QuotaSlacks DEF QuotaInv, Inv
  <2>3. MaxTunnels[u] \in Nat
    BY Quotas
  <2>4. Slack(Counted(u)', Opening(u), Holding(u)', MaxTunnels[u])
    BY <2>1, <2>2, <2>3, SlackDropped DEF Dropped
  <2> QED
    BY <2>4
<1>3. QuotaSlack'
  BY <1>2 DEF QuotaSlack, Slack, Counted, CountForUser
<1>4. \A u \in Users : IsFiniteSet(Opening(u)')
  BY DEF QuotaInv
<1> QED
  BY <1>1, <1>3, <1>4 DEF QuotaInv

(* In particular one that changes none of the sets.                        *)
LEMMA NothingDropped ==
    ASSUME Inv, QuotaInv, heap' = heap, byTunnel' = byTunnel,
           \A u \in Users : Opening(u)' = Opening(u)
    PROVE  QuotaInv'
<1>1. \A u \in Users : Dropped(u, None)
  BY DEF Dropped, Counted, Holding, Bound
<1> QED
  BY <1>1, DroppedKeeps

(* Only CheckQuota, OpenAllocated and OpenRefused change who is opening.   *)
LEMMA OpeningKept ==
    ASSUME \A s \in Sessions : pc'[s] = "allocate" <=> pc[s] = "allocate"
    PROVE  \A u \in Users : Opening(u)' = Opening(u)
BY DEF Opening

(* CheckQuota: the user is below the quota.                                *)
LEMMA CheckQuotaKeeps ==
    ASSUME Inv, QuotaInv, NEW s \in Sessions, CheckQuota(s)
    PROVE  QuotaInv'
<1>1. /\ pc' = [pc EXCEPT ![s] = "allocate"]
      /\ heap' = heap /\ byTunnel' = byTunnel
      /\ SessionTypes
  BY DEF CheckQuota, Goto, regVars, Inv, SessInv
<1>2. Cardinality(Counted(UserOf[s])) < MaxTunnels[UserOf[s]]
  <2>1. PICK quota \in TunnelQuotas(UserOf[s]) : Cardinality(Counted(UserOf[s])) < quota
    BY DEF CheckQuota, CountForUser, Counted
  <2>2. UserOf[s] \in Users
    BY RegistryAssumption
  <2>3. /\ MaxTunnels[UserOf[s]] \in Nat /\ LeastTunnels[UserOf[s]] \in Nat
        /\ Cardinality(Counted(UserOf[s])) \in Nat
    <3>1. IsFiniteSet(Counted(UserOf[s]))
      BY <2>2, QuotaSetsFinite DEF QuotaInv, Inv
    <3> QED
      BY <2>2, <3>1, Quotas, FS_CardinalityType
  <2> QED
    BY <2>1, <2>3 DEF TunnelQuotas
<1>3. ASSUME NEW u \in Users
      PROVE  /\ IsFiniteSet(Opening(u)')
             /\ Slack(Counted(u)', Opening(u)', Holding(u)', MaxTunnels[u])
  <2>1. /\ IsFiniteSet(Counted(u)) /\ IsFiniteSet(Holding(u)) /\ IsFiniteSet(Opening(u))
        /\ Slack(Counted(u), Opening(u), Holding(u), MaxTunnels[u])
    BY QuotaSetsFinite, QuotaSlacks DEF QuotaInv, Inv
  <2>2. Counted(u)' = Counted(u) /\ Holding(u)' = Holding(u)
    BY <1>1 DEF Counted, Holding, Bound
  <2>3. CASE u = UserOf[s]
    <3>1. Opening(u)' = Opening(u) \cup {s}
      BY <1>1, <2>3 DEF Opening, SessionTypes
    <3>2. MaxTunnels[u] \in Nat /\ Cardinality(Counted(u)) < MaxTunnels[u]
      BY <1>2, <2>3, Quotas
    <3>3. /\ IsFiniteSet(Opening(u) \cup {s})
          /\ Slack(Counted(u), Opening(u) \cup {s}, Holding(u), MaxTunnels[u])
      BY <2>1, <3>2, SlackCheck
    <3> QED
      BY <2>2, <3>1, <3>3
  <2>4. CASE u # UserOf[s]
    <3>1. Opening(u)' = Opening(u)
      BY <1>1, <2>4 DEF Opening, SessionTypes
    <3> QED
      BY <2>1, <2>2, <3>1
  <2> QED
    BY <2>3, <2>4
<1> QED
  BY <1>1, <1>3 DEF QuotaInv, QuotaSlack, Slack, Counted, CountForUser

(* Whoever leaves "allocate" is no longer opening.                         *)
LEMMA OpeningLeft ==
    ASSUME SessionTypes, NEW s \in Sessions, Goto(s, "allocate", "serve"), NEW u \in Users
    PROVE  /\ u = UserOf[s] => s \in Opening(u) /\ Opening(u)' = Opening(u) \ {s}
           /\ u # UserOf[s] => Opening(u)' = Opening(u)
BY DEF SessionTypes, Goto, Opening

(* OpenAllocated: the session opened and now holds a tunnel. *)
LEMMA OpenAllocatedKeeps ==
    ASSUME Inv, QuotaInv, NEW s \in Sessions, OpenAllocated(s)
    PROVE  QuotaInv'
<1>1. /\ RegInv /\ SessionTypes /\ Goto(s, "allocate", "serve")
      /\ ctrl[s].subdomain \in Subdomains /\ ctrl[s].persist \in BOOLEAN
  BY Messages DEF OpenAllocated, Goto, Inv, SessInv, SessionTypes
<1>2. PICK h \in Hosts, id \in TunnelIds :
         Allocate(s, ctrl[s].subdomain, ctrl[s].persist, h, id)
  BY DEF OpenAllocated
<1>3. \A u \in Users :
         /\ id \notin Counted(u)
         /\ Counted(u)' = IF u = UserOf[s] THEN Counted(u) \cup {id} ELSE Counted(u)
         /\ Holding(u)' = IF u = UserOf[s] THEN Holding(u) \cup {s} ELSE Holding(u)
         /\ byTunnel' \subseteq byTunnel \cup {id}
  BY <1>1, <1>2, AllocateCounts
<1>4. IsFiniteSet(byTunnel')
  <2>1. IsFiniteSet(byTunnel \cup {id})
    BY FS_AddElement DEF QuotaInv
  <2>2. byTunnel' \in SUBSET (byTunnel \cup {id})
    BY <1>3, RegistryAssumption
  <2> QED
    BY <2>1, <2>2, FS_Subset
<1>5. ASSUME NEW u \in Users
      PROVE  /\ IsFiniteSet(Opening(u)')
             /\ Slack(Counted(u)', Opening(u)', Holding(u)', MaxTunnels[u])
  <2>1. /\ IsFiniteSet(Counted(u)) /\ IsFiniteSet(Holding(u)) /\ IsFiniteSet(Opening(u))
        /\ Slack(Counted(u), Opening(u), Holding(u), MaxTunnels[u])
    BY QuotaSetsFinite, QuotaSlacks DEF QuotaInv, Inv
  <2>2. CASE u = UserOf[s]
    <3>1. /\ s \in Opening(u) /\ Opening(u)' = Opening(u) \ {s} /\ id \notin Counted(u)
          /\ Counted(u)' = Counted(u) \cup {id} /\ Holding(u)' = Holding(u) \cup {s}
      BY <1>1, <1>3, <2>2, OpeningLeft
    <3>2. MaxTunnels[u] \in Nat
      BY Quotas
    <3>3. Slack(Counted(u) \cup {id}, Opening(u) \ {s}, Holding(u) \cup {s}, MaxTunnels[u])
      BY <2>1, <3>1, <3>2, SlackAllocated
    <3> QED
      BY <2>1, <3>1, <3>3, FS_RemoveElement
  <2>3. CASE u # UserOf[s]
    <3>1. /\ Opening(u)' = Opening(u)
          /\ Counted(u)' = Counted(u) /\ Holding(u)' = Holding(u)
      BY <1>1, <1>3, <2>3, OpeningLeft
    <3> QED
      BY <2>1, <3>1
  <2> QED
    BY <2>2, <2>3
<1> QED
  BY <1>4, <1>5 DEF QuotaInv, QuotaSlack, Slack, Counted, CountForUser

(* OpenRefused: it gave up its place in Opening. *)
LEMMA OpenRefusedKeeps ==
    ASSUME Inv, QuotaInv, NEW s \in Sessions, OpenRefused(s)
    PROVE  QuotaInv'
<1>1. /\ RegInv /\ SessionTypes /\ Goto(s, "allocate", "serve")
      /\ ctrl[s].subdomain \in Subdomains /\ AllocateFails(s, ctrl[s].subdomain)
  BY Messages DEF OpenRefused, Goto, Inv, SessInv, SessionTypes
<1>2. \A u \in Users : Counted(u)' = Counted(u) /\ Holding(u)' = Holding(u)
                       /\ byTunnel' \subseteq byTunnel
  BY <1>1, AllocateFailsCounts
<1>3. IsFiniteSet(byTunnel')
  <2>1. byTunnel' \in SUBSET byTunnel
    BY <1>2, RegistryAssumption
  <2> QED
    BY <2>1, FS_Subset DEF QuotaInv
<1>4. ASSUME NEW u \in Users
      PROVE  /\ IsFiniteSet(Opening(u)')
             /\ Slack(Counted(u)', Opening(u)', Holding(u)', MaxTunnels[u])
  <2>1. /\ IsFiniteSet(Counted(u)) /\ IsFiniteSet(Holding(u)) /\ IsFiniteSet(Opening(u))
        /\ Slack(Counted(u), Opening(u), Holding(u), MaxTunnels[u])
    BY QuotaSetsFinite, QuotaSlacks DEF QuotaInv, Inv
  <2>2. CASE u = UserOf[s]
    <3>1. s \in Opening(u) /\ Opening(u)' = Opening(u) \ {s}
      BY <1>1, <2>2, OpeningLeft
    <3>2. MaxTunnels[u] \in Nat
      BY Quotas
    <3>3. Slack(Counted(u), Opening(u) \ {s}, Holding(u), MaxTunnels[u])
      BY <2>1, <3>1, <3>2, SlackRefused
    <3> QED
      BY <1>2, <2>1, <3>1, <3>3, FS_RemoveElement
  <2>3. CASE u # UserOf[s]
    BY <1>1, <1>2, <2>1, <2>3, OpeningLeft
  <2> QED
    BY <2>2, <2>3
<1> QED
  BY <1>3, <1>4 DEF QuotaInv, QuotaSlack, Slack, Counted, CountForUser

(* The steps that unbind or remove tunnels.                                *)
LEMMA UnbindingKeeps ==
    ASSUME Inv, QuotaInv, NEW s \in Sessions,
           DisconnectPrev(s) \/ Disconnect(s) \/ CloseReleased(s)
    PROVE  QuotaInv'
<1>0. RegInv /\ SessionTypes
  BY DEF Inv, SessInv
<1>1. \A u \in Users : Opening(u)' = Opening(u)
  <2>1. \A t \in Sessions : pc'[t] = "allocate" <=> pc[t] = "allocate"
    BY <1>0 DEF DisconnectPrev, Disconnect, CloseReleased, Goto, SessionTypes
  <2> QED
    BY <2>1, OpeningKept
<1>2. ASSUME NEW t \in Sessions, DisconnectSession(t) PROVE QuotaInv'
  <2>1. byTunnel' \subseteq byTunnel
    BY <1>2 DEF DisconnectSession
  <2>2. \A u \in Users : Dropped(u, t)
    BY <1>0, <1>2, DisconnectCounts
  <2> QED
    BY <1>1, <2>1, <2>2, DroppedKeeps
<1>3. CASE DisconnectPrev(s)
  <2>1. prev[s] \in Sessions /\ DisconnectSession(prev[s])
    BY <1>0, <1>3 DEF DisconnectPrev, Goto, SessionTypes
  <2> QED
    BY <1>2, <2>1
<1>4. CASE Disconnect(s)
  BY <1>2, <1>4 DEF Disconnect
<1>5. CASE CloseReleased(s)
  <2>1. ctrl[s].id \in TunnelIds /\ Release(ctrl[s].id)
    BY <1>0, <1>5, Messages DEF CloseReleased, Goto, SessionTypes
  <2>2. byTunnel' \subseteq byTunnel
    BY <2>1 DEF Release, regVars
  <2>3. \A u \in Users : Dropped(u, heap[ctrl[s].id].sess)
    BY <1>0, <2>1, ReleaseCounts
  <2> QED
    BY <1>1, <2>2, <2>3, DroppedKeeps
<1> QED
  BY <1>3, <1>4, <1>5

(* The other steps.                                                        *)
LEMMA OtherStepsKeep ==
    ASSUME Inv, QuotaInv, [Next]_vars,
           \A s \in Sessions : /\ ~CheckQuota(s) /\ ~OpenAllocated(s) /\ ~OpenRefused(s)
                               /\ ~DisconnectPrev(s) /\ ~Disconnect(s) /\ ~CloseReleased(s)
    PROVE  QuotaInv'
<1>0. SessionTypes
  BY DEF Inv, SessInv
<1> DEFINE Kept == /\ heap' = heap /\ byTunnel' = byTunnel
                   /\ \A t \in Sessions : pc'[t] = "allocate" <=> pc[t] = "allocate"
<1>1. ASSUME NEW s \in Sessions,
             \/ ClosePrev(s) \/ Install(s) \/ OverQuota(s) \/ QuotaUnread(s) \/ CloseAllowed(s) \/ CloseNotOwned(s)
             \/ ReadFails(s) \/ Forget(s) \/ Close(s)
             \/ ServeFirst(s) \/ FindPrevious(s) \/ ControlEnds(s) \/ Drop(s)
      PROVE  Kept
  BY <1>0, <1>1 DEF ClosePrev, Install, OverQuota, QuotaUnread, CloseAllowed, CloseNotOwned, ReadFails,
       Forget, Close, ServeFirst, FindPrevious, ControlEnds, Drop, Goto, regVars, SessionTypes
<1>2. ASSUME NEW s \in Sessions, NEW m \in Message, Send(s, m) PROVE Kept
  BY <1>2 DEF Send, regVars
<1>3. ASSUME NEW r \in Requests, NEW h \in Hosts, LookupHost(r, h) PROVE Kept
  BY <1>3 DEF LookupHost, regVars, sessVars
<1>4. ASSUME NEW r \in Requests, Acquire(r) \/ TooMany(r) \/ OpenStream(r) \/ Return(r)
      PROVE  Kept
  BY <1>4 DEF Acquire, TooMany, OpenStream, Return, regVars, sessVars
<1>5. ASSUME Time \/ UNCHANGED vars PROVE Kept
  BY <1>5 DEF Time, Tick, vars, regVars, sessVars
<1> HIDE DEF Kept
<1>6. Kept
  BY <1>1, <1>2, <1>3, <1>4, <1>5 DEF Next, Handler
<1> QED
  BY <1>6, OpeningKept, NothingDropped DEF Kept

(* Every step preserves QuotaInv. *)
LEMMA NextQuotaInv ==
    ASSUME Inv, QuotaInv, [Next]_vars
    PROVE  QuotaInv'
BY CheckQuotaKeeps, OpenAllocatedKeeps, OpenRefusedKeeps, UnbindingKeeps, OtherStepsKeep

(* QuotaInv holds initially. *)
LEMMA InitQuotaInv == Init => QuotaInv
<1> SUFFICES ASSUME Init PROVE QuotaInv
  OBVIOUS
<1>1. byTunnel = {}
  BY DEF Init, RegInit
<1>2. \A u \in Users : Counted(u) = {} /\ Holding(u) = {} /\ Opening(u) = {}
  BY <1>1 DEF Counted, Holding, Opening, Init
<1>3. \A u \in Users : Cardinality(Counted(u)) = 0 /\ Cardinality(Opening(u)) = 0
                       /\ Cardinality(Opening(u) \cup Holding(u)) = 0
                       /\ IsFiniteSet(Opening(u))
  <2>1. {} \cup {} = {}
    OBVIOUS
  <2> QED
    BY <1>2, <2>1, FS_EmptySet
<1>4. \A u \in Users : MaxTunnels[u] \in Nat /\ MaxTunnels[u] >= 1
  BY Quotas
<1>5. QuotaSlack
  BY <1>3, <1>4 DEF QuotaSlack, Counted, CountForUser
<1> QED
  BY <1>1, <1>3, <1>5, FS_EmptySet DEF QuotaInv

(* A user has more tunnels than the quota only by as many as it has other  *)
(* sessions that opened or are opening one: check and allocation are two   *)
(* steps, but a lone session cannot slip past the check.                   *)
THEOREM GatewayQuotaSlack == Spec => []QuotaSlack
<1>1. Init => QuotaInv
  BY InitQuotaInv
<1>2. Inv /\ QuotaInv /\ [Next]_vars => QuotaInv'
  BY NextQuotaInv
<1>3. QuotaInv => QuotaSlack
  BY DEF QuotaInv
<1> QED
  BY <1>1, <1>2, <1>3, GatewayInvariant, PTL DEF Spec
=============================================================================
