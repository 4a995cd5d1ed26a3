------------------------------ MODULE Gateway ------------------------------
(***************************************************************************)
(* gateway/server.go: what runs concurrently around the registry.          *)
(*                                                                         *)
(*  - one handler goroutine per tunnel session (serveSession): it replaces *)
(*    an older session of the same device, serves the control stream, and  *)
(*    cleans up when the stream ends;                                      *)
(*  - one handler goroutine per public request (handlePublic): it looks    *)
(*    the hostname up, takes a connection slot of the tunnel's user        *)
(*    (internal/limits/conns.go), and proxies over a data stream.          *)
(*                                                                         *)
(* A handler's program counter names the call it makes next; each mutex    *)
(* section, registry method or Close is one step.  The daemons and the     *)
(* network are the environment: they connect, send control messages and    *)
(* drop connections at any time.                                           *)
(***************************************************************************)
EXTENDS Registry

CONSTANTS Clients,     \* client (device) ids
          ClientOf,    \* Session.ClientID()
          LeastTunnels, MaxTunnels, \* each user's quota of tunnels: the lowest
                       \* and the highest that the store ever answers
          LeastConns, MaxConns, \* the same of public connections, with the
                       \* default that a failed read stands for
          Requests     \* goroutines serving public requests

OpenTunnel == [type : {"open"}, subdomain : Subdomains, persist : BOOLEAN]
CloseTunnel == [type : {"close"}, id : TunnelIds]
Message == OpenTunnel \cup CloseTunnel

Route == [id : TunnelIds, user : Users, sess : Sessions]

(* Quotas are read at every check, and changed at any time.                *)
TunnelQuotas(u) == LeastTunnels[u]..MaxTunnels[u]
ConnQuotas(u) == LeastConns[u]..MaxConns[u]

ASSUME GatewayAssumption ==
    /\ ClientOf \in [Sessions -> Clients]
    \* a client certificate names one device of one user
    /\ \A s, t \in Sessions : ClientOf[s] = ClientOf[t] => UserOf[s] = UserOf[t]
    /\ LeastTunnels \in [Users -> Nat \ {0}] /\ MaxTunnels \in [Users -> Nat \ {0}]
    /\ LeastConns \in [Users -> Nat \ {0}] /\ MaxConns \in [Users -> Nat \ {0}]
    /\ IsFiniteSet(Requests)
    /\ None \notin Message \cup Route

VARIABLES sessions,  \* Server.sessions: client id -> its latest session, or None
          pc,        \* pc[s]: where the handler of session s is
          prev,      \* prev[s]: serveSession's local prev
          up,        \* up[s]: the connection of s is open
          ctrl,      \* ctrl[s]: next message on the control stream, or None
          rpc,       \* rpc[r]: where the handler of public request r is
          route,     \* route[r]: handlePublic's locals alloc and sess, or None
          cur        \* Conns.cur: slots taken, by user

sessVars == <<sessions, pc, prev, up, ctrl>>
reqVars == <<rpc, route, cur>>
vars == <<regVars, sessVars, reqVars>>

Init == /\ RegInit
        /\ sessions = [c \in Clients |-> None]
        /\ pc = [s \in Sessions |-> "new"]
        /\ prev = [s \in Sessions |-> None]
        /\ up = [s \in Sessions |-> FALSE]
        /\ ctrl = [s \in Sessions |-> None]
        /\ rpc = [r \in Requests |-> "idle"]
        /\ route = [r \in Requests |-> None]
        /\ cur = [u \in Users |-> 0]

Goto(s, here, next) == pc[s] = here /\ pc' = [pc EXCEPT ![s] = next]

-----------------------------------------------------------------------------
(* serveSession: a device has connected (TLS and CheckDevice passed).      *)

(* Its entry of s.sessions is empty: install the session at once.          *)
ServeFirst(s) ==
    /\ sessions[ClientOf[s]] = None
    /\ Goto(s, "new", "serve")
    /\ up' = [up EXCEPT ![s] = TRUE]
    /\ sessions' = [sessions EXCEPT ![ClientOf[s]] = s]
    /\ UNCHANGED <<regVars, prev, ctrl, reqVars>>

(* There is an older session: remember it and release the mutex.           *)
FindPrevious(s) ==
    /\ sessions[ClientOf[s]] # None
    /\ Goto(s, "new", "disconnectPrev")
    /\ up' = [up EXCEPT ![s] = TRUE]
    /\ prev' = [prev EXCEPT ![s] = sessions[ClientOf[s]]]
    /\ UNCHANGED <<regVars, sessions, ctrl, reqVars>>

DisconnectPrev(s) ==
    /\ Goto(s, "disconnectPrev", "closePrev")
    /\ DisconnectSession(prev[s])
    /\ UNCHANGED <<sessions, prev, up, ctrl, reqVars>>

\* Mutant: the replaced session is not closed.
ClosePrevForgotten(s) ==
    /\ Goto(s, "closePrev", "install")
    /\ UNCHANGED <<regVars, sessions, prev, up, ctrl, reqVars>>

ClosePrev(s) ==
    /\ Goto(s, "closePrev", "install")
    /\ up' = [up EXCEPT ![prev[s]] = FALSE]
    /\ UNCHANGED <<regVars, sessions, prev, ctrl, reqVars>>

(* Install the session over whatever the entry holds by now.               *)
Install(s) ==
    /\ Goto(s, "install", "serve")
    /\ sessions' = [sessions EXCEPT ![ClientOf[s]] = s]
    /\ prev' = [prev EXCEPT ![s] = None]
    /\ UNCHANGED <<regVars, up, ctrl, reqVars>>

-----------------------------------------------------------------------------
(* The control loop.  The message being handled stays in ctrl until its    *)
(* handler returns; Hello and KeepAlive are echoed and change nothing.     *)

Done(s) == ctrl' = [ctrl EXCEPT ![s] = None]

\* Mutant: off by one.
CheckQuotaOffByOne(s) ==
    /\ ctrl[s] \in OpenTunnel
    /\ \E quota \in TunnelQuotas(UserOf[s]) : CountForUser(UserOf[s]) <= quota
    /\ Goto(s, "serve", "allocate")
    /\ UNCHANGED <<regVars, sessions, prev, up, ctrl, reqVars>>

(* openTunnel: the quota check ... *)
CheckQuota(s) ==
    /\ ctrl[s] \in OpenTunnel
    /\ \E quota \in TunnelQuotas(UserOf[s]) : CountForUser(UserOf[s]) < quota
    /\ Goto(s, "serve", "allocate")
    /\ UNCHANGED <<regVars, sessions, prev, up, ctrl, reqVars>>

OverQuota(s) ==
    /\ pc[s] = "serve"
    /\ ctrl[s] \in OpenTunnel
    /\ \E quota \in TunnelQuotas(UserOf[s]) : CountForUser(UserOf[s]) >= quota
    /\ Done(s)
    /\ UNCHANGED <<regVars, sessions, pc, prev, up, reqVars>>

(* The user cannot be read: an error without the request's number.         *)
QuotaUnread(s) ==
    /\ pc[s] = "serve"
    /\ ctrl[s] \in OpenTunnel
    /\ Done(s)
    /\ UNCHANGED <<regVars, sessions, pc, prev, up, reqVars>>

(* ... and then the allocation. *)
OpenAllocated(s) ==
    /\ Goto(s, "allocate", "serve")
    /\ \E h \in Hosts, id \in TunnelIds :
          Allocate(s, ctrl[s].subdomain, ctrl[s].persist, h, id)
    /\ Done(s)
    /\ UNCHANGED <<sessions, prev, up, reqVars>>

OpenRefused(s) ==
    /\ Goto(s, "allocate", "serve")
    /\ AllocateFails(s, ctrl[s].subdomain)
    /\ Done(s)
    /\ UNCHANGED <<sessions, prev, up, reqVars>>

\* Mutant: the owner is not checked.
CloseAnything(s) ==
    /\ ctrl[s] \in CloseTunnel
    /\ Goto(s, "serve", "release")
    /\ UNCHANGED <<regVars, sessions, prev, up, ctrl, reqVars>>

(* CloseTunnel: GetTunnel finds no tunnel or one of the same user. *)
CloseAllowed(s) ==
    /\ ctrl[s] \in CloseTunnel
    /\ ctrl[s].id \in byTunnel => heap[ctrl[s].id].user = UserOf[s]
    /\ Goto(s, "serve", "release")
    /\ UNCHANGED <<regVars, sessions, prev, up, ctrl, reqVars>>

CloseNotOwned(s) ==
    /\ pc[s] = "serve"
    /\ ctrl[s] \in CloseTunnel
    /\ ctrl[s].id \in byTunnel /\ heap[ctrl[s].id].user # UserOf[s]
    /\ Done(s)
    /\ UNCHANGED <<regVars, sessions, pc, prev, up, reqVars>>

CloseReleased(s) ==
    /\ Goto(s, "release", "serve")
    /\ Release(ctrl[s].id)
    /\ Done(s)
    /\ UNCHANGED <<sessions, prev, up, reqVars>>

\* Mutant: the loop goes on after a read error.
ReadFailsContinues(s) ==
    /\ ~up[s] /\ pc[s] = "serve"
    /\ Done(s)
    /\ UNCHANGED <<regVars, sessions, pc, prev, up, reqVars>>

(* ReadEnvelope fails: the connection is closed, with or without a last    *)
(* message still buffered; or the daemon ended the control stream or sent  *)
(* a bad frame, and the connection is still open.                          *)
ReadFails(s) ==
    /\ ~up[s]
    /\ Goto(s, "serve", "disconnect")
    /\ Done(s)
    /\ UNCHANGED <<regVars, sessions, prev, up, reqVars>>

ControlEnds(s) ==
    /\ up[s] /\ ctrl[s] = None
    /\ Goto(s, "serve", "disconnect")
    /\ UNCHANGED <<regVars, sessions, prev, up, ctrl, reqVars>>

\* Mutant: a replaced session leaves its tunnels to its successor, which
\* has disconnected them already.
DisconnectIfLatest(s) ==
    /\ Goto(s, "disconnect", "forget")
    /\ IF sessions[ClientOf[s]] = s THEN DisconnectSession(s) ELSE UNCHANGED regVars
    /\ UNCHANGED <<sessions, prev, up, ctrl, reqVars>>

(* The deferred clean-up. *)
Disconnect(s) ==
    /\ Goto(s, "disconnect", "forget")
    /\ DisconnectSession(s)
    /\ UNCHANGED <<sessions, prev, up, ctrl, reqVars>>

\* Mutant: the entry is deleted whichever session it names.
ForgetAnyone(s) ==
    /\ Goto(s, "forget", "close")
    /\ sessions' = [sessions EXCEPT ![ClientOf[s]] = None]
    /\ UNCHANGED <<regVars, prev, up, ctrl, reqVars>>

\* Mutant: the entry stays.
ForgetNothing(s) ==
    /\ Goto(s, "forget", "close")
    /\ UNCHANGED <<regVars, sessions, prev, up, ctrl, reqVars>>

Forget(s) ==
    /\ Goto(s, "forget", "close")
    /\ sessions' = IF sessions[ClientOf[s]] = s
                   THEN [sessions EXCEPT ![ClientOf[s]] = None]
                   ELSE sessions
    /\ UNCHANGED <<regVars, prev, up, ctrl, reqVars>>

Close(s) ==
    /\ Goto(s, "close", "done")
    /\ up' = [up EXCEPT ![s] = FALSE]
    /\ UNCHANGED <<regVars, sessions, prev, ctrl, reqVars>>

(* One step of the handler of session s. *)
Handler(s) ==
    \/ DisconnectPrev(s) \/ ClosePrev(s) \/ Install(s)
    \/ CheckQuota(s) \/ OverQuota(s) \/ QuotaUnread(s) \/ OpenAllocated(s) \/ OpenRefused(s)
    \/ CloseAllowed(s) \/ CloseNotOwned(s) \/ CloseReleased(s)
    \/ ReadFails(s) \/ Disconnect(s) \/ Forget(s) \/ Close(s)

-----------------------------------------------------------------------------
(* The environment of the sessions: a daemon writes a control message (one *)
(* unread message at a time is enough, handlers take them in order), or a  *)
(* connection breaks.  The ids a daemon may close are those ever handed    *)
(* out; it opens a tunnel only while TunnelIds, the bound on the number of *)
(* allocations, has an id left for it.                                     *)
Running(s) == pc[s] \notin {"new", "disconnect", "forget", "close", "done"}

Send(s, m) ==
    /\ up[s] /\ Running(s) /\ ctrl[s] = None
    /\ m \in CloseTunnel => heap[m.id] # None
    /\ m \in OpenTunnel =>
          Cardinality({t \in Sessions : ctrl[t] \in OpenTunnel})
            < Cardinality({id \in TunnelIds : heap[id] = None})
    /\ ctrl' = [ctrl EXCEPT ![s] = m]
    /\ UNCHANGED <<regVars, sessions, pc, prev, up, reqVars>>

Drop(s) ==
    /\ up[s]
    /\ up' = [up EXCEPT ![s] = FALSE]
    /\ UNCHANGED <<regVars, sessions, pc, prev, ctrl, reqVars>>

-----------------------------------------------------------------------------
(* handlePublic, once per request; r is reused when it has ended.          *)

LookupHost(r, h) ==
    /\ rpc[r] = "idle"
    /\ Routed(h)
    /\ rpc' = [rpc EXCEPT ![r] = "acquire"]
    /\ LET a == byHost[h]
       IN  route' = [route EXCEPT ![r] =
                       [id |-> a, user |-> heap[a].user, sess |-> heap[a].sess]]
    /\ UNCHANGED <<regVars, sessVars, cur>>

(* Conns.Acquire *)
Acquire(r) ==
    /\ rpc[r] = "acquire"
    /\ \E quota \in ConnQuotas(route[r].user) : cur[route[r].user] < quota
    /\ cur' = [cur EXCEPT ![route[r].user] = @ + 1]
    /\ rpc' = [rpc EXCEPT ![r] = "openStream"]
    /\ UNCHANGED <<regVars, sessVars, route>>

TooMany(r) ==
    /\ rpc[r] = "acquire"
    /\ \E quota \in ConnQuotas(route[r].user) : cur[route[r].user] >= quota
    /\ rpc' = [rpc EXCEPT ![r] = "idle"]
    /\ route' = [route EXCEPT ![r] = None]
    /\ UNCHANGED <<regVars, sessVars, cur>>

(* OpenDataStream and WritePreamble succeed on an open connection. *)
OpenStream(r) ==
    /\ rpc[r] = "openStream"
    /\ up[route[r].sess]
    /\ rpc' = [rpc EXCEPT ![r] = "forward"]
    /\ UNCHANGED <<regVars, sessVars, route, cur>>

\* Mutant: the slot is kept when no stream could be opened.
ReturnKeepsSlot(r) ==
    /\ rpc[r] \in {"openStream", "forward"}
    /\ cur' = IF rpc[r] = "forward"
              THEN [cur EXCEPT ![route[r].user] = @ - 1]
              ELSE cur
    /\ rpc' = [rpc EXCEPT ![r] = "idle"]
    /\ route' = [route EXCEPT ![r] = None]
    /\ UNCHANGED <<regVars, sessVars>>

\* Mutant: the slot is released on the error path and by the defer.
ReturnReleasesTwice(r) ==
    /\ rpc[r] \in {"openStream", "forward"}
    /\ cur' = [cur EXCEPT ![route[r].user] = @ - 2]
    /\ rpc' = [rpc EXCEPT ![r] = "idle"]
    /\ route' = [route EXCEPT ![r] = None]
    /\ UNCHANGED <<regVars, sessVars>>

(* The deferred release of the slot, at every return after Acquire: no     *)
(* stream could be opened, the preamble could not be written, or           *)
(* ForwardRequest has returned.                                            *)
Return(r) ==
    /\ rpc[r] \in {"openStream", "forward"}
    /\ cur' = [cur EXCEPT ![route[r].user] = @ - 1]
    /\ rpc' = [rpc EXCEPT ![r] = "idle"]
    /\ route' = [route EXCEPT ![r] = None]
    /\ UNCHANGED <<regVars, sessVars>>

-----------------------------------------------------------------------------
Time == Tick /\ UNCHANGED <<sessVars, reqVars>>

Next ==
    \/ \E s \in Sessions : \/ ServeFirst(s) \/ FindPrevious(s)
                           \/ Handler(s) \/ ControlEnds(s) \/ Drop(s)
    \/ \E s \in Sessions, m \in Message : Send(s, m)
    \/ \E r \in Requests, h \in Hosts : LookupHost(r, h)
    \/ \E r \in Requests : Acquire(r) \/ TooMany(r) \/ OpenStream(r) \/ Return(r)
    \/ Time

Spec == Init /\ [][Next]_vars

(* A handler goroutine that can take a step is eventually scheduled;       *)
(* nothing is assumed of daemons, networks or visitors.                    *)
Fairness == \A s \in Sessions : WF_vars(Handler(s))

FairSpec == Spec /\ Fairness

-----------------------------------------------------------------------------
(* Types, with what a handler relies on at each point: the control loop    *)
(* knows the message it is handling, a newcomer whom it replaces, a public *)
(* request where it was routed to.                                         *)
SessionTypes ==
    /\ sessions \in [Clients -> Sessions \cup {None}]
    /\ pc \in [Sessions -> {"new", "disconnectPrev", "closePrev", "install",
                           "serve", "allocate", "release",
                           "disconnect", "forget", "close", "done"}]
    /\ prev \in [Sessions -> Sessions \cup {None}]
    /\ up \in [Sessions -> BOOLEAN]
    /\ ctrl \in [Sessions -> Message \cup {None}]
    /\ \A s \in Sessions :
          /\ pc[s] \in {"disconnectPrev", "closePrev", "install"} => prev[s] \in Sessions
          /\ pc[s] = "allocate" => ctrl[s] \in OpenTunnel
          /\ pc[s] = "release" => ctrl[s] \in CloseTunnel

RequestTypes ==
    /\ rpc \in [Requests -> {"idle", "acquire", "openStream", "forward"}]
    /\ route \in [Requests -> Route \cup {None}]
    /\ \A r \in Requests : rpc[r] # "idle" => route[r] \in Route
    /\ cur \in [Users -> Nat]

(* Types of the gateway's own state; in particular a user's slot count never *)
(* falls below zero.                                                       *)
GatewayTypeOK == SessionTypes /\ RequestTypes

(* A hostname is routed only to a session whose handler will still run     *)
(* DisconnectSession: even a replaced session whose handler allocates      *)
(* after its successor disconnected it leaves nothing behind.              *)
BoundSessionsServe ==
    \A id \in byTunnel : Bound(id) =>
        pc[heap[id].sess] \in {"serve", "allocate", "release", "disconnect"}

(* s.sessions never names a session that has cleaned up, nor a session of  *)
(* another device; so a newcomer never waits on, or disconnects, a ghost.  *)
SessionsLive ==
    \A c \in Clients : sessions[c] # None =>
        /\ ClientOf[sessions[c]] = c
        /\ pc[sessions[c]] \in {"serve", "allocate", "release", "disconnect", "forget"}

(* A device's entry is emptied only by the session it names: the late      *)
(* clean-up of a replaced session leaves its successor registered.         *)
EntryOutlivesOthers ==
    [][\A c \in Clients : sessions[c] # None /\ sessions'[c] = None =>
          pc[sessions[c]] = "forget" /\ pc'[sessions[c]] = "close"]_vars

(* A connected tunnel leaves the registry only when a session of its own   *)
(* user asked to close that very tunnel: no other user's message, no stale *)
(* tunnel id of the same hostname, no collection removes it.               *)
ClosedByOwner ==
    [][\A id \in byTunnel : Bound(id) /\ id \notin byTunnel' =>
          \E s \in Sessions : /\ pc[s] = "release" /\ ctrl[s].id = id
                              /\ UserOf[s] = heap[id].user]_vars

(* The quota check and the allocation are two steps, so the quota can be   *)
(* exceeded, but only by as many tunnels as the user has other sessions    *)
(* that hold a tunnel or are opening one: a user with one session never    *)
(* exceeds it.  The quota is the highest the user has had: lowering it     *)
(* closes no tunnel.                                                       *)
Opening(u) == {s \in Sessions : UserOf[s] = u /\ pc[s] = "allocate"}

Holding(u) == {s \in Sessions : UserOf[s] = u /\ \E id \in byTunnel : heap[id].sess = s}

QuotaSlack ==
    \A u \in Users :
        CountForUser(u) + Cardinality(Opening(u))
          <= MaxTunnels[u] - 1 + Cardinality(Opening(u) \cup Holding(u))

(* A user's taken slots are exactly the requests between Acquire and their *)
(* return, so no failure path loses a slot, and never above the highest    *)
(* quota the user has had.                                                 *)
ConnsExact ==
    \A u \in Users :
        /\ cur[u] <= MaxConns[u]
        /\ cur[u] = Cardinality({r \in Requests :
                        rpc[r] \in {"openStream", "forward"} /\ route[r].user = u})

(* The session a newcomer replaces comes to an end.                        *)
ReplacedEnds ==
    \A s, p \in Sessions : prev[s] = p ~> pc[p] = "done"

(* Every hostname still bound to a session whose connection is gone is     *)
(* unbound in the end, even if the session's handler was in the middle of  *)
(* opening a tunnel.                                                       *)
DeadUnbound ==
    \A s \in Sessions :
        (~up[s] /\ \E id \in byTunnel : heap[id].sess = s)
          ~> \A id \in byTunnel : heap[id].sess # s

(* docs/architecture.md:188: max tunnels per user.                         *)
TunnelQuota == \A u \in Users : CountForUser(u) <= MaxTunnels[u]

(* docs/adr/002-tunnel-transport.md:18: a single session per daemon.  Two  *)
(* sessions of one device are served at the same time only while one of    *)
(* them is being replaced.                                                 *)
BeingReplaced(s) ==
    \E t \in Sessions : pc[t] \in {"disconnectPrev", "closePrev"} /\ prev[t] = s

OneSessionPerDevice ==
    \A s, t \in Sessions :
        /\ s # t /\ ClientOf[s] = ClientOf[t]
        /\ pc[s] = "serve" /\ up[s]
        /\ pc[t] = "serve" /\ up[t]
        => BeingReplaced(s) \/ BeingReplaced(t)
=============================================================================
