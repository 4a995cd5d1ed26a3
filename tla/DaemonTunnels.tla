--------------------------- MODULE DaemonTunnels ---------------------------
(***************************************************************************)
(* client/daemon.go and client/config.go: the tunnels of the daemon, the   *)
(* specifications of the persistent ones in its configuration, and what    *)
(* opening, closing, a reconnection and a restart do to them, against the  *)
(* gateway's bound hostnames.                                              *)
(*                                                                         *)
(* The user's own entries that no session binds are left out: Allocate     *)
(* gives them back to their owner (Registry).  A refusal for a quota or    *)
(* another user's hostname is like no answer.  A hostname stands for its   *)
(* first label; a random one is the number of its tunnel.  d.local has the *)
(* Local of d.tunnels.  The list of specifications is only ever gone       *)
(* through: it is a set here, and restoreTunnels takes it in any order.    *)
(***************************************************************************)
EXTENDS Naturals, Sequences, Functions

CONSTANTS Openers,     \* requests POST /v1/tunnels, each made once
          Wanted,      \* what each of them asks for: [local, sub, persist]
          Closers,     \* requests DELETE /v1/tunnels/{id}, each made once
          Files,       \* what the configuration may hold when the daemon starts
          Random,      \* the empty subdomain
          MaxSessions, \* bound on sessions
          MaxTunnels,  \* bound on tunnel ids given out
          MaxRestarts  \* bound on restarts of the daemon

ASSUME TunnelsAssumption ==
    /\ MaxSessions \in Nat /\ MaxTunnels \in Nat /\ MaxRestarts \in Nat
    /\ \A p \in Openers : Wanted[p].persist \in BOOLEAN
    /\ \A f \in Files : \A spec \in f : spec = [local |-> spec.local, sub |-> spec.sub]
    \* names of requests, sessions and labels are told apart
    /\ Openers \cap Closers = {} /\ (Openers \cup Closers) \cap Nat = {} /\ Random \notin Nat

Sessions == 1..MaxSessions
Requesters == Openers \cup Closers \cup Sessions \* a session's restoreTunnels goroutine

VARIABLES up,         \* d.connected, and d.control is session n's stream
          hello,      \* d.control is, and its hello is not acknowledged yet
          n,          \* sessions so far
          tunnels,    \* d.tunnels, by tunnel id
          persistent, \* d.cfg.Persistent, and the configuration file
          call,       \* call[p]: the request p waits for
          restore,    \* restore[s]: where restoreTunnels of session s is
          served,     \* sessions that the gateway serves
          bound,      \* its hostnames bound to a session
          msgs,       \* msgs[s]: control messages of session s it has to handle
          given,      \* tunnel ids given out
          restarts    \* restarts of the daemon

daemonVars == <<up, hello, n, restarts>>
stateVars == <<tunnels, persistent>>
gatewayVars == <<served, bound, msgs, given>>
vars == <<daemonVars, stateVars, call, restore, gatewayVars>>

NoAsk == [op |-> "none", local |-> Random, sub |-> Random, persist |-> FALSE, id |-> 0]
NoAck == [id |-> 0, host |-> 0]
Idle == [pc |-> "idle", on |-> 0, ask |-> NoAsk, ack |-> NoAck]
Off == [pc |-> "off", live |-> {}, specs |-> {}, next |-> {}, announced |-> {}, ok |-> TRUE]

Init == /\ up = FALSE /\ hello = FALSE /\ n = 0 /\ restarts = 0
        /\ tunnels = <<>> /\ persistent \in Files
        /\ call = [p \in Requesters |-> Idle]
        /\ restore = [s \in Sessions |-> Off]
        /\ served = {} /\ bound = {} /\ given = 0
        /\ msgs = [s \in Sessions |-> <<>>]

-----------------------------------------------------------------------------
(* Requests on the control stream (DaemonSession has their details).       *)

(* p writes ask to session n's stream and waits.                           *)
Ask(p, ask) ==
    /\ call' = [call EXCEPT ![p] = [pc |-> "wait", on |-> n, ask |-> ask, ack |-> NoAck]]
    /\ msgs' = [msgs EXCEPT ![n] = Append(@, [who |-> p, ask |-> ask])]

Open(w, id) == [op |-> "open", local |-> w.local, sub |-> w.sub, persist |-> w.persist, id |-> id]
Close(t, id) == [op |-> "close", local |-> t.local, sub |-> t.sub, persist |-> t.persist, id |-> id]
Waits(p) == call[p].pc = "wait"
Opened(p) == call[p].pc = "answered" /\ call[p].ack.id # 0
Refused(p) == call[p].pc = "answered" /\ call[p].ack.id = 0
(* What is left of a finished request; what a closer closed is history.    *)
Finished(p) == IF p \in Sessions THEN Idle
               ELSE [Idle EXCEPT !.pc = "returned", !.ask = IF p \in Closers THEN call[p].ask ELSE NoAsk]
Returns(p) == call' = [call EXCEPT ![p] = Finished(p)]

(* The specification under which a persistent tunnel is known.             *)
SpecFor(t) == [local |-> t.local, sub |-> t.sub]

(* A specification is known by its address and its subdomain.              *)
UpsertPersistent(t) == persistent \cup (IF t.persist THEN {SpecFor(t)} ELSE {})

(* installTunnel: the acknowledged tunnel replaces the one it re-announces *)
(* and, persistent, enters the configuration.                              *)
Install(p) ==
    LET c == call[p]
        t == [local |-> c.ask.local, host |-> c.ack.host, sub |-> c.ask.sub,
              persist |-> c.ask.persist, status |-> "active", on |-> c.on]
        kept == DOMAIN tunnels \ {c.ask.id}
    IN /\ tunnels' = [id \in kept \cup {c.ack.id} |-> IF id = c.ack.id THEN t ELSE tunnels[id]]
       /\ persistent' = UpsertPersistent(t)

-----------------------------------------------------------------------------
(* The local API: serveOpen and serveClose.                                *)

OpenAsks(p) ==
    /\ call[p] = Idle /\ up
    /\ Ask(p, Open(Wanted[p], 0))
    /\ UNCHANGED <<daemonVars, stateVars, restore, served, bound, given>>

OpenInstalls(p) ==
    /\ Opened(p)
    /\ Install(p) /\ Returns(p)
    /\ UNCHANGED <<daemonVars, restore, gatewayVars>>

OpenFails(p) ==
    /\ Waits(p) \/ Refused(p)
    /\ Returns(p)
    /\ UNCHANGED <<daemonVars, stateVars, restore, gatewayVars>>

\* Mutant: a specification is forgotten only if it has no subdomain.
RemoveRandom(t) ==
    {spec \in persistent : ~t.persist \/ spec.local # t.local \/ spec.sub # Random}

(* No subdomain matches any: every specification of the address goes.      *)
RemovePersistent(t) ==
    {spec \in persistent : ~t.persist \/ spec.local # t.local \/ t.sub \notin {Random, spec.sub}}

(* The session whose stream d.control is.                                  *)
Control == IF up \/ hello THEN n ELSE 0

(* closeTunnel looks the tunnel and d.control up, ...                      *)
CloseFinds(p) ==
    /\ call[p] = Idle
    /\ \E id \in DOMAIN tunnels :
        call' = [call EXCEPT ![p] = [pc |-> "found", on |-> Control, ask |-> Close(tunnels[id], id), ack |-> NoAck]]
    /\ UNCHANGED <<daemonVars, stateVars, restore, gatewayVars>>

(* ... drops the specification, ...                                        *)
CloseForgets(p) ==
    /\ call[p].pc = "found"
    /\ persistent' = RemovePersistent(call[p].ask)
    /\ call' = [call EXCEPT ![p].pc = "forgot"]
    /\ UNCHANGED <<daemonVars, tunnels, restore, gatewayVars>>

(* ... and tells the gateway, if there was a session.                      *)
CloseAsks(p) ==
    /\ call[p].pc = "forgot" /\ call[p].on = Control /\ Control # 0
    /\ Ask(p, call[p].ask)
    /\ UNCHANGED <<daemonVars, stateVars, restore, served, bound, given>>

CloseDeletes(p) ==
    /\ (call[p].pc = "forgot" /\ call[p].on = 0) \/ Opened(p)
    /\ tunnels' = Restrict(tunnels, DOMAIN tunnels \ {call[p].ask.id})
    /\ Returns(p)
    /\ UNCHANGED <<daemonVars, persistent, restore, gatewayVars>>

(* Not written, or not acknowledged in 8 s.                                *)
CloseFails(p) ==
    /\ Waits(p) \/ (call[p].pc = "forgot" /\ call[p].on # 0)
    /\ Returns(p)
    /\ UNCHANGED <<daemonVars, stateVars, restore, gatewayVars>>

-----------------------------------------------------------------------------
(* restoreTunnels of session s.  It goes on when the session has ended,    *)
(* and asks on whatever session there is.                                  *)

\* Mutant: a tunnel is announced again with the subdomain it was asked with.
AsAsked(id) ==
    [old |-> id, local |-> tunnels[id].local, sub |-> tunnels[id].sub, persist |-> tunnels[id].persist]

(* A tunnel is announced again with the first label of its hostname.       *)
AsNamed(id) ==
    [old |-> id, local |-> tunnels[id].local, sub |-> tunnels[id].host, persist |-> tunnels[id].persist]

(* 50 ms after the hello: what an earlier session has answered by then is  *)
(* installed.                                                              *)
Snapshot(s) ==
    /\ restore[s].pc = "sleep"
    /\ \A p \in Requesters : call[p].pc = "answered" => call[p].on >= s
    /\ restore' = [restore EXCEPT ![s] =
                     [@ EXCEPT !.live = {AsNamed(id) : id \in DOMAIN tunnels}, !.specs = persistent,
                               !.pc = IF DOMAIN tunnels = {} /\ persistent = {} THEN "done" ELSE "run"]]
    /\ UNCHANGED <<daemonVars, stateVars, call, gatewayVars>>

Announce(s) ==
    /\ call[s] = Idle /\ up
    /\ \E e \in restore[s].live :
        /\ Ask(s, Open(e, e.old))
        /\ restore' = [restore EXCEPT ![s].live = @ \ {e}]
    /\ UNCHANGED <<daemonVars, stateVars, served, bound, given>>

Announced(s) ==
    /\ Opened(s) /\ call[s].ask.id # 0
    /\ Install(s) /\ Returns(s)
    /\ restore' = [restore EXCEPT ![s].announced = @ \cup {call[s].ask.local}]
    /\ UNCHANGED <<daemonVars, gatewayVars>>

\* Mutant: a failed announcement is only logged.
StaleOnlyLogged(id) == UNCHANGED tunnels

Stale(id) == tunnels' = [i \in DOMAIN tunnels |->
                           IF i = id THEN [tunnels[i] EXCEPT !.status = "stale"] ELSE tunnels[i]]

(* Not connected, not written, refused or not answered in 10 s.            *)
AnnounceFails(s) ==
    /\ \/ /\ Waits(s) \/ Refused(s)
          /\ call[s].ask.id # 0
          /\ Stale(call[s].ask.id) /\ Returns(s)
          /\ restore' = [restore EXCEPT ![s].ok = FALSE]
       \/ /\ call[s] = Idle /\ UNCHANGED call
          /\ \E e \in restore[s].live :
              /\ Stale(e.old)
              /\ restore' = [restore EXCEPT ![s] = [@ EXCEPT !.live = restore[s].live \ {e}, !.ok = FALSE]]
    /\ UNCHANGED <<daemonVars, persistent, gatewayVars>>

\* Mutant: any tunnel will do.
AlreadyAny(local) == DOMAIN tunnels # {}

Already(local) == \E id \in DOMAIN tunnels : tunnels[id].local = local /\ tunnels[id].persist

(* A specification whose address has been announced, or has a persistent   *)
(* tunnel, is skipped; the others are opened.                              *)
Skips(s, spec) == spec.local \in restore[s].announced \/ Already(spec.local)

NextSpec(s) == restore[s].live = {} /\ restore[s].next = {} /\ call[s] = Idle

SpecSkipped(s) ==
    /\ NextSpec(s)
    /\ \E spec \in restore[s].specs :
        /\ Skips(s, spec)
        /\ restore' = [restore EXCEPT ![s].specs = @ \ {spec}]
    /\ UNCHANGED <<daemonVars, stateVars, call, gatewayVars>>

SpecChosen(s) ==
    /\ NextSpec(s)
    /\ \E spec \in restore[s].specs :
        /\ ~Skips(s, spec)
        /\ restore' = [restore EXCEPT ![s] = [@ EXCEPT !.specs = restore[s].specs \ {spec}, !.next = {spec}]]
    /\ UNCHANGED <<daemonVars, stateVars, call, gatewayVars>>

(* The check's section has been left: there may be such a tunnel by now.   *)
SpecAsks(s) ==
    /\ up
    /\ \E spec \in restore[s].next :
        Ask(s, Open([local |-> spec.local, sub |-> spec.sub, persist |-> TRUE], 0))
    /\ restore' = [restore EXCEPT ![s].next = {}]
    /\ UNCHANGED <<daemonVars, stateVars, served, bound, given>>

SpecRestored(s) ==
    /\ Opened(s) /\ call[s].ask.id = 0
    /\ Install(s) /\ Returns(s)
    /\ UNCHANGED <<daemonVars, restore, gatewayVars>>

SpecFails(s) ==
    /\ \/ (Waits(s) \/ Refused(s)) /\ call[s].ask.id = 0
       \/ restore[s].next # {}
    /\ Returns(s)
    /\ restore' = [restore EXCEPT ![s] = [@ EXCEPT !.next = {}, !.ok = FALSE]]
    /\ UNCHANGED <<daemonVars, stateVars, gatewayVars>>

RestoreEnds(s) ==
    /\ restore[s].pc = "run" /\ NextSpec(s) /\ restore[s].specs = {}
    /\ restore' = [restore EXCEPT ![s].pc = "done"]
    /\ UNCHANGED <<daemonVars, stateVars, call, gatewayVars>>

-----------------------------------------------------------------------------
(* The sessions of the daemon, and its end.                                *)

(* d.control is the stream of a new session; the hello is on its way.      *)
Starts ==
    /\ ~up /\ ~hello /\ n < MaxSessions
    /\ hello' = TRUE /\ n' = n + 1
    /\ UNCHANGED <<up, restarts, stateVars, call, restore, gatewayVars>>

(* The gateway acknowledges the hello of a new session when it has unbound *)
(* the old one's hostnames and closed it: a message it was handling may    *)
(* still be finished.                                                      *)
Handled(s) == IF s = n \/ msgs[s] = <<>> THEN msgs[s] ELSE <<Head(msgs[s])>>

Connect ==
    /\ hello /\ hello' = FALSE /\ up' = TRUE
    /\ served' = served \cup {n}
    /\ bound' = {}
    /\ msgs' = [s \in Sessions |-> Handled(s)]
    /\ restore' = [restore EXCEPT ![n].pc = "sleep"]
    /\ UNCHANGED <<n, restarts, stateVars, call, given>>

Lost ==
    /\ up \/ hello
    /\ up' = FALSE /\ hello' = FALSE
    /\ UNCHANGED <<n, restarts, stateVars, call, restore, gatewayVars>>

(* The daemon is stopped and started: what it has is in its file.          *)
Restart ==
    /\ restarts < MaxRestarts /\ restarts' = restarts + 1
    /\ up' = FALSE /\ hello' = FALSE /\ tunnels' = <<>>
    /\ call' = [p \in Requesters |-> IF call[p] = Idle THEN Idle ELSE Finished(p)]
    /\ restore' = [s \in Sessions |-> Off]
    /\ UNCHANGED <<n, persistent, gatewayVars>>

-----------------------------------------------------------------------------
(* The gateway.                                                            *)

(* An answer reaches who still waits for it, on the daemon's session.      *)
Reply(s, m, ack) ==
    call' = IF up /\ s = n /\ Waits(m.who) /\ call[m.who].on = s /\ call[m.who].ask = m.ask
            THEN [call EXCEPT ![m.who] = [@ EXCEPT !.pc = "answered", !.ack = ack]] ELSE call

Handles(s) == s \in served /\ msgs[s] # <<>> /\ msgs' = [msgs EXCEPT ![s] = Tail(@)]

\* Mutant: what an earlier session left is not in the way.
TakenNow(host) == \E l \in bound : l.host = host /\ l.sess = n

(* The hostname is in use.                                                 *)
Taken(host) == \E l \in bound : l.host = host

GatewayOpens(s) ==
    /\ Handles(s) /\ given < MaxTunnels
    /\ LET m == Head(msgs[s])
           id == given + 1
           host == IF m.ask.sub = Random THEN id ELSE m.ask.sub
       IN /\ m.ask.op = "open"
          /\ ~Taken(host)
          /\ bound' = bound \cup {[id |-> id, host |-> host, sess |-> s]}
          /\ given' = id
          /\ Reply(s, m, [id |-> id, host |-> host])
    /\ UNCHANGED <<daemonVars, stateVars, restore, served>>

GatewayRefuses(s) ==
    /\ Handles(s) /\ Head(msgs[s]).ask.op = "open"
    /\ Taken(Head(msgs[s]).ask.sub)
    /\ Reply(s, Head(msgs[s]), NoAck)
    /\ UNCHANGED <<daemonVars, stateVars, restore, served, bound, given>>

GatewayReleases(s) ==
    /\ Handles(s)
    /\ LET m == Head(msgs[s]) IN
        /\ m.ask.op = "close"
        /\ bound' = {l \in bound : l.id # m.ask.id}
        /\ Reply(s, m, [id |-> m.ask.id, host |-> 0])
    /\ UNCHANGED <<daemonVars, stateVars, restore, served, given>>

\* Mutant: the end of a session unbinds the hostnames of its device.
UnboundWithDevice(s) == {}

(* DisconnectSession: the hostnames that stay bound.                       *)
StillBound(s) == {l \in bound : l.sess # s}

(* serveSession's deferred clean-up, once it is replaced: dropped earlier, *)
(* a session leaves the same to its successor.                             *)
GatewayDrops(s) ==
    /\ s \in served /\ s < n
    /\ served' = served \ {s}
    /\ bound' = StillBound(s)
    /\ msgs' = [msgs EXCEPT ![s] = <<>>]
    /\ UNCHANGED <<daemonVars, stateVars, call, restore, given>>

Next == \/ Starts \/ Connect \/ Lost \/ Restart
        \/ \E p \in Openers : OpenAsks(p) \/ OpenInstalls(p) \/ OpenFails(p)
        \/ \E p \in Closers : CloseFinds(p) \/ CloseForgets(p) \/ CloseAsks(p) \/ CloseDeletes(p) \/ CloseFails(p)
        \/ \E s \in Sessions :
            \/ Snapshot(s) \/ Announce(s) \/ Announced(s) \/ AnnounceFails(s)
            \/ SpecSkipped(s) \/ SpecChosen(s) \/ SpecAsks(s) \/ SpecRestored(s) \/ SpecFails(s) \/ RestoreEnds(s)
            \/ GatewayOpens(s) \/ GatewayRefuses(s) \/ GatewayReleases(s) \/ GatewayDrops(s)

Spec == Init /\ [][Next]_vars

-----------------------------------------------------------------------------

Specs == (UNION Files) \cup {SpecFor(Wanted[p]) : p \in Openers}
Names == {spec.sub : spec \in Specs} \ {Random}
Locals == {spec.local : spec \in Specs}
Hosts == Names \cup 1..MaxTunnels
TunnelOf == [local : Locals, host : Hosts, sub : Hosts \cup {Random}, persist : BOOLEAN,
             status : {"active", "stale"}, on : Sessions]

(* Types; no two entries of the gateway share a hostname.                  *)
TunnelsTypeOK ==
    /\ up \in BOOLEAN /\ hello \in BOOLEAN /\ ~(up /\ hello) /\ n \in 0..MaxSessions /\ restarts \in 0..MaxRestarts
    /\ DOMAIN tunnels \subseteq 1..given /\ \A id \in DOMAIN tunnels : tunnels[id] \in TunnelOf
    /\ persistent \subseteq [local : Locals, sub : Hosts \cup {Random}]
    /\ \A p \in Requesters : call[p].pc \in {"idle", "found", "forgot", "wait", "answered", "returned"}
    /\ \A s \in Sessions : restore[s].pc \in {"off", "sleep", "run", "done"}
    /\ served \subseteq Sessions /\ given \in 0..MaxTunnels
    /\ bound \subseteq [id : 1..given, host : Hosts, sess : Sessions]
    /\ \A k, l \in bound : k.host = l.host => k = l

(* A tunnel that the daemon got on its present session is routed to that   *)
(* session under its hostname, whatever the gateway still does for earlier *)
(* sessions, unless somebody asked to close it.                            *)
Closing(id) == \E p \in Closers : call[p].ask.op = "close" /\ call[p].ask.id = id
ServedWhileUp ==
    up =>
        \A id \in DOMAIN tunnels :
            tunnels[id].on = n /\ ~Closing(id) => [id |-> id, host |-> tunnels[id].host, sess |-> n] \in bound

(* Once restoreTunnels of the present session is done, every tunnel of the *)
(* daemon is of this session or shown as stale: none looks active that the *)
(* gateway has forgotten with an earlier session.                          *)
Reannounced ==
    up /\ n > 0 /\ restore[n].pc = "done" =>
        \A id \in DOMAIN tunnels : tunnels[id].on = n \/ tunnels[id].status = "stale"

(* If none of its requests failed and nothing was closed meanwhile, every  *)
(* address with a specification has a tunnel when restoreTunnels is done.  *)
Restored ==
    up /\ n > 0 /\ restore[n].pc = "done" /\ (\A s \in Sessions : restore[s].ok)
       /\ (\A p \in Closers : call[p] = Idle) =>
        \A spec \in persistent : \E id \in DOMAIN tunnels :
            tunnels[id].local = spec.local /\ tunnels[id].on = n

(* A tunnel leaves the daemon only when it is closed, the daemon ends, or  *)
(* a tunnel with the same hostname and address takes its place: no         *)
(* reconnection changes a public URL.                                      *)
SameTunnel(t, u) == t.local = u.local /\ t.host = u.host /\ t.persist = u.persist
UrlKept == [][ \A id \in DOMAIN tunnels \ DOMAIN tunnels' :
                  \/ restarts' > restarts
                  \/ Closing(id)
                  \/ \E i \in DOMAIN tunnels' \ DOMAIN tunnels : SameTunnel(tunnels[id], tunnels'[i]) ]_vars

(* closeTunnel succeeds for a persistent tunnel, with the specification it *)
(* has dropped.                                                            *)
Closes(p) == CloseDeletes(p) /\ call[p].ask.persist
Dropped(p) == SpecFor(call[p].ask)

(* A persistent tunnel with a name that has been closed leaves its         *)
(* specification only if the daemon has a tunnel of that specification     *)
(* again and shows it, whatever re-announcements, restorations and other   *)
(* closes went on meanwhile.                                               *)
ClosedOrListed ==
    [][ \A p \in Closers : Closes(p) /\ call[p].ask.sub # Random /\ Dropped(p) \in persistent' =>
          \E id \in DOMAIN tunnels' : tunnels'[id].persist /\ SpecFor(tunnels'[id]) = Dropped(p) ]_vars

(* "Drop persist first so a reconnect cannot restore this tunnel"          *)
(* (daemon.go:616): a tunnel that has been closed leaves no specification  *)
(* of its address, unless another tunnel has that address.                 *)
ClosedStaysClosed ==
    [][ \A p \in Closers : Closes(p) =>
          \A spec \in persistent' : spec.local = call[p].ask.local =>
              \E id \in DOMAIN tunnels' : tunnels'[id].local = spec.local ]_vars
=============================================================================
