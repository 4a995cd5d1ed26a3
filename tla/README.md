# Verification of passerelle

passerelle exposes HTTP services that run on a private machine under public hostnames. A
**gateway** terminates public TLS and routes each request, by hostname, to a **tunnel**: a
stream over the one connection that a client **daemon** keeps open to the gateway (QUIC, or
HTTP/2 as fallback). This directory holds TLA+ models of the code under `src/`, the TLC runs
that check them, and theorems about them that TLAPS checks.

1. [Inventory](#1-inventory): the system's parts and what makes each correct
2. [Plan](#2-plan): the modules, in order
3. [What is modelled](#3-what-is-modelled): modules and code
4. [Runs](#4-runs): what each shows, its bounds
5. [Fairness and stopping](#5-fairness-and-stopping)
6. [Disagreements with the documentation](#6-disagreements-with-the-documentation)
7. [Proofs](#7-proofs)
8. [What is only model-checked, and what is not modelled](#8-limits)

## 1. Inventory

### Gateway

| Component | Code | State | Operations | Correct when |
|---|---|---|---|---|
| Registry | `gateway/router/registry.go` | `byTunnel`, `byHost`, `live` objects, one mutex | `Allocate`, `Release`, `DisconnectSession`, `Rebind`, `Lookup`, `GetTunnel`, `CountForUser`; lazy collection inside `Allocate` | both maps describe the same tunnels; a hostname in use, persistent or in its grace time stays its owner's; a reservation ends |
| Tunnel sessions | `gateway/server.go` `serveSession`, `handleControl`, `openTunnel`; `gateway/tunnel/session.go` | `Server.sessions` (client id to session), one goroutine per session, the control stream | replace the older session of the device, serve control messages, clean up | no hostname routed to a session that is gone; a late clean-up harms no successor; quotas; only the owner closes a tunnel |
| Public requests | `gateway/server.go` `handlePublic`; `internal/limits/conns.go` | `Conns.cur`, one goroutine per request | look up, take a slot, open a stream, forward, give the slot back | slots taken equal requests in progress |
| HTTP pipe | `internal/httppipe/pipe.go`, `internal/tunnelconn` | at the gateway: where `ForwardRequest` is, and two copies after an upgrade; at the daemon: where `ServeOrigin` is, and always two copies | forward a request, a response, bytes both ways | the end of one side ends the other; no handler, stream or slot is kept for ever |
| Identity | `gateway/identity/store.go`, `/v1/enroll` in `server.go`, `cmd/passerelle-gateway` | users, tokens, devices: three JSON files, read and replaced as wholes by the gateway and by each administration command | add or revoke a user, set quotas, create and consume a token, enroll, revoke a device, `CheckDevice` | a token is used once; a revocation stays; device quotas |
| Listeners | `gateway/server.go` `chanListener`, `Shutdown` | accept channel, done channel | accept, hand over by ALPN, shut down | no connection is lost or leaked at shutdown |
| Metrics, ACME | `gateway/metrics`, certmagic | gauges, certificates | | presentation; third party |

### Client

| Component | Code | State | Operations | Correct when |
|---|---|---|---|---|
| Connection loop, keepalive | `client/daemon.go` `Run`, `loop`, `connect`, `serveQUIC`, `serveH2`, `session`, `keepalive` | `control`, `connected`, the delay before the next attempt | connect by QUIC or HTTP/2, serve, ping, reconnect | `connected` implies a usable control stream; a session that is up is watched by its keepalive; it retries for ever |
| Control requests | `client/daemon.go` `expect`, `writeControl`, `dispatch`, `requestOpen`, `closeTunnel`; the reader goroutine of `session` | `pending` by sequence number, `seq` | send, wait with a timeout, deliver | an answer reaches the request it answers, once; a failed request leaves nothing behind |
| Tunnels | `client/daemon.go` `openTunnel`, `closeTunnel`, `installTunnel`, `restoreTunnels`, `handleData` | `d.tunnels`, `cfg.Persistent` | open, close, restore after reconnection, serve a data stream | a closed tunnel is not reopened unnoticed; a persistent one comes back under its name; a stream reaches the origin of its tunnel |
| Configuration | `client/config.go`, `enroll.go`, `keyring.go` | one JSON file, the key | load, save, enroll | the daemon's and the command's updates both survive |
| Origins, matching | `internal/origin`, `client/match.go` | none | parse, match | pure functions |
| Backoff | `internal/backoff` | attempt counter | next delay | delays bounded and growing |
| API, CLI, TUI, service | `client/api.go`, `client/ipc_*.go`, `client/tui`, `cmd/passerelle` | none of their own | | presentation |

### How they interact

A daemon connects; TLS names its user and device; `CheckDevice` looks the device up in the
identity store; `serveSession` installs the session in `Server.sessions`, disconnecting the one
before it from the registry and closing it. The daemon's control messages make the handler call
the registry. A public request reads the registry, takes a slot of the tunnel's user, and opens
a data stream on the session it found; the daemon reads the preamble, picks the tunnel, and
pipes to the origin. When the connection ends, the handler's deferred calls disconnect the
session from the registry (its hostnames go into their grace time), clear its entry of
`Server.sessions`, and close the connection; the daemon reconnects and reopens its tunnels.

### What is hard

Three locks guard the gateway's state (`Server.mu`, the registry's, `Conns`'s) and no operation
holds two of them: whatever spans them is a sequence of steps with others in between. The hard
behaviours are exactly those: a newcomer that replaces a session whose handler is still inside
`openTunnel`; two newcomers at once; a quota check separated from the allocation; an owner check
separated from the release. The identity store has a lock too, but the administration commands
are other processes, so two writers may replace one file at once, and be killed while they do.
On the client, the session of an HTTP/2 connection runs in another goroutine than the loop that
waits for it; answers come late or never; a restoration of the tunnels works on a snapshot while
requests of the local API, another reconnection and the gateway's clean-up of the earlier
session go on. In the HTTP pipe, four ends and two transports decide who learns of whose end.
`PROJECT.json` lists each at its line, with the properties that cover it or the reason why none
does.

## 2. Plan

Built: the state machines of both processes and of a request's way through them.

| | Modules | State |
|---|---|---|
| 1 | `Registry`, with `Reservation` as its abstract specification: every hostname promise rests on it | done, proved |
| 2 | `Gateway` over `Registry`: session handlers, control messages, public requests, slots | done, safety proved |
| 3 | `GatewayProofs`, `QuotaProofs`: the gateway inherits `Reservation`; the two quotas of a user | done |
| 4 | `AtomicFiles`, `Identity`: two processes over shared files; tokens, revocations, device quota | done, safety proved (`IdentityProofs`) |
| 5 | `DaemonSession`: the connection loop, keepalive, both transports, and the requests that wait for answers | done, safety proved (`DaemonSessionProofs`) |
| 6 | `DaemonTunnels`: open, close, restore, restart, against the gateway's bound hostnames | done, safety proved (`DaemonTunnelsProofs`) |
| 7 | `HttpPipe`: one request from visitor to origin, half-close and upgrade | done, types proved (`HttpPipeProofs`), the rest is liveness |
| 8 | proofs still worth having: an abstract specification of the daemon's tunnels (a URL is kept until it is closed) that `DaemonTunnels` implements; the order of a response's chunks in `HttpPipe` | open |
| 9 | the configuration file shared by the daemon and the `auth` command (on `AtomicFiles`); `chanListener` and `Shutdown` | open |
| 10 | pure algorithms (backoff, frame lengths, subdomain syntax) against reference definitions | open |

`DaemonSession` and `DaemonTunnels` are separate because they abstract each other: the first has
the sessions in full and any API call, the second takes a session as up or down and has what the
calls do.

## 3. What is modelled

| Module | Role |
|---|---|
| `Reservation` | abstract: hostnames and their leases, no ids, maps or collection |
| `Registry` | `router.Registry`, one action per method |
| `Gateway` | EXTENDS `Registry`: handlers of sessions and of public requests |
| `AtomicFiles` | `readJSON` and `writeJSON`: files replaced by truncate, write, rename, by two processes |
| `Identity` | EXTENDS `AtomicFiles`: enrollment, `CheckDevice`, administration commands |
| `DaemonSession` | the daemon's connection loop, sessions, keepalive, requests and answers |
| `DaemonTunnels` | the daemon's tunnels and their specifications |
| `HttpPipe` | `ForwardRequest` and `ServeOrigin` with the stream between them |
| `MC...` | TLC instances of the module of that name |
| `RegistryProofs`, `ReservationProofs`, `GatewayProofs`, `QuotaProofs`, `IdentityProofs`, `DaemonSessionProofs`, `DaemonTunnelsProofs`, `HttpPipeProofs` | theorems |

Definitions marked *Mutant* are faulty variants of the one below them (see the end of section
4).

### Registry

Each exported method runs under one mutex, so each is one action. `heap[id]` is the `live`
object allocated under tunnel id `id`, kept after it left the maps because others may still hold
its id; `byTunnel` is the set of keys of the Go map of that name, `byHost[h]` the id of the
object a hostname points to.

| Action | Code |
|---|---|
| `Allocate`, `AllocateFails` | `Allocate`: `gcLocked`, `pickHostLocked` (with reclaiming), then the two map writes; a refused call has collected all the same |
| `Release` | `Release`, which deletes whatever hostname the object has |
| `DisconnectSession` | unbinds the session's tunnels, sets their deadline unless persistent |
| `Rebind` | `Rebind` (exported, called by no other file) |
| `Tick` | the clock |

`PickHost` is the choice of hostname: a free one for an empty subdomain, else the named one if
free or reclaimable by the caller (offline, same user). `Garbage` is what `gcLocked` deletes:
unbound, not persistent, deadline passed. Collection happens only inside `Allocate`, so an
expired tunnel stays in the maps meanwhile; the refinement mapping `Lease` says that such an
entry counts as free.

Abstracted: label syntax (a subdomain is a valid hostname, empty, or invalid), `ClientID` and
`CreatedAt` (no method reads them), the random id (any unused one), a failing system random
source, and `notify` (a gauge).

### Gateway

`pc[s]` names the next call of the goroutine that serves session `s`; each section under a
mutex, each registry call and each `Close` is one step, because that is where other goroutines
can come in.

| Program counter | Next step | Code |
|---|---|---|
| `new` | `ServeFirst` or `FindPrevious` | `serveSession` reads (and, if there is none, writes) `s.sessions` |
| `disconnectPrev`, `closePrev`, `install` | `DisconnectPrev`, `ClosePrev`, `Install` | the mutex is released for the first two, and retaken for the third |
| `serve` | `CheckQuota`, `OverQuota`, `QuotaUnread`, `CloseAllowed`, `CloseNotOwned`, `ReadFails`, `ControlEnds` | `handleControl`, `openTunnel` |
| `allocate` | `OpenAllocated`, `OpenRefused` | `registry.Allocate` after the quota check |
| `release` | `CloseReleased` | `registry.Release` after the owner check |
| `disconnect`, `forget`, `close` | `Disconnect`, `Forget`, `Close` | the deferred clean-up, in its order |

`rpc[r]` is the same for public request `r`: `LookupHost` (idle to acquire), `Acquire` or
`TooMany`, `OpenStream`, and `Return` for every way out after the slot is taken. `route[r]`
holds what the handler copied out of the registry, which may be stale by the time it is used.
The deferred `release` closure is `Return`.

The environment: `Send` (a daemon writes a control message), `Drop` (a connection breaks),
`ControlEnds` (the daemon ends its control stream), `LookupHost` (a visitor arrives), `Tick`. A
connection that is closed may still have a message buffered, so a handler may serve it after
`up` is false.

Abstracted: TLS and `CheckDevice` (a session is a pair of user and device fixed by its
certificate); Hello and KeepAlive, which are echoed; the replies (their loss shows to the daemon
only); `ForwardRequest` (it ends at any time; see `HttpPipe`).

Quotas are each user's own and read from the store at every check, so a check may find any value
between the lowest and the highest that the store ever answers for that user (`LeastTunnels` to
`MaxTunnels`, `LeastConns` to `MaxConns`), or none: a user that cannot be read fails the request
(`QuotaUnread`) or stands for the default (`ConnQuotas`). Nothing closes tunnels or requests when
a quota is lowered, so `QuotaSlack` and `ConnsExact` are about the highest.

### AtomicFiles and Identity

`file[f]` and `tmp[f]` are the contents of `<path>` and `<path>.tmp`; `wr[p]` is the `writeJSON`
that process `p` is in, from the read of the old list to the rename. A descriptor is followed
through renames (`fd`): with two writers of one file the later one may write to what is by then
the file itself, to nothing that has a name, or over a longer content, whose tail remains.
`contended` is history: the files that two processes wrote at once, which is what the exceptions
in the properties refer to.

| Action | Code |
|---|---|
| `Truncate`, `Write`, `Rename` | `os.WriteFile`, `os.Rename` in `writeJSON` |
| `WriteFails`, `RenameFails` | their errors: a file that cannot be opened, a full disk in the middle of the data, a temporary file that has gone |
| `ConsumeToken`; `ReadUser`; `Register`; `EnrollFails` | `/v1/enroll`: `ConsumeToken`, then the two critical sections of `Enroll`, and every refusal |
| `CheckUser`, `CheckDevice` | the two sections of `Store.CheckDevice` |
| `AddUser`, `RevokeUser`, `RevokeDevice`, `PatchUserQuotas`, `CreateToken` | the administration commands; `RevokeUser` writes two files |
| `GatewayCrash`, `AdminCrash` | either process is killed at any step |

A process holds its mutex over read, change and write, so the gateway has at most one writer
(`GatewayFree`). Commands are assumed to run one at a time. Abstracted: certificates and the CSR
(accepted or not), expiry of tokens (one more refusal), rate limiting.

### DaemonSession

`loop` is where the connection loop is; per attempt `n`, `spc[n]`, `reader[n]`, `ka[n]` are the
goroutines `session`, its reader and `keepalive`; `call[w]` is the call waiter `w` is in,
together with its entry of `d.pending`; `toGw`, `fromGw` are the control stream.

| Action | Code |
|---|---|
| `Dial`, `DialFails`, `ServeEnds`, `Reset`, `Backoff` | `loop`, `connect`, `serveQUIC`, `serveH2`; a failed attempt (credentials, dial, control stream) resets `control` and `connected` too |
| `OnControl` | the handler of the HTTP/2 request by which the gateway opens the control stream |
| `Start`, `Serving`, `SessionEnds` | `session` |
| `Dispatch`, `ReaderFails` | the reader goroutine of `session`, `dispatch` |
| `PingStarts` to `KeepaliveEnds` | `keepalive` and its `ping` |
| `PingCrashes` | a ping written to the response of an HTTP/2 handler that has returned |
| `ApiAsks`, `ApiReturns` | `requestOpen`, `closeTunnel` as far as they ask and wait |
| `GatewayAnswers`, `GatewayErrs`, `GatewayCloses` | the gateway's control loop, seen from the stream |

Over QUIC the session runs in the loop's goroutine under its own context; over HTTP/2 it runs in
another goroutine under the loop's, so that it may set `d.control` and `d.connected` after the
loop has reset them. That is why `ControlIsCurrent` is stated for QUIC only. `Reconnects` is
about both: whatever an earlier HTTP/2 session still does, an attempt whose connection breaks is
left. What does fail then is that a session has a keepalive: see `daemon_unwatched` in section
6.

Closing means two things (`Writable`). A QUIC stream that has been closed refuses writes. Of an
HTTP/2 stream `flushStream.Close` closes the request body only, so writes still succeed until the
handler has returned, and after that `net/http2` panics. In a request of the local API `net/http`
recovers the panic; in the keepalive's goroutine nothing does and the daemon ends
(`PingCrashes`), which `Reconnects` names as an outcome.

Drawing a number, entering the channel and writing are one step: a write that comes later finds
the stream open or closed as well. Writes do not block.

### DaemonTunnels

`tunnels` is `d.tunnels`, `persistent` the list of specifications in `d.cfg`, which is saved
with each change; `call[p]` is the request of `p`, an opener, a closer or a session's
`restoreTunnels` goroutine; `restore[s]` is where that goroutine is, with the snapshot it works
on. The gateway is reduced to the sessions it serves, the hostnames bound to them, and the
messages it has still to handle, those of earlier sessions included.

| Action | Code |
|---|---|
| `OpenAsks`, `OpenInstalls`, `OpenFails` | `openTunnel`, `installTunnel` for the local API |
| `CloseFinds`, `CloseForgets`, `CloseAsks`, `CloseDeletes`, `CloseFails` | `closeTunnel`: the lookup of tunnel and stream, the removal of the specification, the message, the deletion, the errors; others come in between each two |
| `Snapshot` to `RestoreEnds` | `restoreTunnels`: re-announce each live tunnel, then open each specification that has none; the check by address (`SpecChosen`, `SpecSkipped`) and the request (`SpecAsks`) are two steps |
| `Starts`, `Connect`, `Lost`, `Restart` | `d.control` is a new session's stream; its hello is acknowledged and the daemon serves; the session ends; the daemon is stopped and started |
| `GatewayOpens`, `GatewayRefuses`, `GatewayReleases`, `GatewayDrops` | `openTunnel`, the close handler and the deferred clean-up of the gateway |

A hostname stands for its first label. `cfg.Persistent` is a list that the code walks in its
order; the model takes its specifications in any order, which includes that one.

Timing assumption, the guard of `Snapshot`: an answer that has reached its channel is installed
before `restoreTunnels` of a later session takes its snapshot, which is 50 ms after that
session's hello (`daemon.go:330`). The delay of the backoff gives no such guarantee, since it is
0 after a session of more than 30 s (`daemon.go:137`). Without the assumption an acknowledged
tunnel of the earlier session could be installed after the snapshot and look active although
nobody announces it: `Reannounced` rests on it. `Connect` itself waits for nobody.

Abstracted: traffic counters, and the user's own unbound entries at the gateway, which `Allocate`
gives back to their owner.

### HttpPipe

One request. `gateway` and `daemon` are where `ForwardRequest` and `ServeOrigin` are, `gatCopy`
and `daeCopy` their two copies that still run; `wire[h]` is what is in flight on hop `h` (`"VG"`
is from visitor to gateway, and so on), `fin` the hops whose writer has closed, `gone` those
whose reader has.

| Action | Code |
|---|---|
| `GatewayWrites`, `GatewayWritten`, `GatewayReads`, `GatewayCopies`, `GatewayCopied`, `GatewayFails` | `ForwardRequest`: `r.Write`, `ReadResponse`, `copyFlush`, the errors |
| `GatewayPipes`, `GatewayCopyEnds`, `GatewayUpgradeEnds` | `bidir` after the hijack |
| `TunnelUnknown`, `DaemonReads`, `DaemonDials`, `DialFails`, `DaemonWrites`, `DaemonWritten`, `DaemonFails` | `handleData`, `ServeOrigin` up to its copies |
| `DaemonPipes`, `DaemonCopyEnds`, `DaemonEnds` | its `bidir` |
| `GatewayReturns`, `DaemonReturns` | the deferred `Close` calls, which mean different things per transport (`BodyClosed`) |
| `VisitorSends` to `VisitorSeesEnd`, `OriginReads` to `OriginSeesEnd`, `TunnelBreaks` | the environment |

What matters is who ends whom. Closing a QUIC stream ends its sending side only: what the other
end still writes blocks at the window and is never refused. Over HTTP/2 the gateway's `Close`
closes the response body too, and a handler of the daemon that returns resets what is left of
the request. Neither stream type has `CloseWrite`, so the end of one direction is not passed on.
Bytes are chunks, headers are left out but for how a response ends: with a length, with the
connection, or as an upgrade.

## 4. Runs

| Run | Instance | What it shows |
|---|---|---|
| `registry` | three sessions of two users, two hostnames, three ids, grace 1, clock to 4 | maps agree, tunnels bound to their owner, deadlines bounded, hostnames reserved, `Reservation` implemented |
| `gateway_sessions` | two sessions of one device, two hostnames, two ids, quota 1, fair handlers | routes only to sessions that will still clean up; no lost registration; the overshoot of the tunnel quota is at most the number of the user's other busy sessions; a replaced session ends; a dead session's hostnames are unbound |
| `gateway_requests` | two requests, sessions of two users, one hostname, two ids, quotas between 1 and 2, clock to 3 | slots match requests on every path, with sessions ending, tunnels expiring and the hostname changing hands meanwhile; tunnels closed only by their owner |
| `identity` | one user, two tokens, two devices, two enrollments, one connecting daemon, quotas 1 and 2 | a crash leaves a file whole; a token is spent once; device quotas; a revoked user's devices stay out, though a device registered meanwhile may look active; nothing revoked or used comes back unless two processes wrote the file at once |
| `daemon_session` | two attempts over either transport, one API call, three numbers for pings | answers reach the request they answer; what `d.control` is; keepalives end; a broken connection, of the first attempt or of the second, is followed by another attempt |
| `daemon_tunnels` | two sessions, one restart, one opener, one closer, four tunnel ids, two addresses; a configuration with a named or a random tunnel | tunnels of the present session are routed to it; none looks active that the gateway has forgotten; persistent ones come back; URLs stay; a specification that is back after a close is that of a tunnel that is back |
| `http_pipe` | one request, two body chunks, two response chunks, window 1, both transports | which ends end which others |
| `quota_exceeded` | three sessions of one user, quota 1 | violation, see 6 |
| `orphan_session` | three sessions of one device | violation, see 6 |
| `daemon_unwatched` | two attempts, no API call, four numbers for pings | violation, see 6 |
| `tunnel_restored` | as `daemon_tunnels`, one address, an empty configuration | violation, see 6 |
| `pipe_hangs` | as `http_pipe` | violation, see 6 |

Bounds, and why they are enough:

- **Sessions** are used once, as the Go objects are. Two of one device are needed for a
  replacement, three for two newcomers at once (`orphan_session`). Competition with another user
  is in `registry` and `gateway_requests`, replacement in `gateway_sessions`; that their
  properties hold when both happen at once is what the theorems show, for any number of either.
- **Tunnel ids** bound how many tunnels are allocated in a behaviour: 2 or 3. Where ownership is
  the question (`registry`, `gateway_requests`) there is one more than hostnames, so that a
  hostname is allocated again under a new id while the old id is still known. `Send` offers a
  daemon an open request only while an id is left, so the bound never stops a handler in the
  middle of a request.
- **Hostnames**: two in `registry` and `gateway_sessions`, one of which is also a random one, so
  that a user may hold or lose one and get another; one in `gateway_requests`, so that users must
  compete.
- **Time**: with `Grace = 1`, a reservation made at time 1 expires at time 3. `MaxTime = 4`
  leaves room for a second reservation to be renewed and pending; the runs with `MaxTime = 1`
  ask questions that time does not enter.
- **Quotas** are 1, or change between 1 and 2: the boundary is reached at once, and passed by
  one more.
- **Messages**: one unread control message per session. Handlers take messages in order and a
  second one waits untouched until the first is done.
- **Files**: two processes are what the code has. Two enrollments compete for a token or for the
  last device of a quota, and a second token keeps one enrollment going when the other has
  failed. Quotas are 1 and 2, so that one can be lowered or raised between the two sections of
  `Enroll`.
- **Attempts** (`daemon_session`): two, of which the second has a predecessor whose HTTP/2 session
  may start, ping and end while the second is served. The properties are asked of both: the
  second must come to the point where the loop would dial again, which the bound then keeps it
  from doing. A session of two attempts ago writes `d.control` as one of the last attempt does,
  so a third attempt adds a second disturber and no new kind of step. `MaxSeq = 3` leaves room for
  a ping after the hello of either session, in either order, or for two after one hello; the API
  call is a `closeTunnel`, which asks in more states than `requestOpen`. `daemon_unwatched` needs
  four numbers: two hellos, a ping that is answered and one that goes to the wrong stream.
- **Sessions of the daemon** (`daemon_tunnels`): two, with the gateway still handling a message
  of the first when the second has announced its tunnels, and a restart before, between or after
  them. Four ids are a tunnel, its re-announcement, and two more by the opener and a
  specification. One closer overlaps with re-announcements and restorations; that two overlap
  each other is covered by the theorems. When ids run out the gateway does not answer, which is what a slow gateway
  looks like.
- **Chunks** (`http_pipe`): with a window of 1 every write but the first can block, and two
  chunks are enough for one to be in flight and one to be blocked behind it.

Symmetry: tunnel ids are interchangeable. It is used for invariants and action properties only;
`gateway_sessions` and the other runs that check liveness have none. `identity` has
interchangeable tokens, devices and enrollments.

Each property has a mutant in the module it is about: a body that a plausible slip in the code
would give the definition (a missing deletion, a dropped owner check, an off-by-one, a slot
released twice), under which TLC finds the property violated.

## 5. Fairness and stopping

`FairSpec` assumes `WF(Handler(s))` for each session: a goroutine of the gateway that can take a
step is eventually scheduled. It can always take one once it has left `new` except while it
waits in `serve` for a message on an open connection; when the connection is closed by anybody
the blocked read returns an error, which is `ReadFails`. Weak fairness of the disjunction
suffices because the handler is one sequential goroutine. Nothing is assumed of daemons,
visitors, the network or the clock: `Send`, `Drop`, `ControlEnds`, `ServeFirst`, `FindPrevious`,
the request actions and `Tick` may never happen.

`DaemonSession`'s `FairSpec` assumes that the daemon's goroutines are scheduled and its timers
fire (`Loop`, `Session`, `Reader`, `Keepalive`), and that a gateway reads the control stream and
acts on its end (`Gateway`); it need not answer, and nothing is assumed of the network or the
local API. A ping whose answer never comes is ended by its timer, which is part of `Keepalive`.

`HttpPipe`'s `FairSpec` assumes the same of the goroutines of gateway and daemon, that visitor
and origin read what comes, that the visitor sends the body it announced, and that both close a
connection whose other end has closed. It does not assume that the origin answers, that anybody
leaves, or that the tunnel breaks. Copies in both directions share one fairness condition
(`GatewayPipes`, `DaemonPipes`): the properties hold even if only one of the two moves.

The `Gateway` runs set `CHECK_DEADLOCK FALSE`: a session object serves one connection, so when
all of them are done and the clock is at its bound nothing is left to do. So do the runs of the
later modules: enrollments, attempts, API requests and the one public request are each made
once, and then the system may stop. `registry` has no such state and checks deadlock.

## 6. Disagreements with the documentation

All were met while modelling and are checked by runs that must fail.

- **`quota_exceeded`**: `docs/architecture.md:188` lists a maximum number of tunnels per user.
  `openTunnel` reads `CountForUser` and calls `Allocate` in two critical sections
  (`server.go:492` and `:498`), so two sessions of one user both pass the check and both
  allocate. `QuotaSlack` says how far this can go; for a user with one session the quota holds.
- **`orphan_session`**: `docs/adr/002-tunnel-transport.md:18` says a daemon has a single
  multiplexed session. `serveSession` releases the mutex between reading and writing
  `s.sessions` (`server.go:410-416`) and does not look again. If another newcomer of the device
  installs itself in between it is overwritten but neither disconnected nor closed: two sessions
  of one device are served, until one of the connections ends. The theorems still hold in such
  states: both sessions clean up after themselves.
- **`tunnel_restored`**: `daemon.go:616` drops the specification of a tunnel before closing it
  "so a reconnect cannot restore this tunnel". A persistent tunnel opened without a subdomain is
  stored with an empty one. After a reconnection it is announced under the first label of its
  hostname (`daemon.go:345`) and stored again under that (`daemon.go:603`). `closeTunnel`
  removes only the second, so the first opens a tunnel to the address after the next restart.
  What does hold is `ClosedOrListed` (below).
- **`daemon_unwatched`**: `docs/architecture.md:94` promises a periodic keepalive on the control
  stream, and `:169` gives liveness as its purpose. The first attempt (HTTP/2) breaks before its
  session has set `d.control` (`daemon.go:271`), the second is served, and then the first session
  sets `d.control` to its own dead stream. The next ping of the second session goes there and
  fails, and its keepalive returns (`daemon.go:428-430`) without closing the stream of its own
  session. That session then has no keepalive: a peer that vanishes is noticed only by the
  transport's own timers. `Reconnects` therefore asks for another attempt after a keepalive has
  given up only where all connections so far were QUIC.
- **`pipe_hangs`**: `pipe.go:48` says that `ServeOrigin` "pipes until both sides close",
  `docs/architecture.md:100` that both ends copy until EOF. With visitor and origin both gone,
  for example when the origin hangs up without an answer, the daemon's copy towards the origin
  waits for the gateway to end the stream, while the gateway waits for a response, or in a copy,
  until the daemon does: the end of neither side is passed on. Both handlers, the stream and the
  visitor's slot stay until the session ends.

Noticed on the way, not shown by a run of its own (each is a hazard in `PROJECT.json` where it
bites):

- When a close overlaps with a re-announcement, the comment at `daemon.go:616` does not hold for
  a named tunnel either: `restoreTunnels` has it in its snapshot, `closeTunnel` drops the
  specification, the re-announcement installs the tunnel under a new id and stores the
  specification again (`daemon.go:594-604`), the deletion of the old id finds nothing, and the
  close succeeds. `ClosedOrListed`, checked and proved, bounds this: after a close a
  specification of the closed tunnel is there only if the daemon also has, and lists, a tunnel of
  that specification.
- A ping written to the response of an HTTP/2 handler that has returned panics in the keepalive's
  goroutine and ends the daemon (`PingCrashes`). It may come between the end of a session and the
  loop's reset of `d.control`, or when a late session has left its dead stream there.

- Over QUIC a response that the gateway no longer reads blocks the daemon's copy for ever, since
  nothing resets the stream; likewise a body the daemon no longer reads. `AnsweredEnds` and
  `GatewayFollows` name these cases and leave them out. A response whose length is given by the
  end of the connection is not complete before the daemon's other copy ends.
- An error of `ForwardRequest` before the response is logged only; the visitor gets an empty
  200.
- After a restart the check by address skips a second persistent specification of one address.
- `AddUser` does not re-admit a revoked user, since it clears the flag in a copy.
- A revoked device is served until its connection ends.
- `docs/architecture.md:112` lets allocations survive a restart of the gateway; the registry is
  in memory only.

## 7. Proofs

All theorems hold for every value of the constants that satisfies the assumptions named in the
modules. TLC evaluates them on every run.

| Assumption | What it asks |
|---|---|
| `RegistryAssumption`, `GatewayAssumption` | a session has a user and a device, a device has one user; random hostnames are hostnames; grace and quotas are positive; requests are finitely many; `None` (Go's nil) is none of the values it is told apart from |
| `IdentityAssumption`, `MarkersAssumption` | there are the three files and the two processes; the default device quota is positive and within the bound of quotas; the marks of a truncated and of a damaged file, and `None`, are no contents; devices are finitely many |
| `SessionAssumption` | the bounds are numbers, `None` is not one, closers are callers |
| `TunnelsAssumption` | the bounds are numbers; a request says whether it is persistent; a specification has an address and a label and nothing else; an opener, a closer, a session and the random label are told apart |
| `PipeAssumption` | the window is positive, the lengths are numbers |

Parts of these say that values of different kinds differ (`None`, the marks, the names of
requests and sessions): TLA+ is untyped, and in the code their Go types keep them apart.

**Registry.** `RegInv == RegTypeOK /\ MapsAgree /\ BoundToOwner /\ GraceBounded` is inductive;
`RegistryProofs` has one lemma per method. The heart is `AfterGC`: collecting a tunnel takes
exactly its own hostname with it, which needs that the maps agree before.
`RegistryReservationHeld` is the action property: only `Release` of the tunnel itself takes a
reserved hostname from its owner. `RegistryImplementsReservation` shows that each method, under
the mapping `Lease`, is a step of `Reservation` or changes no lease: collection and failed
allocations stutter, reclaiming is a claim on an own lease, and the passing of time ends leases
at the very moment their entries become collectable.

**Gateway.** `Inv == RegInv /\ SessInv`, where `SessInv` joins the checked properties
`BoundSessionsServe` and `SessionsLive` with two facts they need: `SessionTypes`, which ties the
message a handler works on to its program counter, and `ReleaseChecked`, which says that between
the owner check and the release the id still belongs to the user that was checked. The latter
holds because an id is never given to another object (`ObjectsPersist`). Every step of the
gateway is a registry step or leaves the registry alone (`GatewayUsesRegistry`), so all that is
proved of the registry, `Reservation` included, holds of the gateway
(`GatewayImplementsReservation`). `GatewayClosedByOwner` and `GatewayEntryOutlivesOthers` are
the action properties.

**Quotas** (`QuotaProofs`). `ReqInv == RequestTypes /\ ConnsExact` is inductive given `RegInv`,
which types what a request is routed to. `ConnsExact` counts a set of requests; `Acquire` and
`Return` add and remove one element (`FS_AddElement`, `FS_RemoveElement`). `QuotaSlack` bounds
by how much the code may exceed a quota (the highest the user has had, as it may be lowered): a
user's tunnels and openings in progress are, together, at most the quota less one plus the
sessions that hold a tunnel or are opening one. It is inductive
once the sets it counts are known to be finite (`QuotaInv`). What a step can do to the three
sets it relates, the user's tunnels `C`, the opening sessions `O` and the holding sessions `H`,
is one of four things, each a lemma about finite sets of any kind: a session that passes the
check joins `O` while `C` is below the quota (`SlackCheck`); it gets its tunnel
(`SlackAllocated`); it gets none (`SlackRefused`); tunnels leave `C`, and at most one session
leaves `H`, which has then lost one (`SlackDropped`). So the two sections of `openTunnel` cost
at most one tunnel for each other session of the user, and a user with one session never
exceeds the quota, whatever is interleaved.

**Identity.** None of the checked properties is inductive, since each depends on what is still
being written when it holds. `IInv` is about the three files, what is on its way to them and
what the handlers have read: `FilesInv` (a file that was never contended is whole, has at most
one writer, and that writer owns the temporary file), `GatewayControl` and `AdminControl` (who
writes which file at which point; the gateway's mutexes leave it one writer), `UsersInv` (only
commands write `users.json`, so it is never contended, nothing on its way restores a user, and a
check that begins after a confirmed revocation fails), `Drawn` (whatever version of a file
survives, its tokens and client ids were drawn, so new ones are new), `TokensInv` (a token is
spent in what will replace the file before the enrollment goes on), `DevicesInv` (a lone writer
keeps revoked devices revoked) and `QuotaInv`. The last speaks of every version of
`devices.json` that may come to be the file, current, pending or left in the temporary file by a
crash or a write error, and of the quota an enrollment read in its first section. `TokensInv` and `DevicesInv`
hold of a file until two processes write it at once; the exceptions in the theorems
(`contended`, `lowered`) are exactly those of the code. The definitions of `AtomicFiles` are
covered by the same proof: `FilesInv` has a lemma for each of its operations.

**Daemon sessions.** `SessInv == ControlTypes /\ CallInv` is inductive. `AnswerIsOwn` needs
`OwnNumbers`: a message in flight carries a number that was drawn, and a call under that number
is the one it was written for. Numbers only grow, so a step either draws the next one
(`NumberDrawn`) or leaves every call its number and puts nothing new in flight (`NothingDrawn`);
it does not matter on which connection an answer comes, nor how late. `ControlIsCurrent` follows
from `ControlInv`: over QUIC a session at work is the one the loop is waiting for, so nothing
writes `d.control` or `d.connected` between the loop's reset and the next session. An HTTP/2
session breaks exactly this, which is why the theorem is about QUIC.

**Daemon tunnels.** `IInv` has a part for each property, and each part needs the ones before it.

| Part | Says | Gives |
|---|---|---|
| `Types` | who may ask what, and where its request may be | `TunnelsTypeOK` |
| `Answers` | a tunnel that somebody has been given, and has not installed, is one that no request, tunnel or snapshot mentions (`Fresh`, `Known`), and it is routed to the present session | `ServedWhileUp` |
| `Faithful` | who announces a tunnel again announces its address, hostname and persistence as they are | `UrlKept` |
| `StaleInv` | a restoration that has begun has yet to announce every tunnel of an earlier session that does not show as stale | `Reannounced` |
| `Named`, `FoundInv`, `ListedInv` | a named tunnel has the name it asked for; what a closer has looked up is the tunnel of that id as it still is; a specification that is back after a close call has dropped it is that of a tunnel nobody is about to delete | `ClosedOrListed` |
| `RestoreInv` | with no failure and no close so far, every specification's address has a tunnel of the present session or is yet to be opened | `Restored` |

Ids are given out in increasing order and installing an answer is the only way for a new id to
become known; this is what keeps a late answer, a restoration and an opener from overwriting one
another's tunnels, and why `Answers` comes first. Instead of going through every action for
every part, the proof of the parts after `Types` goes through them four times to establish facts
about a step (`StepFacts`: tunnels, ids and routes; `AnnounceFacts`: tunnels that leave and
restorations; `CloserFacts`: close calls and what they are about; `SpecFacts`: specifications),
on top of one lemma per action that says what it does field by field (`...Effect`), and derives
the parts from the facts.

**HTTP pipe.** Two conjuncts of `PipeTypeOK` are not inductive: the daemon has written no more
of the body than the gateway forwarded, and the origin has read no more than was sent. They
follow from `PipeInv == Types /\ Conserved /\ Ordered`: the chunks on the hops to the origin,
the head the daemon holds while it dials and what the origin has read were all sent
(`Conserved`, an inequality, since chunks are lost with a tunnel or an end that leaves), and
while the gateway has body to forward, the stream carries at most what it wrote and the daemon
has not (`Ordered`).

## 8. Limits

Proved, for all values of the constants: every invariant and every action property of the
passing runs, and that the registry and the gateway implement `Reservation`.

Model-checked only: the liveness properties (`ReplacedEnds`, `DeadUnbound`, `KeepalivesEnd`,
`Reconnects`, `AnsweredEnds`, `DaemonFollows`, `GatewayFollows`), since liveness under fairness
is beyond the prover used here. The five properties of section 6 are violated, as TLC shows.

Not modelled yet: the `auth` command's rewrite of the daemon's configuration file; the gateway's
listeners and `Shutdown` (socket and TLS set-up around one hand-over on a channel); the length
of the backoff, on which no property depends; frame lengths and the syntax of origins and
subdomains (parsing). Not to be modelled: the local API's encoding, the CLI, the terminal
interface, service installation, logging and metrics (presentation); certificate handling and
ACME (calls into libraries); QUIC and HTTP/2 themselves, whose streams are taken as ordered and
lossless while their connection is open, which is what the code relies on.
