------------------------------ MODULE Identity ------------------------------
(***************************************************************************)
(* gateway/identity/store.go with its two users: the gateway process       *)
(* (POST /v1/enroll, CheckDevice for a connecting daemon) and the          *)
(* administration commands of cmd/passerelle-gateway, each a process of    *)
(* its own.  They share users.json, tokens.json and devices.json.          *)
(*                                                                         *)
(* In each process a mutex is held from the read of a file to the rename   *)
(* that replaces it, so the gateway has at most one writer and the         *)
(* sections of its handlers exclude each other (GatewayFree).  Users are   *)
(* written by commands only, one at a time, so a command's several reads   *)
(* are one step.                                                           *)
(***************************************************************************)
EXTENDS AtomicFiles

CONSTANTS Users, Tokens, Devices,
          Requests,       \* goroutines serving /v1/enroll
          Checks,         \* goroutines serving a connecting daemon
          DefaultDevices, \* DefaultQuotas().MaxDevices
          MaxDevices      \* bound on --devices

ASSUME IdentityAssumption ==
    /\ Files = {"users", "tokens", "devices"} /\ Procs = {"gateway", "admin"}
    /\ DefaultDevices \in 1..MaxDevices /\ MaxDevices \in Nat

User == [revoked : BOOLEAN, quota : 1..MaxDevices]
Token == [user : Users, consumed : BOOLEAN]
Device == [user : Users, revoked : BOOLEAN]

Content(f) == CASE f = "users" -> [Users -> User \cup {None}]
                [] f = "tokens" -> [Tokens -> Token \cup {None}]
                [] f = "devices" -> [Devices -> Device \cup {None}]

Commands == [op : {"add", "revoke", "device", "limits", "token"}, user : Users \cup {None}]

(* None, Truncated and Corrupt stand for nothing else; client ids are of   *)
(* one length (randomID), so there are finitely many.                      *)
ASSUME MarkersAssumption ==
    /\ None # Truncated /\ None # Corrupt /\ Truncated # Corrupt
    /\ None \notin Users \cup Tokens \cup Devices \cup User \cup Token \cup Device \cup Commands
    /\ \A f \in Files : /\ \A c \in Torn \cup {None} : c \notin Content(f)
                        /\ None \notin Writer(Content(f))
    /\ IsFiniteSet(Devices)

VARIABLES used,     \* tokens and client ids that were ever drawn at random
          req,      \* req[r]: where an enrollment is, and its locals
          chk,      \* chk[c]: where a CheckDevice is, and its locals
          cmd,      \* the running command: [op, user], or None
          acked,    \* history: users whose revocation was confirmed
          lowered   \* history: users whose device quota was lowered

actors == <<used, req, chk, cmd, acked, lowered>>
vars == <<fileVars, actors>>

Enrollments ==
    [pc : {"idle", "consuming", "consumed", "user", "registering", "enrolled", "burnt"},
     token : Tokens \cup {None}, user : Users \cup {None}, quota : 0..MaxDevices, dev : Devices \cup {None}]
DeviceChecks == [pc : {"idle", "user", "admitted"}, user : Users \cup {None},
                 dev : Devices \cup {None}, late : BOOLEAN]

Idle == [pc |-> "idle", token |-> None, user |-> None, quota |-> 0, dev |-> None]
NoCheck == [pc |-> "idle", user |-> None, dev |-> None, late |-> FALSE]

NoUsers == [u \in Users |-> None]
NoTokens == [t \in Tokens |-> None]
NoDevices == [d \in Devices |-> None]
Nothing(f) == CASE f = "users" -> NoUsers [] f = "tokens" -> NoTokens [] f = "devices" -> NoDevices

Init == /\ FilesInit([f \in Files |-> Nothing(f)])
        /\ used = {}
        /\ req = [r \in Requests |-> Idle]
        /\ chk = [c \in Checks |-> NoCheck]
        /\ cmd = None
        /\ acked = {}
        /\ lowered = {}

(* readJSON: a file of length 0 reads as an empty list.                    *)
Readable(f) == file[f] # Corrupt
Read(f) == IF file[f] = Truncated THEN Nothing(f) ELSE file[f]

Active(devices, u) == {d \in Devices : devices[d] # None /\ devices[d].user = u /\ ~devices[d].revoked}

(* Store.User, then the test of Revoked.                                   *)
Valid(u) == Readable("users") /\ Read("users")[u] # None /\ ~Read("users")[u].revoked

-----------------------------------------------------------------------------
(* POST /v1/enroll: three critical sections, and a refusal after the first *)
(* has burnt the token.                                                    *)

GatewayFree == wr["gateway"] = None
At(r, here) == req[r].pc = here
Burnt(q) == [Idle EXCEPT !.pc = "burnt", !.token = q.token]

\* Mutant: a consumed token is accepted.
ConsumeTokenAgain(r) ==
    /\ At(r, "idle") /\ GatewayFree /\ Readable("tokens")
    /\ \E t \in Tokens :
        LET tokens == Read("tokens") IN
        /\ tokens[t] # None
        /\ BeginWrite("gateway", "tokens", [tokens EXCEPT ![t].consumed = TRUE])
        /\ req' = [req EXCEPT ![r] = [Idle EXCEPT !.pc = "consuming", !.token = t,
                                                  !.user = tokens[t].user]]
    /\ UNCHANGED <<used, chk, cmd, acked, lowered>>

(* ConsumeToken; a token that is unknown, used or expired changes nothing. *)
ConsumeToken(r) ==
    /\ At(r, "idle") /\ GatewayFree /\ Readable("tokens")
    /\ \E t \in Tokens :
        LET tokens == Read("tokens") IN
        /\ tokens[t] # None /\ ~tokens[t].consumed
        /\ BeginWrite("gateway", "tokens", [tokens EXCEPT ![t].consumed = TRUE])
        /\ req' = [req EXCEPT ![r] = [Idle EXCEPT !.pc = "consuming", !.token = t,
                                                  !.user = tokens[t].user]]
    /\ UNCHANGED <<used, chk, cmd, acked, lowered>>

(* Enroll: the user is read under the lock, which is then released ...     *)
ReadUser(r) ==
    /\ At(r, "consumed") /\ GatewayFree /\ Valid(req[r].user)
    /\ req' = [req EXCEPT ![r].pc = "user", ![r].quota = Read("users")[req[r].user].quota]
    /\ UNCHANGED <<fileVars, used, chk, cmd, acked, lowered>>

\* Mutant: off by one.
RegisterOffByOne(r) ==
    /\ At(r, "user") /\ GatewayFree /\ Readable("devices")
    /\ LET devices == Read("devices") IN
       /\ Cardinality(Active(devices, req[r].user)) <= req[r].quota
       /\ \E d \in Devices \ used :
          /\ BeginWrite("gateway", "devices",
                        [devices EXCEPT ![d] = [user |-> req[r].user, revoked |-> FALSE]])
          /\ used' = used \cup {d}
          /\ req' = [req EXCEPT ![r].pc = "registering", ![r].quota = 0, ![r].dev = d]
    /\ UNCHANGED <<chk, cmd, acked, lowered>>

(* ... and the devices counted and written under it, with that quota.      *)
Register(r) ==
    /\ At(r, "user") /\ GatewayFree /\ Readable("devices")
    /\ LET devices == Read("devices") IN
       /\ Cardinality(Active(devices, req[r].user)) < req[r].quota
       /\ \E d \in Devices \ used :
          /\ BeginWrite("gateway", "devices",
                        [devices EXCEPT ![d] = [user |-> req[r].user, revoked |-> FALSE]])
          /\ used' = used \cup {d}
          /\ req' = [req EXCEPT ![r].pc = "registering", ![r].quota = 0, ![r].dev = d]
    /\ UNCHANGED <<chk, cmd, acked, lowered>>

(* Unknown or revoked user; unreadable file, quota, or a CSR that is not   *)
(* accepted.                                                               *)
EnrollFails(r) ==
    /\ GatewayFree
    /\ \/ At(r, "consumed") /\ ~Valid(req[r].user)
       \/ At(r, "user")
    /\ req' = [req EXCEPT ![r] = Burnt(req[r])]
    /\ UNCHANGED <<fileVars, used, chk, cmd, acked, lowered>>

(* The write of a handler returns.                                         *)
Renamed(q) == CASE q.pc = "consuming" -> [q EXCEPT !.pc = "consumed"]
                [] q.pc = "registering" -> [q EXCEPT !.pc = "enrolled"]
                [] OTHER -> q
NotRenamed(q) == CASE q.pc = "consuming" -> Idle
                   [] q.pc = "registering" -> Burnt(q)
                   [] OTHER -> q

GatewayWrites ==
    \/ (Truncate("gateway") \/ Write("gateway")) /\ UNCHANGED actors
    \/ /\ Rename("gateway", None)
       /\ req' = [r \in Requests |-> Renamed(req[r])]
       /\ UNCHANGED <<used, chk, cmd, acked, lowered>>
    \/ /\ WriteFails("gateway") \/ RenameFails("gateway")
       /\ req' = [r \in Requests |-> NotRenamed(req[r])]
       /\ UNCHANGED <<used, chk, cmd, acked, lowered>>

(* The gateway is killed and started again; its clients get no answer.     *)
Lost(q) == CASE q.pc = "consuming" -> Idle
             [] q.pc \in {"consumed", "user", "registering"} -> Burnt(q)
             [] OTHER -> q

GatewayCrash ==
    /\ Killed("gateway")
    /\ req' = [r \in Requests |-> Lost(req[r])]
    /\ chk' = [c \in Checks |-> NoCheck]
    /\ UNCHANGED <<used, cmd, acked, lowered>>

-----------------------------------------------------------------------------
(* A daemon connects with a certificate it was issued (handleTunnelTCP,    *)
(* serveQUIC): CheckDevice reads the user, releases the lock, and reads    *)
(* the devices.  "late" is history: the user's revocation was confirmed    *)
(* before the check began.                                                 *)

\* Mutant: only the device is looked at.
CheckUserSkipped(c) ==
    /\ chk[c].pc = "idle" /\ GatewayFree
    /\ \E r \in Requests :
        /\ At(r, "enrolled")
        /\ chk' = [chk EXCEPT ![c] = [pc |-> "user", user |-> req[r].user, dev |-> req[r].dev,
                                      late |-> req[r].user \in acked]]
    /\ UNCHANGED <<fileVars, used, req, cmd, acked, lowered>>

CheckUser(c) ==
    /\ chk[c].pc = "idle" /\ GatewayFree
    /\ \E r \in Requests :
        /\ At(r, "enrolled") /\ Valid(req[r].user)
        /\ chk' = [chk EXCEPT ![c] = [pc |-> "user", user |-> req[r].user, dev |-> req[r].dev,
                                      late |-> req[r].user \in acked]]
    /\ UNCHANGED <<fileVars, used, req, cmd, acked, lowered>>

CheckDevice(c) ==
    /\ chk[c].pc = "user" /\ GatewayFree
    /\ chk' = [chk EXCEPT ![c] = IF Readable("devices") /\ chk[c].dev \in Active(Read("devices"), chk[c].user)
                                 THEN [chk[c] EXCEPT !.pc = "admitted"] ELSE NoCheck]
    /\ UNCHANGED <<fileVars, used, req, cmd, acked, lowered>>

(* The admitted session ends: nothing else reads chk.                      *)
Leave(c) == /\ chk[c].pc = "admitted"
            /\ chk' = [chk EXCEPT ![c] = NoCheck]
            /\ UNCHANGED <<fileVars, used, req, cmd, acked, lowered>>

-----------------------------------------------------------------------------
(* Administration commands.                                                *)

Command(op, u, f, data) ==
    /\ cmd = None
    /\ cmd' = [op |-> op, user |-> u]
    /\ BeginWrite("admin", f, data)

(* A revoked user is written back as it was: Revoked is cleared in the     *)
(* copy that "range" made.  An existing one is an error.                   *)
AddUser(u) ==
    /\ Readable("users")
    /\ LET users == Read("users") IN
       \/ /\ users[u] = None
          /\ Command("add", u, "users",
                     [users EXCEPT ![u] = [revoked |-> FALSE, quota |-> DefaultDevices]])
       \/ /\ users[u] # None /\ users[u].revoked
          /\ Command("add", u, "users", users)
    /\ UNCHANGED <<used, req, chk, acked, lowered>>

(* Both files are read, the devices written first (see AdminWrites).       *)
RevokeUser(u) ==
    /\ Readable("users") /\ Read("users")[u] # None /\ Readable("devices")
    /\ LET devices == Read("devices") IN
       Command("revoke", u, "devices",
               [d \in Devices |-> IF devices[d] # None /\ devices[d].user = u
                                  THEN [devices[d] EXCEPT !.revoked = TRUE] ELSE devices[d]])
    /\ UNCHANGED <<used, req, chk, acked, lowered>>

\* Mutant: devices[i].Revoked = devices[i].ClientID == clientID
RevokeDeviceOnly(d) ==
    /\ Readable("devices") /\ Read("devices")[d] # None
    /\ LET devices == Read("devices") IN
       Command("device", None, "devices",
               [e \in Devices |-> IF devices[e] # None THEN [devices[e] EXCEPT !.revoked = (e = d)]
                                  ELSE None])
    /\ UNCHANGED <<used, req, chk, acked, lowered>>

RevokeDevice(d) ==
    /\ Readable("devices") /\ Read("devices")[d] # None
    /\ Command("device", None, "devices", [Read("devices") EXCEPT ![d].revoked = TRUE])
    /\ UNCHANGED <<used, req, chk, acked, lowered>>

\* Mutant: a quota of 0 is accepted.
PatchUserQuotasZero(u) ==
    /\ Valid(u)
    /\ \E q \in 0..MaxDevices : Command("limits", u, "users", [Read("users") EXCEPT ![u].quota = q])
    /\ UNCHANGED <<used, req, chk, acked, lowered>>

PatchUserQuotas(u) ==
    /\ Valid(u)
    /\ \E q \in 1..MaxDevices : Command("limits", u, "users", [Read("users") EXCEPT ![u].quota = q])
    /\ UNCHANGED <<used, req, chk, acked, lowered>>

CreateToken(u) ==
    /\ Valid(u) /\ Readable("tokens")
    /\ \E t \in Tokens \ used :
        /\ Command("token", u, "tokens",
                   [Read("tokens") EXCEPT ![t] = [user |-> u, consumed |-> FALSE]])
        /\ used' = used \cup {t}
    /\ UNCHANGED <<req, chk, acked, lowered>>

RevokedUsers == [Read("users") EXCEPT ![cmd.user].revoked = TRUE]

(* The write of a command returns; RevokeUser goes on with users.json.     *)
AdminWrites ==
    \/ (Truncate("admin") \/ Write("admin")) /\ UNCHANGED actors
    \/ /\ wr["admin"] # None /\ cmd.op = "revoke" /\ wr["admin"].f = "devices"
       /\ Rename("admin", Starting("users", RevokedUsers))
       /\ UNCHANGED actors
    \/ /\ wr["admin"] # None /\ ~(cmd.op = "revoke" /\ wr["admin"].f = "devices")
       /\ Rename("admin", None)
       /\ acked' = acked \cup {u \in {cmd.user} : cmd.op = "revoke"}
       /\ lowered' = lowered \cup {u \in {cmd.user} : /\ cmd.op = "limits"
                                                     /\ wr["admin"].data[u].quota < Read("users")[u].quota}
       /\ cmd' = None
       /\ UNCHANGED <<used, req, chk>>
    \/ /\ WriteFails("admin") \/ RenameFails("admin")
       /\ cmd' = None
       /\ UNCHANGED <<used, req, chk, acked, lowered>>

AdminCrash ==
    /\ cmd # None
    /\ Killed("admin")
    /\ cmd' = None
    /\ UNCHANGED <<used, req, chk, acked, lowered>>

-----------------------------------------------------------------------------

Enrollment(r) == ConsumeToken(r) \/ ReadUser(r) \/ Register(r) \/ EnrollFails(r)
Admission(c) == CheckUser(c) \/ CheckDevice(c) \/ Leave(c)

Next == \/ \E r \in Requests : Enrollment(r)
        \/ \E c \in Checks : Admission(c)
        \/ GatewayWrites
        \/ GatewayCrash
        \/ \E u \in Users : AddUser(u) \/ RevokeUser(u) \/ PatchUserQuotas(u) \/ CreateToken(u)
        \/ \E d \in Devices : RevokeDevice(d)
        \/ AdminWrites
        \/ AdminCrash

Spec == Init /\ [][Next]_vars

-----------------------------------------------------------------------------

(* Every file holds a list of its kind, or is cut or unreadable; each      *)
(* process writes data of the right kind.                                  *)
IdTypeOK ==
    /\ DOMAIN file = Files /\ DOMAIN tmp = Files /\ DOMAIN wr = Procs
    /\ \A f \in Files : /\ file[f] \in Content(f) \cup Torn
                        /\ tmp[f] \in Content(f) \cup Torn \cup {None}
    /\ \A p \in Procs : wr[p] # None => wr[p] \in Writer(Content(wr[p].f))
    /\ req \in [Requests -> Enrollments]
    /\ chk \in [Checks -> DeviceChecks]
    /\ cmd \in Commands \cup {None}
    /\ contended \subseteq Files /\ used \subseteq Tokens \cup Devices
    /\ acked \subseteq Users /\ lowered \subseteq Users

Spent(r) == req[r].pc \in {"consumed", "user", "registering", "enrolled", "burnt"}

(* "Single use": no two enrollments spend one token, whatever the crashes  *)
(* and the interleaving of handlers; a command that writes tokens.json     *)
(* while a handler does is the one exception.                              *)
TokenOnce ==
    "tokens" \notin contended =>
        \A r, s \in Requests : Spent(r) /\ Spent(s) /\ r # s => req[r].token # req[s].token

(* The device quota bounds the devices that would be let in, although it   *)
(* is read in one section and used in another, unless it was lowered       *)
(* (which revokes nothing); lost updates do not get around it.             *)
DeviceQuota ==
    \A u \in Users \ lowered :
        Read("users")[u] # None /\ Readable("devices") =>
            Cardinality(Active(Read("devices"), u)) <= Read("users")[u].quota

(* Once the revocation of a user is confirmed, no device of the user that  *)
(* connects afterwards is let in: not even one registered after it by an   *)
(* enrollment under way, nor one whose own revocation was overwritten.     *)
RevokedUserOut == \A c \in Checks : chk[c].pc = "admitted" => ~chk[c].late

Revoked(f, x) == f \notin Torn /\ f[x] # None /\ f[x].revoked
Enabled(f, x) == f \notin Torn /\ f[x] # None /\ ~f[x].revoked
Used(f, x) == f \notin Torn /\ f[x] # None /\ f[x].consumed
Unused(f, x) == f \notin Torn /\ f[x] # None /\ ~f[x].consumed

(* A revoked device becomes active, or a used token usable, only if both   *)
(* processes have written the file at once.                                *)
NothingUndone ==
    [][/\ (\E d \in Devices : Revoked(file["devices"], d) /\ Enabled(file'["devices"], d))
          => "devices" \in contended
       /\ (\E t \in Tokens : Used(file["tokens"], t) /\ Unused(file'["tokens"], t))
          => "tokens" \in contended]_vars
=============================================================================
