--------------------------- MODULE IdentityProofs ---------------------------
(***************************************************************************)
(* Proofs about Identity: what is promised of the three files holds for    *)
(* any number of users, tokens, devices and requests.                      *)
(*                                                                         *)
(* None of the checked properties is inductive: each depends on what is    *)
(* being written while it holds.  IInv says of every file                  *)
(*  - who writes it, and that a lone writer owns the temporary file        *)
(*    (FilesInv, GatewayControl, AdminControl);                            *)
(*  - what the content on its way may change: a command loses no user and  *)
(*    restores none (UsersInv), an uncontended write undoes nothing        *)
(*    (TokensInv, DevicesInv), and no version of devices.json, current,    *)
(*    pending or left over, exceeds a quota (QuotaInv).                    *)
(***************************************************************************)
EXTENDS Identity, FiniteSetTheorems, TLAPS

(* Types of what is on disk and of who writes. *)
FileTypes ==
    /\ DOMAIN file = Files /\ DOMAIN tmp = Files /\ DOMAIN wr = Procs
    /\ \A f \in Files : /\ file[f] \in Content(f) \cup Torn
                        /\ tmp[f] \in Content(f) \cup Torn \cup {None}
    /\ \A p \in Procs : wr[p] # None => wr[p] \in Writer(Content(wr[p].f))
    /\ contended \subseteq Files

(* While a process is the only writer of a file, the temporary file is its *)
(* own: it holds what the process has written so far.                      *)
OwnTmp(p, f) ==
    \/ wr[p].step = "truncate"
    \/ wr[p].fd = "tmp" /\ wr[p].step = "write" /\ tmp[f] = Truncated
    \/ wr[p].fd = "tmp" /\ wr[p].step = "rename" /\ tmp[f] = wr[p].data

(* No two processes write a file that is not contended, and it is intact. *)
SingleWriter ==
    \A f \in Files \ contended :
        /\ file[f] \in Content(f)
        /\ \A p, q \in Procs : Writing(p, f) /\ Writing(q, f) => p = q
        /\ \A p \in Procs : Writing(p, f) => OwnTmp(p, f)

FilesInv == FileTypes /\ SingleWriter

(* The file each command is writing. *)
WritesOf(op) == CASE op \in {"add", "limits"} -> {"users"}
                  [] op = "device" -> {"devices"}
                  [] op = "token" -> {"tokens"}
                  [] op = "revoke" -> {"devices", "users"}

(* Types of the handlers, the command and the histories. *)
ActorTypes == /\ req \in [Requests -> Enrollments]
              /\ chk \in [Checks -> DeviceChecks]
              /\ cmd \in Commands \cup {None}
              /\ used \subseteq Tokens \cup Devices
              /\ acked \subseteq Users /\ lowered \subseteq Users

(* The gateway's mutexes leave it one writer, and a handler that waits for *)
(* its write knows what is written.                                        *)
GatewayControl ==
    /\ wr["gateway"] # None => wr["gateway"].f \in {"tokens", "devices"}
    /\ \A r \in Requests :
        /\ req[r].pc # "idle" => req[r].token \in Tokens
        /\ req[r].pc \notin {"idle", "burnt"} => req[r].user \in Users
        /\ req[r].pc \in {"registering", "enrolled"} => req[r].dev \in Devices
        /\ At(r, "consuming") => Writing("gateway", "tokens")
        /\ At(r, "registering") => Writing("gateway", "devices")
    /\ \A r, s \in Requests : At(r, "consuming") /\ At(s, "consuming") => r = s
    /\ \A c \in Checks : chk[c].pc # "idle" => chk[c].user \in Users /\ chk[c].dev \in Devices

(* A command runs as long as it writes; its file follows from what it does. *)
AdminControl ==
    /\ cmd = None <=> wr["admin"] = None
    /\ cmd # None => /\ wr["admin"].f \in WritesOf(cmd.op)
                     /\ cmd.op # "device" => cmd.user \in Users

(* Only commands write users.json, one at a time: users are never lost or  *)
(* restored, and only "limits" lowers a quota.                             *)
UserGrows(old, new, u) ==
    old # None => /\ new # None
                  /\ old.revoked => new.revoked
                  /\ new.quota >= old.quota \/ cmd = [op |-> "limits", user |-> u]

(* So users.json is never contended, a confirmed revocation lasts, and a   *)
(* check that begins after it fails.                                       *)
UsersInv ==
    /\ "users" \notin contended
    /\ Writing("admin", "users") =>
          \A u \in Users : UserGrows(file["users"][u], wr["admin"].data[u], u)
    /\ cmd # None /\ cmd.op = "revoke" =>
          /\ file["users"][cmd.user] # None
          /\ Writing("admin", "users") => wr["admin"].data[cmd.user].revoked
    /\ \A u \in acked : Revoked(file["users"], u)
    /\ \A c \in Checks : ~chk[c].late

(* What is being written to a file, and all that it may hold when the      *)
(* writers are done.                                                       *)
Pending(f) == {wr[p].data : p \in {q \in Procs : Writing(q, f)}}

Versions(f) == {c \in {file[f], tmp[f]} \cup Pending(f) : c \notin Torn \cup {None}}

(* Tokens and client ids in a file have been drawn: a new one is new. *)
Drawn == /\ \A c \in Versions("tokens"), t \in Tokens : c[t] # None => t \in used
         /\ \A c \in Versions("devices"), d \in Devices : c[d] # None => d \in used

(* A token is spent in the file, and stays so in what will replace it,     *)
(* before the enrollment goes on.                                          *)
TokensSafe ==
    /\ \A r \in Requests :
          /\ Spent(r) => Used(file["tokens"], req[r].token)
          /\ At(r, "consuming") => /\ Unused(file["tokens"], req[r].token)
                                   /\ \A c \in Pending("tokens") : Used(c, req[r].token)
    /\ \A c \in Pending("tokens"), t \in Tokens : Used(file["tokens"], t) => Used(c, t)
    /\ \A r, s \in Requests : Spent(r) /\ Spent(s) /\ r # s => req[r].token # req[s].token

TokensInv == "tokens" \notin contended => TokensSafe

(* A lone writer of devices.json keeps the revoked devices revoked. *)
DevicesInv ==
    "devices" \notin contended =>
        \A c \in Pending("devices"), d \in Devices : Revoked(file["devices"], d) => Revoked(c, d)

(* Whatever version of devices.json survives, and whichever quota an       *)
(* enrollment has read.                                                    *)
WithinQuota(c, u) ==
    /\ Active(c, u) # {} => file["users"][u] # None
    /\ file["users"][u] # None /\ u \notin lowered =>
          Cardinality(Active(c, u)) <= file["users"][u].quota

QuotaRead(r, u) ==
    At(r, "user") /\ req[r].user = u =>
        /\ file["users"][u] # None
        /\ u \notin lowered => req[r].quota <= file["users"][u].quota

QuotaInv == \A u \in Users : /\ \A c \in Versions("devices") : WithinQuota(c, u)
                             /\ \A r \in Requests : QuotaRead(r, u)

TypeInv == FilesInv /\ ActorTypes /\ GatewayControl /\ AdminControl /\ UsersInv

IInv == TypeInv /\ Drawn /\ TokensInv /\ DevicesInv /\ QuotaInv

-----------------------------------------------------------------------------
(* FilesInv under each operation on files, whatever is written.            *)

(* The markers are not contents, and no writer is None.                    *)
LEMMA Contents ==
    ASSUME NEW f \in Files
    PROVE  /\ Truncated \notin Content(f) /\ Corrupt \notin Content(f) /\ None \notin Content(f)
           /\ None \notin Torn /\ None \notin Writer(Content(f))
           /\ Torn \cap Content(f) = {}
BY MarkersAssumption DEF Torn

(* A writer that starts is typed.                                          *)
LEMMA StartingIsWriter ==
    ASSUME NEW f \in Files, NEW data \in Content(f)
    PROVE  /\ Starting(f, data) \in Writer(Content(f)) /\ Starting(f, data) # None
           /\ Starting(f, data).f = f /\ Starting(f, data).data = data
           /\ Starting(f, data).step = "truncate"
<1>1. Starting(f, data) \in Writer(Content(f))
  BY DEF Starting, Writer
<1> QED
  BY <1>1, Contents DEF Starting

(* A second writer makes the file contended, a first one owns it.          *)
LEMMA BeginWriteKeeps ==
    ASSUME FilesInv, NEW p \in Procs, NEW f \in Files, NEW data \in Content(f),
           BeginWrite(p, f, data)
    PROVE  FilesInv'
<1>1. /\ wr[p] = None /\ wr' = [wr EXCEPT ![p] = Starting(f, data)]
      /\ file' = file /\ tmp' = tmp
      /\ contended' = Contended(p, f)
  BY DEF BeginWrite
<1>2. /\ DOMAIN wr' = Procs /\ wr'[p] = Starting(f, data)
      /\ \A q \in Procs \ {p} : wr'[q] = wr[q]
  BY <1>1 DEF FilesInv, FileTypes
<1>3. FileTypes'
  <2>1. \A q \in Procs : wr'[q] # None => wr'[q] \in Writer(Content(wr'[q].f))
    BY <1>2, StartingIsWriter DEF FilesInv, FileTypes
  <2>2. contended' \subseteq Files
    BY <1>1 DEF FilesInv, FileTypes, Contended
  <2> QED
    BY <1>1, <1>2, <2>1, <2>2 DEF FilesInv, FileTypes
<1>4. SingleWriter'
  <2> SUFFICES ASSUME NEW g \in Files, g \notin contended'
               PROVE  /\ file'[g] \in Content(g)
                      /\ \A q, r \in Procs : Writing(q, g)' /\ Writing(r, g)' => q = r
                      /\ \A q \in Procs : Writing(q, g)' => OwnTmp(q, g)'
    BY DEF SingleWriter
  <2>1. g \notin contended /\ (g = f => \A q \in Procs \ {p} : ~Writing(q, f))
    BY <1>1 DEF Contended
  <2>2. \A q \in Procs \ {p} : Writing(q, g)' = Writing(q, g) /\ OwnTmp(q, g)' = OwnTmp(q, g)
    BY <1>1, <1>2 DEF Writing, OwnTmp
  <2>3. ~Writing(p, g)
    BY <1>1 DEF Writing
  <2>4. Writing(p, g)' => g = f /\ OwnTmp(p, g)'
    BY <1>2, StartingIsWriter DEF Writing, OwnTmp
  <2> QED
    BY <1>1, <2>1, <2>2, <2>3, <2>4 DEF FilesInv, SingleWriter
<1> QED
  BY <1>3, <1>4 DEF FilesInv

(* A writer that advances still writes what it wrote, and the others are   *)
(* where they were.                                                        *)
LEMMA WritersStay ==
    ASSUME NEW p \in Procs, wr[p] # None, wr'[p] # None, wr'[p].f = wr[p].f,
           \A q \in Procs \ {p} : wr'[q] = wr[q]
    PROVE  \A g : \A q \in Procs : Writing(q, g)' = Writing(q, g)
<1> SUFFICES ASSUME NEW g, NEW q \in Procs
             PROVE  Writing(q, g)' = Writing(q, g)
  OBVIOUS
<1>1. CASE q = p
  BY <1>1 DEF Writing
<1>2. CASE q # p
  BY <1>2 DEF Writing
<1> QED
  BY <1>1, <1>2

(* The step of a writer that it only advances, by itself.                  *)
LEMMA TruncateKeeps ==
    ASSUME FilesInv, NEW p \in Procs, Truncate(p)
    PROVE  FilesInv'
<1> DEFINE f == wr[p].f
<1>1. /\ wr[p] # None /\ f \in Files
      /\ wr' = [wr EXCEPT ![p].step = "write", ![p].fd = "tmp"]
      /\ tmp' = [tmp EXCEPT ![f] = Truncated]
      /\ file' = file /\ contended' = contended
      /\ wr[p] \in Writer(Content(f))
  BY DEF Truncate, FilesInv, FileTypes, Writer
<1>2. /\ DOMAIN wr' = Procs /\ wr'[p] = [wr[p] EXCEPT !.step = "write", !.fd = "tmp"]
      /\ \A q \in Procs \ {p} : wr'[q] = wr[q]
  BY <1>1 DEF FilesInv, FileTypes
<1>3. /\ wr'[p] \in Writer(Content(f)) /\ wr'[p].f = f
      /\ wr'[p].step = "write" /\ wr'[p].fd = "tmp"
  BY <1>1, <1>2 DEF Writer
<1>4. DOMAIN tmp' = Files /\ tmp'[f] = Truncated /\ \A g \in Files \ {f} : tmp'[g] = tmp[g]
  BY <1>1 DEF FilesInv, FileTypes
<1>5. \A g : \A q \in Procs : Writing(q, g)' = Writing(q, g)
  <2>1. wr'[p] # None
    BY <1>1, <1>3, Contents
  <2> QED
    BY <1>1, <1>2, <1>3, <2>1, WritersStay
<1> HIDE DEF f
<1>6. FileTypes'
  BY <1>1, <1>2, <1>3, <1>4 DEF FilesInv, FileTypes, Torn
<1>7. SingleWriter'
  <2> SUFFICES ASSUME NEW g \in Files, g \notin contended, NEW q \in Procs, Writing(q, g)
               PROVE  OwnTmp(q, g)'
    BY <1>1, <1>5 DEF FilesInv, SingleWriter
  <2>1. CASE q = p
    BY <1>2, <1>3, <1>4, <2>1 DEF Writing, OwnTmp, f
  <2>2. CASE q # p
    <3>1. g # f
      BY <1>1, <2>2 DEF FilesInv, SingleWriter, Writing, f
    <3> QED
      BY <1>2, <1>4, <2>2, <3>1 DEF FilesInv, SingleWriter, OwnTmp
  <2> QED
    BY <2>1, <2>2
<1> QED
  BY <1>6, <1>7 DEF FilesInv

(* A lone writer finds the temporary file truncated and fills it.          *)
LEMMA WriteKeeps ==
    ASSUME FilesInv, NEW p \in Procs, Write(p)
    PROVE  FilesInv'
<1> DEFINE f == wr[p].f
           data == wr[p].data
<1>1. /\ wr[p] # None /\ f \in Files /\ data \in Content(f)
      /\ wr' = [wr EXCEPT ![p].step = "rename"]
      /\ contended' = contended /\ wr[p].step = "write"
      /\ wr[p] \in Writer(Content(f))
  BY DEF Write, FilesInv, FileTypes, Writer
<1>2. /\ DOMAIN wr' = Procs /\ wr'[p] = [wr[p] EXCEPT !.step = "rename"]
      /\ \A q \in Procs \ {p} : wr'[q] = wr[q]
  BY <1>1 DEF FilesInv, FileTypes
<1>3. /\ wr'[p] \in Writer(Content(f)) /\ wr'[p].f = f /\ wr'[p].data = data
      /\ wr'[p].step = "rename" /\ wr'[p].fd = wr[p].fd
  BY <1>1, <1>2 DEF Writer
<1>4. \A g : \A q \in Procs : Writing(q, g)' = Writing(q, g)
  <2>1. wr'[p] # None
    BY <1>1, <1>3, Contents
  <2> QED
    BY <1>1, <1>2, <1>3, <2>1, WritersStay
<1>5. Over(tmp[f], data) \subseteq Content(f) \cup Torn /\ Over(file[f], data) \subseteq Content(f) \cup Torn
  BY <1>1 DEF Over, Torn
<1>6. /\ DOMAIN file' = Files /\ DOMAIN tmp' = Files
      /\ \A g \in Files \ {f} : file'[g] = file[g] /\ tmp'[g] = tmp[g]
      /\ wr[p].fd # "path" => file'[f] = file[f]
      /\ wr[p].fd = "tmp" => tmp'[f] \in Over(tmp[f], data)
      /\ file'[f] \in {file[f]} \cup Over(file[f], data)
      /\ tmp'[f] \in {tmp[f]} \cup Over(tmp[f], data)
  <2>1. CASE wr[p].fd = "tmp"
    BY <1>1, <2>1 DEF Write, FilesInv, FileTypes
  <2>2. CASE wr[p].fd = "path"
    BY <1>1, <2>2 DEF Write, FilesInv, FileTypes
  <2>3. CASE wr[p].fd \notin {"tmp", "path"}
    BY <1>1, <2>3 DEF Write, FilesInv, FileTypes
  <2> QED
    BY <2>1, <2>2, <2>3
<1> HIDE DEF f, data
<1>7. FileTypes'
  BY <1>1, <1>2, <1>3, <1>5, <1>6 DEF FilesInv, FileTypes
<1>8. SingleWriter'
  <2> SUFFICES ASSUME NEW g \in Files, g \notin contended
               PROVE  file'[g] = file[g] /\ \A q \in Procs : Writing(q, g) => OwnTmp(q, g)'
    BY <1>1, <1>4 DEF FilesInv, SingleWriter
  <2>1. CASE g = f
    <3>1. Writing(p, g) /\ OwnTmp(p, g) /\ \A q \in Procs : Writing(q, g) => q = p
      BY <1>1, <2>1 DEF FilesInv, SingleWriter, Writing, f
    <3>2. wr[p].fd = "tmp" /\ tmp[f] = Truncated
      BY <1>1, <2>1, <3>1 DEF OwnTmp
    <3>3. file'[f] = file[f] /\ tmp'[f] = data
      BY <1>6, <3>2 DEF Over
    <3> QED
      BY <1>3, <2>1, <3>1, <3>2, <3>3 DEF OwnTmp
  <2>2. CASE g # f
    <3>1. \A q \in Procs : Writing(q, g) => q # p
      BY <2>2 DEF Writing, f
    <3> QED
      BY <1>2, <1>6, <2>2, <3>1 DEF FilesInv, SingleWriter, OwnTmp
  <2> QED
    BY <2>1, <2>2
<1> QED
  BY <1>7, <1>8 DEF FilesInv

(* The temporary file of a lone writer does not vanish.                    *)
LEMMA RenameFailsKeeps ==
    ASSUME FilesInv, NEW p \in Procs, RenameFails(p)
    PROVE  FilesInv' /\ wr[p].f \in contended
<1>1. /\ wr[p] # None /\ wr[p].step = "rename" /\ wr[p].f \in Files
      /\ wr[p].data \in Content(wr[p].f) /\ tmp[wr[p].f] = None
      /\ wr' = [wr EXCEPT ![p] = None]
      /\ file' = file /\ tmp' = tmp /\ contended' = contended
  BY DEF RenameFails, FilesInv, FileTypes, Writer
<1>2. DOMAIN wr' = Procs /\ wr'[p] = None /\ \A q \in Procs \ {p} : wr'[q] = wr[q]
  BY <1>1 DEF FilesInv, FileTypes
<1>3. FileTypes'
  BY <1>1, <1>2 DEF FilesInv, FileTypes
<1>4. SingleWriter'
  <2> SUFFICES ASSUME NEW g \in Files, g \notin contended
               PROVE  /\ \A q, r \in Procs : Writing(q, g)' /\ Writing(r, g)' => q = r
                      /\ \A q \in Procs : Writing(q, g)' => OwnTmp(q, g)'
    BY <1>1 DEF FilesInv, SingleWriter
  <2>1. \A q \in Procs : Writing(q, g)' => q # p /\ Writing(q, g) /\ (OwnTmp(q, g) => OwnTmp(q, g)')
    BY <1>1, <1>2 DEF Writing, OwnTmp
  <2> QED
    BY <2>1 DEF FilesInv, SingleWriter
<1>5. wr[p].f \in contended
  <2>1. ~OwnTmp(p, wr[p].f)
    BY <1>1, Contents, MarkersAssumption DEF OwnTmp
  <2> QED
    BY <1>1, <2>1 DEF FilesInv, SingleWriter, Writing
<1> QED
  BY <1>3, <1>4, <1>5 DEF FilesInv

(* A writer that stops writes in the file itself only if another process   *)
(* has renamed its temporary file.                                         *)
LEMMA StopsEffect ==
    ASSUME FilesInv, NEW p \in Procs, Stops(p)
    PROVE  /\ wr' = [wr EXCEPT ![p] = None] /\ contended' = contended
           /\ DOMAIN file' = Files /\ DOMAIN tmp' = Files
           /\ \A f \in Files : /\ file'[f] \in {file[f], Corrupt}
                               /\ f \notin contended => file'[f] = file[f]
                               /\ tmp'[f] \in {tmp[f], Corrupt, None}
                               /\ \/ tmp'[f] = tmp[f]
                                  \/ tmp'[f] = None /\ \A q \in Procs \ {p} : ~Writing(q, f)
                                  \/ f \in contended
<1>1. PICK partly \in BOOLEAN :
        /\ file' = [f \in Files |-> IF partly /\ InData(p, f, "path") THEN Corrupt ELSE file[f]]
        /\ tmp' = [f \in Files |-> IF Writing(p, f) /\ ~\E q \in Procs \ {p} : Writing(q, f) THEN None
                                   ELSE IF partly /\ InData(p, f, "tmp") THEN Corrupt ELSE tmp[f]]
  BY DEF Stops
<1>2. ASSUME NEW f \in Files, f \notin contended
      PROVE  /\ ~InData(p, f, "path")
             /\ Writing(p, f) => \A q \in Procs \ {p} : ~Writing(q, f)
  BY <1>2 DEF FilesInv, SingleWriter, OwnTmp, InData
<1>3. \A f \in Files : /\ file'[f] \in {file[f], Corrupt}
                      /\ f \notin contended => file'[f] = file[f]
  BY <1>1, <1>2
<1>4. ASSUME NEW f \in Files
      PROVE  /\ tmp'[f] \in {tmp[f], Corrupt, None}
             /\ \/ tmp'[f] = tmp[f]
                \/ tmp'[f] = None /\ \A q \in Procs \ {p} : ~Writing(q, f)
                \/ f \in contended
  <2>1. CASE Writing(p, f) /\ ~\E q \in Procs \ {p} : Writing(q, f)
    BY <1>1, <2>1
  <2>2. CASE ~(Writing(p, f) /\ ~\E q \in Procs \ {p} : Writing(q, f))
    <3>1. tmp'[f] = IF partly /\ InData(p, f, "tmp") THEN Corrupt ELSE tmp[f]
      BY <1>1, <2>2
    <3> QED
      BY <1>2, <2>2, <3>1 DEF InData
  <2> QED
    BY <2>1, <2>2
<1> QED
  BY <1>1, <1>3, <1>4 DEF Stops

LEMMA StopsKeeps ==
    ASSUME FilesInv, NEW p \in Procs, Stops(p)
    PROVE  FilesInv'
<1>1. /\ wr' = [wr EXCEPT ![p] = None] /\ contended' = contended
      /\ DOMAIN file' = Files /\ DOMAIN tmp' = Files
      /\ \A f \in Files : /\ file'[f] \in {file[f], Corrupt}
                          /\ f \notin contended => file'[f] = file[f]
                          /\ tmp'[f] \in {tmp[f], Corrupt, None}
                          /\ \/ tmp'[f] = tmp[f]
                             \/ tmp'[f] = None /\ \A q \in Procs \ {p} : ~Writing(q, f)
                             \/ f \in contended
  BY StopsEffect
<1>2. DOMAIN wr' = Procs /\ wr'[p] = None /\ \A q \in Procs \ {p} : wr'[q] = wr[q]
  BY <1>1 DEF FilesInv, FileTypes
<1>3. FileTypes'
  BY <1>1, <1>2 DEF FilesInv, FileTypes, Torn
<1>4. SingleWriter'
  <2> SUFFICES ASSUME NEW g \in Files, g \notin contended
               PROVE  /\ \A q, r \in Procs : Writing(q, g)' /\ Writing(r, g)' => q = r
                      /\ \A q \in Procs : Writing(q, g)' => OwnTmp(q, g)'
    BY <1>1 DEF FilesInv, SingleWriter
  <2>1. \A q \in Procs : Writing(q, g)' => q # p /\ Writing(q, g) /\ wr'[q] = wr[q]
    BY <1>1, <1>2 DEF Writing
  <2>2. \A q \in Procs : Writing(q, g)' => tmp'[g] = tmp[g]
    BY <1>1, <2>1
  <2> QED
    BY <2>1, <2>2 DEF FilesInv, SingleWriter, OwnTmp
<1> QED
  BY <1>3, <1>4 DEF FilesInv

(* A writer goes on with another write, or is done. *)
Continues(next) == \/ next = None
                   \/ \E f \in Files : \E data \in Content(f) : next = Starting(f, data)

(* A lone writer renames what it has written; descriptors that others      *)
(* held follow the file, which is contended then.                          *)
LEMMA RenameKeeps ==
    ASSUME FilesInv, NEW p \in Procs, NEW next, Continues(next), Rename(p, next)
    PROVE  FilesInv'
<1> DEFINE f == wr[p].f
<1>1. /\ wr[p] # None /\ f \in Files /\ wr[p].step = "rename"
      /\ tmp[f] \in Content(f) \cup Torn
      /\ file' = [file EXCEPT ![f] = tmp[f]]
      /\ tmp' = [tmp EXCEPT ![f] = None]
      /\ contended \subseteq contended'
  BY DEF Rename, FilesInv, FileTypes, Writer, Contended
<1>2. /\ DOMAIN wr' = Procs /\ wr'[p] = next
      /\ \A q \in Procs \ {p} : wr'[q] = IF Writing(q, f) THEN [wr[q] EXCEPT !.fd = Moved(@)]
                                         ELSE wr[q]
  BY DEF Rename
<1>3. \A q \in Procs \ {p} : wr[q] # None =>
         /\ wr'[q] \in Writer(Content(wr[q].f)) /\ wr'[q] # None
         /\ wr'[q].f = wr[q].f /\ wr'[q].data = wr[q].data /\ wr'[q].step = wr[q].step
  <2> SUFFICES ASSUME NEW q \in Procs \ {p}, wr[q] # None
               PROVE  /\ wr'[q] \in Writer(Content(wr[q].f)) /\ wr'[q] # None
                      /\ wr'[q].f = wr[q].f /\ wr'[q].data = wr[q].data /\ wr'[q].step = wr[q].step
    OBVIOUS
  <2>1. wr[q] \in Writer(Content(wr[q].f)) /\ wr[q].f \in Files
    BY DEF FilesInv, FileTypes, Writer
  <2>2. Moved(wr[q].fd) \in {"none", "tmp", "path", "unlinked"}
    BY <2>1 DEF Moved, Writer
  <2>3. wr'[q] \in Writer(Content(wr[q].f)) /\ wr'[q].f = wr[q].f /\ wr'[q].data = wr[q].data
        /\ wr'[q].step = wr[q].step
    BY <1>2, <2>1, <2>2 DEF Writer
  <2> QED
    BY <2>1, <2>3, Contents
<1>4. \A q \in Procs \ {p} : wr[q] = None => wr'[q] = None
  BY <1>2 DEF Writing
<1>5. next # None => next \in Writer(Content(next.f)) /\ next.step = "truncate"
  BY StartingIsWriter DEF Continues
<1>6. next # None => next.f \in Files /\ contended' = Contended(p, next.f)
  BY <1>5 DEF Rename, Writer
<1>7. /\ DOMAIN file' = Files /\ DOMAIN tmp' = Files
      /\ file'[f] = tmp[f] /\ \A g \in Files \ {f} : file'[g] = file[g] /\ tmp'[g] = tmp[g]
      /\ tmp'[f] = None
  BY <1>1 DEF FilesInv, FileTypes
<1>8. contended' \subseteq Files
  BY <1>6 DEF Rename, Contended, FilesInv, FileTypes
<1> HIDE DEF f
<1>9. FileTypes'
  <2>1. \A q \in Procs : wr'[q] # None => wr'[q] \in Writer(Content(wr'[q].f))
    BY <1>2, <1>3, <1>4, <1>5
  <2> QED
    BY <1>1, <1>2, <1>7, <1>8, <2>1 DEF FilesInv, FileTypes
<1>10. SingleWriter'
  <2> SUFFICES ASSUME NEW g \in Files, g \notin contended'
               PROVE  /\ file'[g] \in Content(g)
                      /\ \A q, r \in Procs : Writing(q, g)' /\ Writing(r, g)' => q = r
                      /\ \A q \in Procs : Writing(q, g)' => OwnTmp(q, g)'
    BY DEF SingleWriter
  <2>1. g \notin contended
    BY <1>1
  <2>2. \A q \in Procs \ {p} : Writing(q, g)' => Writing(q, g)
    BY <1>3, <1>4 DEF Writing
  <2>3. Writing(p, g)' => /\ OwnTmp(p, g)'
                          /\ \A q \in Procs \ {p} : ~Writing(q, g)
    BY <1>2, <1>5, <1>6 DEF Writing, OwnTmp, Contended
  <2>4. CASE g = f
    <3>1. Writing(p, g) /\ OwnTmp(p, g) /\ \A q \in Procs : Writing(q, g) => q = p
      BY <1>1, <2>1, <2>4 DEF FilesInv, SingleWriter, Writing, f
    <3>2. file'[g] = wr[p].data /\ wr[p].data \in Content(g)
      BY <1>1, <1>7, <2>4, <3>1 DEF OwnTmp, FilesInv, FileTypes, Writer, f
    <3> QED
      BY <2>2, <2>3, <3>1, <3>2
  <2>5. CASE g # f
    <3>1. \A q \in Procs \ {p} : Writing(q, g)' => wr'[q] = wr[q]
      BY <1>2, <2>2, <2>5 DEF Writing
    <3>2. file'[g] = file[g] /\ tmp'[g] = tmp[g]
      BY <1>7, <2>5
    <3>3. \A q \in Procs \ {p} : Writing(q, g)' => OwnTmp(q, g)'
      BY <2>1, <2>2, <3>1, <3>2 DEF FilesInv, SingleWriter, OwnTmp
    <3> QED
      BY <2>1, <2>2, <2>3, <3>2, <3>3 DEF FilesInv, SingleWriter
  <2> QED
    BY <2>4, <2>5
<1> QED
  BY <1>9, <1>10 DEF FilesInv

-----------------------------------------------------------------------------
(* What the operations do to the versions of a file.                       *)

(* A process writes what it wrote before, or still nothing.                *)
Same(q) == /\ wr'[q] = None <=> wr[q] = None
           /\ wr[q] # None => wr'[q].f = wr[q].f /\ wr'[q].data = wr[q].data

(* A file that is not contended is left alone, or its only writer is done. *)
Settles(f) == \/ file'[f] = file[f] /\ Pending(f)' \subseteq Pending(f)
              \/ file'[f] \in Pending(f) /\ Pending(f)' = {}

(* It is replaced only by what was being written. *)
Moves == \A f \in Files \ contended : file'[f] \in {file[f]} \cup Pending(f)

Quiet == /\ Moves
         /\ contended \subseteq contended'
         /\ \A f \in Files : /\ Versions(f)' \subseteq Versions(f)
                             /\ f \notin contended' => Settles(f)

Begins(f, data) ==
    /\ Moves
    /\ contended \subseteq contended'
    /\ Versions(f)' \subseteq Versions(f) \cup {data}
    /\ f \notin contended' => file'[f] = file[f] /\ Pending(f)' \subseteq {data}
    /\ \A g \in Files \ {f} : /\ Versions(g)' \subseteq Versions(g)
                              /\ g \notin contended' => Settles(g)

(* If every process writes what it wrote, so do all together.              *)
LEMMA SamePending ==
    ASSUME \A q \in Procs : Same(q), NEW f
    PROVE  Pending(f)' = Pending(f)
<1>1. \A q \in Procs : /\ Writing(q, f)' <=> Writing(q, f)
                       /\ Writing(q, f) => wr'[q].data = wr[q].data
  BY DEF Same, Writing
<1>2. ASSUME NEW c \in Pending(f) PROVE c \in Pending(f)'
  <2>1. PICK q \in Procs : Writing(q, f) /\ c = wr[q].data
    BY <1>2 DEF Pending
  <2> QED
    BY <1>1, <2>1 DEF Pending
<1>3. ASSUME NEW c \in Pending(f)' PROVE c \in Pending(f)
  <2>1. PICK q \in Procs : Writing(q, f)' /\ c = wr'[q].data
    BY <1>3 DEF Pending
  <2> QED
    BY <1>1, <2>1 DEF Pending
<1> QED
  BY <1>2, <1>3

(* A write that begins adds one version of one file.                       *)
LEMMA BeginWriteEffect ==
    ASSUME FilesInv, NEW p \in Procs, NEW f \in Files, NEW data \in Content(f),
           BeginWrite(p, f, data)
    PROVE  /\ Begins(f, data) /\ file' = file
           /\ wr'[p] # None /\ wr'[p].f = f /\ wr'[p].data = data
           /\ \A q \in Procs \ {p} : wr'[q] = wr[q]
           /\ \A q \in Procs \ {p} : f \notin contended' => ~Writing(q, f)
<1>1. /\ wr[p] = None /\ wr'[p] = Starting(f, data)
      /\ \A q \in Procs \ {p} : wr'[q] = wr[q]
      /\ file' = file /\ tmp' = tmp /\ contended' = Contended(p, f)
  BY DEF BeginWrite, FilesInv, FileTypes
<1>2. wr'[p] # None /\ wr'[p].f = f /\ wr'[p].data = data
  BY <1>1, StartingIsWriter
<1>3. \A q \in Procs \ {p} : f \notin contended' => ~Writing(q, f)
  BY <1>1 DEF Contended
<1>4. ASSUME NEW g, NEW c \in Pending(g)'
      PROVE  c \in Pending(g) \/ (g = f /\ c = data)
  <2>1. PICK q \in Procs : Writing(q, g)' /\ c = wr'[q].data
    BY <1>4 DEF Pending
  <2>2. CASE q = p
    BY <1>2, <2>1, <2>2 DEF Writing
  <2>3. CASE q # p
    <3>1. Writing(q, g) /\ c = wr[q].data
      BY <1>1, <2>1, <2>3 DEF Writing
    <3> QED
      BY <2>1, <3>1 DEF Pending
  <2> QED
    BY <2>2, <2>3
<1>5. f \notin contended' => Pending(f) = {}
  BY <1>1, <1>3 DEF Pending, Writing
<1>6. \A g \in Files \ {f} : Versions(g)' \subseteq Versions(g) /\ Settles(g)
  BY <1>1, <1>4 DEF Versions, Settles
<1>7. Versions(f)' \subseteq Versions(f) \cup {data}
  BY <1>1, <1>4 DEF Versions
<1>8. f \notin contended' => Pending(f)' \subseteq {data}
  BY <1>4, <1>5
<1>9. contended \subseteq contended'
  BY <1>1 DEF Contended
<1> QED
  BY <1>1, <1>2, <1>3, <1>6, <1>7, <1>8, <1>9 DEF Begins, Moves

(* Truncating and writing add no version; the file itself is untouched     *)
(* unless it is contended.                                                 *)
LEMMA AdvanceEffect ==
    ASSUME FilesInv, NEW p \in Procs, Truncate(p) \/ Write(p)
    PROVE  /\ Quiet /\ contended' = contended
           /\ \A q \in Procs : Same(q)
           /\ \A f \in Files \ contended : file'[f] = file[f]
<1> DEFINE f == wr[p].f
           data == wr[p].data
<1>1. /\ wr[p] # None /\ f \in Files /\ data \in Content(f) /\ contended' = contended
      /\ wr[p] \in Writer(Content(f))
  BY DEF Truncate, Write, FilesInv, FileTypes, Writer
<1>2. FilesInv'
  BY TruncateKeeps, WriteKeeps
<1>3. \A q \in Procs : Same(q)
  <2>1. \A q \in Procs \ {p} : wr'[q] = wr[q]
    BY DEF Truncate, Write, FilesInv, FileTypes
  <2>2. wr'[p].f = f /\ wr'[p].data = data /\ wr'[p].step \in {"write", "rename"}
        /\ wr'[p] \in Writer(Content(f))
    <3>1. CASE Truncate(p)
      <4>1. wr'[p] = [wr[p] EXCEPT !.step = "write", !.fd = "tmp"]
        BY <3>1 DEF Truncate, FilesInv, FileTypes
      <4> QED
        BY <1>1, <4>1 DEF Writer
    <3>2. CASE Write(p)
      <4>1. wr'[p] = [wr[p] EXCEPT !.step = "rename"]
        BY <3>2 DEF Write, FilesInv, FileTypes
      <4> QED
        BY <1>1, <4>1 DEF Writer
    <3> QED
      BY <3>1, <3>2
  <2>3. wr'[p] # None
    BY <1>1, <2>2, Contents
  <2> QED
    BY <1>1, <2>1, <2>2, <2>3 DEF Same
<1>4. /\ \A g \in Files \ {f} : file'[g] = file[g] /\ tmp'[g] = tmp[g]
      /\ file'[f] \in {file[f], data} \cup Torn
      /\ tmp'[f] \in {tmp[f], data} \cup Torn
      /\ file'[f] = file[f] \/ (wr[p].fd = "path" /\ wr[p].step = "write")
  <2>1. DOMAIN file = Files /\ DOMAIN tmp = Files
    BY DEF FilesInv, FileTypes
  <2>2. CASE Truncate(p)
    BY <1>1, <2>1, <2>2 DEF Truncate, Torn
  <2>3. CASE Write(p)
    <3>1. /\ Over(tmp[f], data) \subseteq {data} \cup Torn
          /\ Over(file[f], data) \subseteq {data} \cup Torn
          /\ wr[p].step = "write"
      BY <2>3 DEF Over, Torn, Write
    <3>2. CASE wr[p].fd = "tmp"
      BY <1>1, <2>1, <2>3, <3>1, <3>2 DEF Write
    <3>3. CASE wr[p].fd = "path"
      BY <1>1, <2>1, <2>3, <3>1, <3>3 DEF Write
    <3>4. CASE wr[p].fd \notin {"tmp", "path"}
      BY <1>1, <2>3, <3>4 DEF Write
    <3> QED
      BY <3>2, <3>3, <3>4
  <2> QED
    BY <2>2, <2>3
<1>5. f \notin contended => file'[f] = file[f]
  <2>1. f \notin contended => OwnTmp(p, f)
    BY <1>1 DEF FilesInv, SingleWriter, Writing
  <2> QED
    BY <1>4, <2>1 DEF OwnTmp
<1>6. data \in Pending(f)
  BY <1>1 DEF Pending, Writing
<1>7. \A g : Pending(g)' = Pending(g)
  BY <1>3, SamePending
<1> HIDE DEF f, data
<1>8. \A g \in Files : Versions(g)' \subseteq Versions(g)
  BY <1>4, <1>6, <1>7 DEF Versions
<1>9. \A g \in Files \ contended : file'[g] = file[g]
  BY <1>4, <1>5
<1> QED
  BY <1>1, <1>3, <1>7, <1>8, <1>9 DEF Quiet, Settles, Moves

(* A writer that fails or is killed adds no version, and touches no file   *)
(* that only it writes.                                                    *)
LEMMA StopIsQuiet ==
    ASSUME FilesInv, NEW p \in Procs, Stops(p) \/ RenameFails(p)
    PROVE  /\ FilesInv' /\ Quiet /\ contended' = contended /\ wr'[p] = None
           /\ \A f \in Files \ contended : file'[f] = file[f]
           /\ \A q \in Procs \ {p} : wr'[q] = wr[q]
<1>1. /\ wr'[p] = None /\ \A q \in Procs \ {p} : wr'[q] = wr[q]
      /\ contended' = contended
      /\ \A f \in Files : /\ file'[f] \in {file[f], Corrupt}
                          /\ f \notin contended => file'[f] = file[f]
                          /\ tmp'[f] \in {tmp[f], Corrupt, None}
  <2>1. CASE Stops(p)
    BY <2>1, StopsEffect DEF FilesInv, FileTypes
  <2>2. CASE RenameFails(p)
    BY <2>2 DEF RenameFails, FilesInv, FileTypes
  <2> QED
    BY <2>1, <2>2
<1>2. ASSUME NEW g, NEW c \in Pending(g)'
      PROVE  c \in Pending(g)
  <2>1. PICK q \in Procs : Writing(q, g)' /\ c = wr'[q].data
    BY <1>2 DEF Pending
  <2>2. q # p /\ wr'[q] = wr[q]
    BY <1>1, <2>1 DEF Writing
  <2> QED
    BY <2>1, <2>2 DEF Pending, Writing
<1>3. \A f \in Files : Versions(f)' \subseteq Versions(f)
  BY <1>1, <1>2 DEF Versions, Torn
<1>4. FilesInv'
  BY StopsKeeps, RenameFailsKeeps
<1> QED
  BY <1>1, <1>2, <1>3, <1>4 DEF Quiet, Settles, Moves

(* The rename of a file's only writer. *)
LEMMA RenameEffect ==
    ASSUME FilesInv, NEW p \in Procs, NEW next, Continues(next), Rename(p, next)
    PROVE  /\ wr[p] # None /\ wr[p].f \in Files /\ wr[p].data \in Pending(wr[p].f)
           /\ wr'[p] = next /\ \A q \in Procs \ {p} : Same(q)
           /\ wr[p].f \notin contended => file'[wr[p].f] = wr[p].data
           /\ \A g \in Files \ {wr[p].f} : file'[g] = file[g]
           /\ next = None => Quiet
           /\ next # None /\ next.f # wr[p].f => Begins(next.f, next.data)
           /\ contended' = IF next = None THEN contended ELSE Contended(p, next.f)
<1> DEFINE f == wr[p].f
           data == wr[p].data
<1>1. /\ wr[p] # None /\ f \in Files /\ data \in Pending(f) /\ wr[p].step = "rename"
      /\ contended' = IF next = None THEN contended ELSE Contended(p, next.f)
      /\ contended \subseteq contended'
      /\ wr'[p] = next
  BY DEF Rename, FilesInv, FileTypes, Writer, Pending, Writing, Contended
<1>2. /\ file'[f] = tmp[f] /\ tmp'[f] = None
      /\ \A g \in Files \ {f} : file'[g] = file[g] /\ tmp'[g] = tmp[g]
  BY <1>1 DEF Rename, FilesInv, FileTypes
<1>3. ASSUME NEW q \in Procs \ {p} PROVE Same(q)
  <2>1. wr'[q] = IF Writing(q, f) THEN [wr[q] EXCEPT !.fd = Moved(@)] ELSE wr[q]
    BY DEF Rename
  <2>2. CASE wr[q] = None
    BY <2>1, <2>2 DEF Same, Writing
  <2>3. CASE wr[q] # None
    <3>1. wr[q] \in Writer(Content(wr[q].f)) /\ wr[q].f \in Files
      BY <2>3 DEF FilesInv, FileTypes, Writer
    <3>2. Moved(wr[q].fd) \in {"none", "tmp", "path", "unlinked"}
      BY <3>1 DEF Moved, Writer
    <3>3. wr'[q] \in Writer(Content(wr[q].f)) /\ wr'[q].f = wr[q].f /\ wr'[q].data = wr[q].data
      BY <2>1, <3>1, <3>2 DEF Writer
    <3> QED
      BY <2>3, <3>1, <3>3, Contents DEF Same
  <2> QED
    BY <2>2, <2>3
<1>4. f \notin contended => tmp[f] = data /\ \A q \in Procs : Writing(q, f) => q = p
  BY <1>1 DEF FilesInv, SingleWriter, Writing, OwnTmp
<1>5. ASSUME NEW g, NEW c \in Pending(g)'
      PROVE  \/ next # None /\ g = next.f /\ c = next.data
             \/ c \in Pending(g) /\ ~(g = f /\ f \notin contended)
  <2>1. PICK q \in Procs : Writing(q, g)' /\ c = wr'[q].data
    BY <1>5 DEF Pending
  <2>2. CASE q = p
    BY <1>1, <2>1, <2>2 DEF Writing
  <2>3. CASE q # p
    <3>1. Writing(q, g) /\ c = wr[q].data
      BY <1>3, <2>1, <2>3 DEF Same, Writing
    <3> QED
      BY <1>4, <2>3, <3>1 DEF Pending
  <2> QED
    BY <2>2, <2>3
<1> HIDE DEF f, data
<1>6. ASSUME NEW g \in Files, next # None => g # next.f
      PROVE  /\ Versions(g)' \subseteq Versions(g)
             /\ g \notin contended => Settles(g)
  <2>1. Pending(g)' \subseteq Pending(g)
    BY <1>5, <1>6
  <2>2. Versions(g)' \subseteq Versions(g)
    BY <1>2, <2>1 DEF Versions
  <2>3. g = f /\ g \notin contended => Pending(g)' = {}
    BY <1>5, <1>6
  <2> QED
    BY <1>1, <1>2, <1>4, <2>1, <2>2, <2>3 DEF Settles
<1>7. Moves
  BY <1>1, <1>2, <1>4 DEF Moves
<1>8. next = None => Quiet
  BY <1>1, <1>6, <1>7 DEF Quiet
<1>9. next # None /\ next.f # f => Begins(next.f, next.data)
  <2> SUFFICES ASSUME next # None, next.f # f PROVE Begins(next.f, next.data)
    OBVIOUS
  <2>1. next.f \in Files
    <3>1. PICK g \in Files : \E d \in Content(g) : next = Starting(g, d)
      BY DEF Continues
    <3> QED
      BY <3>1, StartingIsWriter
  <2>2. Versions(next.f)' \subseteq Versions(next.f) \cup {next.data}
    BY <1>2, <1>5, <2>1 DEF Versions
  <2>3. next.f \notin contended' => /\ file'[next.f] = file[next.f]
                                    /\ Pending(next.f)' \subseteq {next.data}
    <3> SUFFICES ASSUME next.f \notin contended'
                 PROVE  /\ file'[next.f] = file[next.f]
                        /\ Pending(next.f)' \subseteq {next.data}
      OBVIOUS
    <3>1. \A q \in Procs \ {p} : ~Writing(q, next.f)
      BY <1>1 DEF Contended
    <3>2. Pending(next.f) = {}
      BY <3>1 DEF Pending, Writing, f
    <3> QED
      BY <1>2, <1>5, <2>1, <3>2
  <2> QED
    BY <1>1, <1>6, <1>7, <2>2, <2>3 DEF Begins
<1> QED
  BY <1>1, <1>2, <1>3, <1>4, <1>8, <1>9 DEF f, data

-----------------------------------------------------------------------------
(* Typed contents.                                                         *)

(* The files, the processes and the kinds of content by name.              *)
LEMMA Names ==
    /\ "users" \in Files /\ "tokens" \in Files /\ "devices" \in Files
    /\ Procs = {"gateway", "admin"} /\ "gateway" # "admin"
    /\ Content("users") = [Users -> User \cup {None}]
    /\ Content("tokens") = [Tokens -> Token \cup {None}]
    /\ Content("devices") = [Devices -> Device \cup {None}]
    /\ Nothing("users") = NoUsers /\ Nothing("tokens") = NoTokens /\ Nothing("devices") = NoDevices
BY IdentityAssumption DEF Content, Nothing

(* The empty list is a list of the kind.                                   *)
LEMMA NothingTyped ==
    ASSUME NEW f \in Files
    PROVE  Nothing(f) \in Content(f)
<1>1. f \in {"users", "tokens", "devices"}
  BY IdentityAssumption
<1> QED
  BY <1>1, Names DEF NoUsers, NoTokens, NoDevices

(* What readJSON accepts is a version of the file or the empty list.       *)
LEMMA ReadTyped ==
    ASSUME FilesInv, NEW f \in Files, Readable(f)
    PROVE  /\ Read(f) \in Content(f)
           /\ Read(f) \in Versions(f) \cup {Nothing(f)}
<1>1. file[f] \in Content(f) \/ file[f] = Truncated
  BY DEF FilesInv, FileTypes, Readable, Torn
<1>2. CASE file[f] = Truncated
  BY <1>2, NothingTyped DEF Read
<1>3. CASE file[f] # Truncated
  <2>1. file[f] \in Content(f) /\ Read(f) = file[f]
    BY <1>1, <1>3 DEF Read
  <2>2. file[f] \notin Torn \cup {None}
    BY <2>1, Contents
  <2> QED
    BY <2>1, <2>2 DEF Versions
<1> QED
  BY <1>2, <1>3

(* An uncontended file is read as it is.                                   *)
LEMMA ReadIntact ==
    ASSUME FilesInv, NEW f \in Files, f \notin contended
    PROVE  Readable(f) /\ Read(f) = file[f] /\ file[f] \in Content(f) /\ file[f] \in Versions(f)
           /\ file[f] \notin Torn
<1>1. file[f] \in Content(f)
  BY DEF FilesInv, SingleWriter
<1>2. file[f] \notin Torn /\ file[f] # None
  BY <1>1, Contents
<1> QED
  BY <1>1, <1>2 DEF Readable, Read, Torn, Versions

-----------------------------------------------------------------------------
(* What keeps the parts of the invariant.                                  *)

(* A step that leaves the command and users.json alone.                    *)
LEMMA AdminUntouched ==
    ASSUME AdminControl, UsersInv, Same("admin"), cmd' = cmd, acked' = acked,
           file'["users"] = file["users"], "users" \notin contended',
           \A c \in Checks : ~chk'[c].late
    PROVE  AdminControl' /\ UsersInv'
<1>1. AdminControl'
  BY DEF AdminControl, Same
<1>2. /\ Writing("admin", "users")' <=> Writing("admin", "users")
      /\ Writing("admin", "users") => wr'["admin"].data = wr["admin"].data
  BY DEF Same, Writing
<1>3. UsersInv'
  BY <1>2 DEF UsersInv, UserGrows, Revoked
<1> QED
  BY <1>1, <1>3

(* A step that leaves the handlers alone.                                  *)
LEMMA GatewayUntouched ==
    ASSUME GatewayControl, Same("gateway"), req' = req, chk' = chk
    PROVE  GatewayControl'
BY DEF GatewayControl, Same, Writing, At

(* A step that adds no version brings no new id.                           *)
LEMMA DrawnQuiet ==
    ASSUME Drawn, Quiet, used \subseteq used'
    PROVE  Drawn'
BY Names DEF Drawn, Quiet

(* A new tokens.json with ids that are drawn.                              *)
LEMMA DrawnTokens ==
    ASSUME Drawn, NEW data, Begins("tokens", data), used \subseteq used',
           \A t \in Tokens : data[t] # None => t \in used'
    PROVE  Drawn'
BY Names DEF Drawn, Begins

(* A new devices.json with ids that are drawn.                             *)
LEMMA DrawnDevices ==
    ASSUME Drawn, NEW data, Begins("devices", data), used \subseteq used',
           \A d \in Devices : data[d] # None => d \in used'
    PROVE  Drawn'
BY Names DEF Drawn, Begins

(* A new users.json holds neither.                                         *)
LEMMA DrawnUsers ==
    ASSUME Drawn, NEW data, Begins("users", data), used \subseteq used'
    PROVE  Drawn'
BY Names DEF Drawn, Begins

(* A request goes on without a new token.                                  *)
TokenKept(r) ==
    /\ Spent(r)' => Spent(r) /\ req'[r].token = req[r].token
    /\ At(r, "consuming")' => At(r, "consuming") /\ req'[r].token = req[r].token

(* Tokens stay spent when no request takes a new one.                      *)
LEMMA TokensKept ==
    ASSUME TokensInv, GatewayControl, contended \subseteq contended',
           "tokens" \notin contended' => Settles("tokens"),
           \A r \in Requests : TokenKept(r),
           \A r \in Requests : "tokens" \notin contended' /\ At(r, "consuming")' =>
                                  file'["tokens"] = file["tokens"]
    PROVE  TokensInv'
<1> SUFFICES ASSUME "tokens" \notin contended' PROVE TokensSafe'
  BY DEF TokensInv
<1>0. TokensSafe /\ Settles("tokens") /\ "tokens" \notin contended
  BY DEF TokensInv
<1>1. \A t \in Tokens : Used(file["tokens"], t) => Used(file'["tokens"], t)
  BY <1>0 DEF Settles, TokensSafe
<1>2. \A r \in Requests : Spent(r) => req[r].token \in Tokens
  BY DEF Spent, GatewayControl
<1>3. ASSUME NEW r \in Requests
      PROVE  /\ Spent(r)' => Used(file'["tokens"], req'[r].token)
             /\ At(r, "consuming")' => /\ Unused(file'["tokens"], req'[r].token)
                                       /\ \A c \in Pending("tokens")' : Used(c, req'[r].token)
  <2>1. Spent(r)' => Used(file'["tokens"], req'[r].token)
    BY <1>0, <1>1, <1>2 DEF TokenKept, TokensSafe
  <2>2. At(r, "consuming")' => Unused(file'["tokens"], req'[r].token)
    BY <1>0 DEF TokenKept, TokensSafe
  <2>3. Pending("tokens")' \subseteq Pending("tokens")
    BY <1>0 DEF Settles
  <2>4. At(r, "consuming")' => \A c \in Pending("tokens")' : Used(c, req'[r].token)
    BY <1>0, <2>3 DEF TokenKept, TokensSafe
  <2> QED
    BY <2>1, <2>2, <2>4
<1>4. \A c \in Pending("tokens")', t \in Tokens : Used(file'["tokens"], t) => Used(c, t)
  BY <1>0 DEF Settles, TokensSafe
<1>5. \A r, s \in Requests : Spent(r)' /\ Spent(s)' /\ r # s => req'[r].token # req'[s].token
  BY <1>0 DEF TokenKept, TokensSafe
<1> QED
  BY <1>3, <1>4, <1>5 DEF TokensSafe, Used, Unused

(* Revoked devices stay revoked when nothing new is written.               *)
LEMMA DevicesKept ==
    ASSUME DevicesInv, contended \subseteq contended',
           "devices" \notin contended' => Settles("devices")
    PROVE  DevicesInv'
BY DEF DevicesInv, Settles

(* A new devices.json that keeps the revoked devices revoked.              *)
LEMMA DevicesBegins ==
    ASSUME NEW data, Begins("devices", data),
           "devices" \notin contended' =>
               \A d \in Devices : Revoked(file["devices"], d) => Revoked(data, d)
    PROVE  DevicesInv'
BY DEF DevicesInv, Begins

(* Users that exist stay, and quotas only grow, "lowered" aside.           *)
UsersStep ==
    /\ lowered \subseteq lowered'
    /\ \A u \in Users :
        /\ file["users"][u] # None =>
              /\ file'["users"][u] # None
              /\ u \notin lowered' => file'["users"][u].quota >= file["users"][u].quota

QuotaKept(r) == At(r, "user")' => At(r, "user") /\ req'[r].user = req[r].user
                                                /\ req'[r].quota = req[r].quota

(* The active devices of a user can be counted.                            *)
LEMMA ActiveFinite ==
    ASSUME NEW c, NEW u
    PROVE  /\ IsFiniteSet(Active(c, u)) /\ Cardinality(Active(c, u)) \in Nat
           /\ Active(c, u) = {} => Cardinality(Active(c, u)) = 0
<1>1. Active(c, u) \subseteq Devices
  BY DEF Active
<1> QED
  BY <1>1, FS_Subset, FS_CardinalityType, FS_EmptySet, MarkersAssumption

(* A version within the quota stays so: quotas are only raised.            *)
LEMMA WithinQuotaKept ==
    ASSUME UsersStep, NEW u \in Users, NEW c, WithinQuota(c, u),
           file["users"] \in Content("users"), file'["users"] \in Content("users")
    PROVE  WithinQuota(c, u)'
<1>1. Cardinality(Active(c, u)) \in Nat /\ (Active(c, u) = {} => Cardinality(Active(c, u)) = 0)
  BY ActiveFinite
<1>2. /\ file["users"][u] # None => file["users"][u].quota \in Nat
      /\ file'["users"][u] # None => file'["users"][u].quota \in Nat
  BY Names, IdentityAssumption DEF User
<1> QED
  BY <1>1, <1>2 DEF UsersStep, WithinQuota, Active

(* A quota that was read is not above the one of the file.                 *)
LEMMA QuotaReadKept ==
    ASSUME UsersStep, ActorTypes, NEW u \in Users, NEW r \in Requests, QuotaRead(r, u), QuotaKept(r),
           file["users"] \in Content("users"), file'["users"] \in Content("users")
    PROVE  QuotaRead(r, u)'
<1>1. req[r].quota \in Nat
  BY IdentityAssumption DEF ActorTypes, Enrollments
<1>2. /\ file["users"][u] # None => file["users"][u].quota \in Nat
      /\ file'["users"][u] # None => file'["users"][u].quota \in Nat
  BY Names, IdentityAssumption DEF User
<1> QED
  BY <1>1, <1>2 DEF UsersStep, QuotaRead, QuotaKept, At

(* The quotas hold if every version is an old one or within them.          *)
LEMMA QuotaInvKept ==
    ASSUME TypeInv, QuotaInv, UsersStep,
           \A r \in Requests : QuotaKept(r) \/ \A u \in Users : QuotaRead(r, u)',
           "users" \notin contended', FilesInv',
           \A c \in Versions("devices")' :
               c \in Versions("devices") \/ \A u \in Users : WithinQuota(c, u)
    PROVE  QuotaInv'
<1>1. file["users"] \in Content("users") /\ file'["users"] \in Content("users")
  BY Names DEF TypeInv, UsersInv, FilesInv, SingleWriter
<1>2. ASSUME NEW u \in Users, NEW c \in Versions("devices")'
      PROVE  WithinQuota(c, u)'
  BY <1>1, <1>2, WithinQuotaKept DEF QuotaInv
<1>3. ASSUME NEW u \in Users, NEW r \in Requests
      PROVE  QuotaRead(r, u)'
  BY <1>1, <1>3, QuotaReadKept DEF QuotaInv, TypeInv
<1> QED
  BY <1>2, <1>3 DEF QuotaInv

(* file.users does not change. *)
LEMMA SameUsers ==
    ASSUME TypeInv, file'["users"] = file["users"], lowered' = lowered
    PROVE  UsersStep
<1>1. file["users"] \in Content("users")
  BY Names DEF TypeInv, UsersInv, FilesInv, SingleWriter
<1>2. \A u \in Users : file["users"][u] # None => file["users"][u].quota \in Nat
  BY <1>1, Names, IdentityAssumption DEF User
<1> QED
  BY <1>2 DEF UsersStep

-----------------------------------------------------------------------------
(* The steps of the gateway.                                               *)

(* The initial values of the locals.                                       *)
LEMMA IdleTyped ==
    /\ Idle \in Enrollments /\ Idle.pc = "idle"
    /\ NoCheck \in DeviceChecks /\ NoCheck.pc = "idle" /\ ~NoCheck.late
BY IdentityAssumption DEF Idle, NoCheck, Enrollments, DeviceChecks

(* What the return of a write does to the locals of a request.             *)
LEMMA RequestMoves ==
    ASSUME NEW q \in Enrollments
    PROVE  /\ Renamed(q) \in Enrollments /\ Renamed(q).token = q.token
           /\ Renamed(q).user = q.user /\ Renamed(q).dev = q.dev /\ Renamed(q).quota = q.quota
           /\ Renamed(q).pc = CASE q.pc = "consuming" -> "consumed"
                                [] q.pc = "registering" -> "enrolled" [] OTHER -> q.pc
           /\ Burnt(q) \in Enrollments /\ Burnt(q).token = q.token /\ Burnt(q).pc = "burnt"
<1>1. Burnt(q) \in Enrollments /\ Burnt(q).token = q.token /\ Burnt(q).pc = "burnt"
  BY IdleTyped DEF Enrollments, Burnt
<1>2. CASE q.pc = "consuming"
  BY <1>1, <1>2 DEF Enrollments, Renamed
<1>3. CASE q.pc = "registering"
  BY <1>1, <1>3 DEF Enrollments, Renamed
<1>4. CASE q.pc \notin {"consuming", "registering"}
  BY <1>1, <1>4 DEF Enrollments, Renamed
<1> QED
  BY <1>2, <1>3, <1>4

(* What a failed write or a crash does to them.                            *)
LEMMA RequestFails ==
    ASSUME NEW q \in Enrollments
    PROVE  /\ NotRenamed(q) \in Enrollments /\ Lost(q) \in Enrollments
           /\ q.pc = "consuming" => NotRenamed(q).pc = "idle" /\ Lost(q).pc = "idle"
           /\ q.pc = "registering" => NotRenamed(q) = Burnt(q) /\ Lost(q) = Burnt(q)
           /\ q.pc \in {"consumed", "user"} => NotRenamed(q) = q /\ Lost(q) = Burnt(q)
           /\ q.pc \in {"idle", "enrolled", "burnt"} => NotRenamed(q) = q /\ Lost(q) = q
           /\ q.pc \in {"idle", "consuming", "consumed", "user", "registering", "enrolled", "burnt"}
<1>1. q.pc \in {"idle", "consuming", "consumed", "user", "registering", "enrolled", "burnt"}
  BY DEF Enrollments
<1> QED
  BY <1>1, IdleTyped, RequestMoves DEF NotRenamed, Lost


SpendIn(tokens, t) == [tokens EXCEPT ![t].consumed = TRUE]

(* Marking a token as consumed changes nothing else.                       *)
LEMMA SpendToken ==
    ASSUME NEW tokens \in Content("tokens"), NEW t \in Tokens, tokens[t] # None
    PROVE  LET data == SpendIn(tokens, t) IN
           /\ data \in Content("tokens") /\ tokens[t].user \in Users
           /\ Used(data, t)
           /\ \A x \in Tokens : (data[x] # None <=> tokens[x] # None)
           /\ \A x \in Tokens : Used(tokens, x) => Used(data, x)
<1> DEFINE data == SpendIn(tokens, t)
<1>0. data = [tokens EXCEPT ![t].consumed = TRUE]
  BY DEF SpendIn
<1> HIDE DEF data
<1>1. tokens[t] \in Token
  BY Names
<1>2. data[t] = [tokens[t] EXCEPT !.consumed = TRUE]
  BY <1>0, Names
<1>3. data[t] \in Token /\ data[t].consumed = TRUE /\ tokens[t].user \in Users
  BY <1>1, <1>2 DEF Token
<1>4. /\ \A x \in Tokens \ {t} : data[x] = tokens[x]
      /\ data \in Content("tokens")
  BY <1>0, <1>2, <1>3, Names
<1>5. data[t] # None
  BY <1>3, MarkersAssumption
<1>6. data \notin Torn
  BY <1>4, Names, Contents
<1> QED
  BY <1>3, <1>4, <1>5, <1>6 DEF Used, data

(* ConsumeToken: the token is unused in the file and used in what is       *)
(* written.                                                                *)
LEMMA ConsumeTokenKeeps ==
    ASSUME IInv, NEW r \in Requests, ConsumeToken(r)
    PROVE  IInv' /\ Moves
<1>0. /\ FilesInv /\ ActorTypes /\ GatewayControl /\ AdminControl /\ UsersInv /\ TypeInv
      /\ Drawn /\ TokensInv /\ DevicesInv /\ QuotaInv
  BY DEF IInv, TypeInv
<1>1. PICK t \in Tokens :
        /\ Read("tokens")[t] # None /\ ~Read("tokens")[t].consumed
        /\ BeginWrite("gateway", "tokens", [Read("tokens") EXCEPT ![t].consumed = TRUE])
        /\ req' = [req EXCEPT ![r] = [Idle EXCEPT !.pc = "consuming", !.token = t,
                                                  !.user = Read("tokens")[t].user]]
  BY DEF ConsumeToken
<1>2. /\ req[r].pc = "idle" /\ wr["gateway"] = None /\ Readable("tokens")
      /\ used' = used /\ chk' = chk /\ cmd' = cmd /\ acked' = acked /\ lowered' = lowered
  BY DEF ConsumeToken, At, GatewayFree
<1> DEFINE tokens == Read("tokens")
           data == SpendIn(tokens, t)
<1>3. tokens \in Content("tokens") /\ tokens \in Versions("tokens") \cup {NoTokens}
  BY <1>0, <1>2, ReadTyped, Names
<1>4. /\ data \in Content("tokens") /\ tokens[t].user \in Users
      /\ Used(data, t)
      /\ \A x \in Tokens : (data[x] # None <=> tokens[x] # None)
      /\ \A x \in Tokens : Used(tokens, x) => Used(data, x)
  BY <1>1, <1>3, SpendToken
<1>5. /\ BeginWrite("gateway", "tokens", data)
      /\ tokens[t] # None /\ ~tokens[t].consumed
  BY <1>1 DEF SpendIn
<1>6. \A x \in Tokens : tokens[x] # None => x \in used
  BY <1>0, <1>3 DEF Drawn, NoTokens
<1>7. /\ req' \in [Requests -> Enrollments]
      /\ req'[r].pc = "consuming" /\ req'[r].token = t /\ req'[r].user = tokens[t].user
      /\ \A x \in Requests \ {r} : req'[x] = req[x]
  <2> DEFINE q == [Idle EXCEPT !.pc = "consuming", !.token = t, !.user = tokens[t].user]
  <2>1. q \in Enrollments /\ q.pc = "consuming" /\ q.token = t /\ q.user = tokens[t].user
    BY <1>4, IdleTyped DEF Enrollments
  <2>2. req' = [req EXCEPT ![r] = q]
    BY <1>1
  <2> HIDE DEF q
  <2> QED
    BY <1>0, <2>1, <2>2 DEF ActorTypes
<1>8. "tokens" \notin contended => tokens = file["tokens"]
  BY <1>0, Names, ReadIntact
<1> HIDE DEF tokens, data
<1>9. FilesInv'
  BY <1>0, <1>4, <1>5, Names, BeginWriteKeeps
<1>10. /\ Begins("tokens", data) /\ file' = file
       /\ wr'["gateway"] # None /\ wr'["gateway"].f = "tokens" /\ wr'["gateway"].data = data
       /\ wr'["admin"] = wr["admin"]
  BY <1>0, <1>4, <1>5, Names, BeginWriteEffect
<1>11. "users" \notin contended'
  BY <1>0, <1>5 DEF BeginWrite, Contended, UsersInv
<1>12. ActorTypes'
  BY <1>0, <1>2, <1>7 DEF ActorTypes
<1>13. GatewayControl'
  <2>1. \A x \in Requests : ~At(x, "consuming") /\ ~At(x, "registering")
    BY <1>0, <1>2 DEF GatewayControl, Writing
  <2> QED
    BY <1>0, <1>2, <1>4, <1>7, <1>10, <2>1 DEF GatewayControl, Writing, At
<1>14. AdminControl' /\ UsersInv'
  BY <1>0, <1>2, <1>10, <1>11, AdminUntouched DEF Same, UsersInv
<1>15. Drawn'
  BY <1>0, <1>2, <1>4, <1>6, <1>10, DrawnTokens
<1>16. TokensInv'
  <2> SUFFICES ASSUME "tokens" \notin contended' PROVE TokensSafe'
    BY DEF TokensInv
  <2>1. "tokens" \notin contended /\ TokensSafe /\ Pending("tokens")' \subseteq {data}
    BY <1>0, <1>10 DEF Begins, TokensInv
  <2>2. \A x \in Requests \ {r} : /\ Spent(x)' <=> Spent(x)
                                  /\ ~At(x, "consuming")'
    BY <1>0, <1>2, <1>7 DEF Spent, At, GatewayControl, Writing
  <2>3. ~Spent(r)'
    BY <1>7 DEF Spent
  <2>4. Unused(file["tokens"], t)
    BY <1>0, <1>5, <1>8, <2>1, Names, ReadIntact DEF Unused
  <2> QED
    BY <1>4, <1>7, <1>8, <1>10, <2>1, <2>2, <2>3, <2>4 DEF TokensSafe, Used, Unused
<1>17. DevicesInv'
  BY <1>0, <1>10, DevicesKept, Names DEF Begins
<1>18. QuotaInv'
  <2>1. \A x \in Requests : QuotaKept(x)
    BY <1>7 DEF QuotaKept, At
  <2>2. Versions("devices")' \subseteq Versions("devices")
    BY <1>10, Names DEF Begins
  <2> QED
    BY <1>0, <1>2, <1>9, <1>10, <1>11, <2>1, <2>2, SameUsers, QuotaInvKept
<1> QED
  BY <1>9, <1>10, <1>12, <1>13, <1>14, <1>15, <1>16, <1>17, <1>18 DEF IInv, TypeInv, Begins

(* A step that touches no file. *)
LEMMA FilesUnchanged ==
    ASSUME FilesInv, UNCHANGED fileVars
    PROVE  FilesInv' /\ Quiet /\ \A q \in Procs : Same(q)
<1> USE DEF fileVars
<1>1. \A f : Pending(f)' = Pending(f) /\ Versions(f)' = Versions(f)
  BY DEF Pending, Versions, Writing, Torn
<1>2. FilesInv'
  BY DEF FilesInv, FileTypes, SingleWriter, OwnTmp, Writing, Torn, Writer
<1>3. Quiet /\ \A q \in Procs : Same(q)
  BY <1>1 DEF Quiet, Moves, Settles, Same
<1> QED
  BY <1>2, <1>3

(* A step of the handlers that writes no file.                             *)
LEMMA LocalKeeps ==
    ASSUME IInv, UNCHANGED <<fileVars, used, cmd, acked, lowered>>,
           req' \in [Requests -> Enrollments], chk' \in [Checks -> DeviceChecks],
           GatewayControl', \A c \in Checks : ~chk'[c].late,
           \A r \in Requests : TokenKept(r),
           \A r \in Requests : QuotaKept(r) \/ \A u \in Users : QuotaRead(r, u)'
    PROVE  IInv' /\ Moves
<1>0. /\ FilesInv /\ ActorTypes /\ GatewayControl /\ AdminControl /\ UsersInv /\ TypeInv
      /\ Drawn /\ TokensInv /\ DevicesInv /\ QuotaInv
  BY DEF IInv, TypeInv
<1>1. FilesInv' /\ Quiet /\ \A q \in Procs : Same(q)
  BY <1>0, FilesUnchanged
<1>2. file' = file /\ contended' = contended
  BY DEF fileVars
<1>3. ActorTypes'
  BY <1>0 DEF ActorTypes
<1>4. AdminControl' /\ UsersInv'
  BY <1>0, <1>1, <1>2, Names, AdminUntouched DEF UsersInv
<1>5. Drawn' /\ DevicesInv'
  BY <1>0, <1>1, DrawnQuiet, DevicesKept, Names DEF Quiet
<1>6. TokensInv'
  BY <1>0, <1>1, <1>2, TokensKept, Names DEF Quiet
<1>7. QuotaInv'
  BY <1>0, <1>1, <1>2, Names, SameUsers, QuotaInvKept DEF Quiet, UsersInv
<1> QED
  BY <1>1, <1>3, <1>4, <1>5, <1>6, <1>7 DEF IInv, TypeInv, Quiet

(* Enroll reads a quota that the file has.                                 *)
LEMMA ReadUserKeeps ==
    ASSUME IInv, NEW r \in Requests, ReadUser(r)
    PROVE  IInv' /\ Moves
<1>0. FilesInv /\ ActorTypes /\ GatewayControl /\ UsersInv
  BY DEF IInv, TypeInv
<1> DEFINE u == req[r].user
           q == [req[r] EXCEPT !.pc = "user", !.quota = file["users"][u].quota]
<1>1. /\ Valid(u) /\ req[r].pc = "consumed"
      /\ UNCHANGED <<fileVars, used, chk, cmd, acked, lowered>>
  BY DEF ReadUser, At
<1>2. Read("users") = file["users"] /\ file["users"] \in Content("users")
  BY <1>0, Names, ReadIntact DEF UsersInv
<1>3. u \in Users /\ file["users"][u] # None /\ file["users"][u].quota \in 1..MaxDevices
  BY <1>0, <1>1, <1>2, Names DEF GatewayControl, Valid, User
<1>4. /\ q \in Enrollments /\ q.pc = "user" /\ q.quota = file["users"][u].quota
      /\ q.user = u /\ q.token = req[r].token /\ q.dev = req[r].dev
  <2>1. req[r] \in Enrollments
    BY <1>0 DEF ActorTypes
  <2>2. file["users"][u].quota \in 0..MaxDevices
    BY <1>3, IdentityAssumption
  <2> QED
    BY <2>1, <2>2 DEF Enrollments
<1>5. req' = [req EXCEPT ![r] = q]
  BY <1>0, <1>2 DEF ReadUser, ActorTypes, Enrollments
<1> HIDE DEF q
<1>6. /\ req' \in [Requests -> Enrollments] /\ req'[r] = q
      /\ \A x \in Requests \ {r} : req'[x] = req[x]
  BY <1>0, <1>4, <1>5 DEF ActorTypes
<1>7. GatewayControl'
  BY <1>0, <1>1, <1>4, <1>6 DEF GatewayControl, At, Writing, fileVars
<1>8. \A x \in Requests : TokenKept(x)
  BY <1>1, <1>4, <1>6 DEF TokenKept, Spent, At
<1>9. \A x \in Requests : QuotaKept(x) \/ \A v \in Users : QuotaRead(x, v)'
  BY <1>1, <1>3, <1>4, <1>6, IdentityAssumption DEF QuotaKept, QuotaRead, At, fileVars
<1>10. chk' \in [Checks -> DeviceChecks] /\ \A c \in Checks : ~chk'[c].late
  BY <1>0, <1>1 DEF ActorTypes, UsersInv
<1> QED
  BY <1>1, <1>6, <1>7, <1>8, <1>9, <1>10, LocalKeeps

(* A refused enrollment keeps its token spent.                             *)
LEMMA EnrollFailsKeeps ==
    ASSUME IInv, NEW r \in Requests, EnrollFails(r)
    PROVE  IInv' /\ Moves
<1>0. FilesInv /\ ActorTypes /\ GatewayControl /\ UsersInv
  BY DEF IInv, TypeInv
<1>1. /\ req[r].pc \in {"consumed", "user"} /\ req' = [req EXCEPT ![r] = Burnt(req[r])]
      /\ UNCHANGED <<fileVars, used, chk, cmd, acked, lowered>>
  BY DEF EnrollFails, At
<1>2. Burnt(req[r]) \in Enrollments /\ Burnt(req[r]).token = req[r].token /\ Burnt(req[r]).pc = "burnt"
  BY <1>0, RequestMoves DEF ActorTypes
<1>3. /\ req' \in [Requests -> Enrollments] /\ req'[r] = Burnt(req[r])
      /\ \A x \in Requests \ {r} : req'[x] = req[x]
  BY <1>0, <1>1, <1>2 DEF ActorTypes
<1>4. GatewayControl'
  BY <1>0, <1>1, <1>2, <1>3 DEF GatewayControl, At, Writing, fileVars
<1>5. \A x \in Requests : TokenKept(x) /\ QuotaKept(x)
  BY <1>1, <1>2, <1>3 DEF TokenKept, QuotaKept, Spent, At
<1>6. chk' \in [Checks -> DeviceChecks] /\ \A c \in Checks : ~chk'[c].late
  BY <1>0, <1>1 DEF ActorTypes, UsersInv
<1> QED
  BY <1>1, <1>3, <1>4, <1>5, <1>6, LocalKeeps

(* A check that begins late finds the user revoked. *)
LEMMA CheckKeeps ==
    ASSUME IInv, NEW c \in Checks, Admission(c)
    PROVE  IInv' /\ Moves
<1>0. FilesInv /\ ActorTypes /\ GatewayControl /\ UsersInv
  BY DEF IInv, TypeInv
<1>1. UNCHANGED <<fileVars, used, req, cmd, acked, lowered>>
  BY DEF Admission, CheckUser, CheckDevice, Leave
<1>2. PICK k : /\ chk' = [chk EXCEPT ![c] = k] /\ k \in DeviceChecks /\ ~k.late
               /\ k.pc # "idle" => k.user \in Users /\ k.dev \in Devices
  <2>1. CASE CheckUser(c)
    <3>1. PICK r \in Requests :
            /\ At(r, "enrolled") /\ Valid(req[r].user)
            /\ chk' = [chk EXCEPT ![c] = [pc |-> "user", user |-> req[r].user, dev |-> req[r].dev,
                                          late |-> req[r].user \in acked]]
      BY <2>1 DEF CheckUser
    <3>2. req[r].user \in Users /\ req[r].dev \in Devices
      BY <1>0, <3>1 DEF GatewayControl, At
    <3>3. req[r].user \notin acked
      <4>1. Read("users") = file["users"]
        BY <1>0, Names, ReadIntact DEF UsersInv
      <4> QED
        BY <1>0, <3>1, <4>1 DEF UsersInv, Valid, Revoked
    <3> DEFINE late == req[r].user \in acked
               k == [pc |-> "user", user |-> req[r].user, dev |-> req[r].dev, late |-> late]
    <3>4. late = FALSE
      BY <3>3
    <3>5. chk' = [chk EXCEPT ![c] = k]
      BY <3>1
    <3> HIDE DEF late
    <3>6. k \in DeviceChecks /\ ~k.late /\ k.user \in Users /\ k.dev \in Devices
      BY <3>2, <3>4 DEF DeviceChecks
    <3> HIDE DEF k
    <3> QED
      BY <3>5, <3>6
  <2>2. CASE CheckDevice(c)
    <3>1. chk[c] \in DeviceChecks /\ ~chk[c].late /\ chk[c].pc = "user"
          /\ chk[c].user \in Users /\ chk[c].dev \in Devices
      BY <1>0, <2>2 DEF CheckDevice, ActorTypes, UsersInv, GatewayControl
    <3> DEFINE k == [chk[c] EXCEPT !.pc = "admitted"]
    <3>2. k \in DeviceChecks /\ ~k.late /\ k.user \in Users /\ k.dev \in Devices
      BY <3>1 DEF DeviceChecks
    <3>3. chk' = [chk EXCEPT ![c] = k] \/ chk' = [chk EXCEPT ![c] = NoCheck]
      BY <2>2 DEF CheckDevice
    <3> HIDE DEF k
    <3> QED
      BY <3>2, <3>3, IdleTyped
  <2>3. CASE Leave(c)
    BY <2>3, IdleTyped DEF Leave
  <2> QED
    BY <2>1, <2>2, <2>3 DEF Admission
<1>3. /\ chk' \in [Checks -> DeviceChecks] /\ chk'[c] = k
      /\ \A x \in Checks \ {c} : chk'[x] = chk[x]
  BY <1>0, <1>2 DEF ActorTypes
<1>4. \A x \in Checks : ~chk'[x].late
  BY <1>0, <1>2, <1>3 DEF UsersInv
<1>5. GatewayControl'
  BY <1>0, <1>1, <1>2, <1>3 DEF GatewayControl, At, Writing, fileVars
<1>6. \A x \in Requests : TokenKept(x) /\ QuotaKept(x)
  BY <1>1 DEF TokenKept, QuotaKept, Spent, At
<1>7. req' \in [Requests -> Enrollments]
  BY <1>0, <1>1 DEF ActorTypes
<1> QED
  BY <1>1, <1>3, <1>4, <1>5, <1>6, <1>7, LocalKeeps

(* What is read from devices.json is within the quotas. *)
LEMMA ReadWithinQuota ==
    ASSUME TypeInv, QuotaInv, Readable("devices"), NEW u \in Users
    PROVE  WithinQuota(Read("devices"), u)
<1>1. CASE Read("devices") \in Versions("devices")
  BY <1>1 DEF QuotaInv
<1>2. CASE Read("devices") = NoDevices
  <2>1. Active(NoDevices, u) = {}
    BY DEF Active, NoDevices
  <2>2. file["users"] \in Content("users")
    BY Names DEF TypeInv, UsersInv, FilesInv, SingleWriter
  <2>3. file["users"][u] # None => file["users"][u].quota \in Nat
    BY <2>2, Names, IdentityAssumption DEF User
  <2>4. Cardinality(Active(NoDevices, u)) = 0
    BY <2>1, ActiveFinite
  <2> QED
    BY <1>2, <2>1, <2>3, <2>4 DEF WithinQuota
<1> QED
  BY <1>1, <1>2, ReadTyped, Names DEF TypeInv

AddDevice(devices, d, u) == [devices EXCEPT ![d] = [user |-> u, revoked |-> FALSE]]

(* A new device is one more active device of its user.                     *)
LEMMA NewDevice ==
    ASSUME NEW devices \in Content("devices"), NEW d \in Devices, devices[d] = None,
           NEW u \in Users
    PROVE  LET data == AddDevice(devices, d, u) IN
           /\ data \in Content("devices")
           /\ \A x \in Devices : data[x] # None => x = d \/ devices[x] # None
           /\ \A x \in Devices : Revoked(devices, x) => Revoked(data, x)
           /\ \A v : v # u => Active(data, v) = Active(devices, v)
           /\ Cardinality(Active(data, u)) = Cardinality(Active(devices, u)) + 1
<1> DEFINE data == AddDevice(devices, d, u)
           new == [user |-> u, revoked |-> FALSE]
<1>1. new \in Device /\ new # None /\ new.user = u /\ ~new.revoked
  <2>1. new \in Device
    BY DEF Device
  <2> QED
    BY <2>1, MarkersAssumption
<1>2. data = [devices EXCEPT ![d] = new]
  BY DEF AddDevice
<1> HIDE DEF data, new
<1>3. /\ data \in Content("devices") /\ data[d] = new
      /\ \A x \in Devices \ {d} : data[x] = devices[x]
  BY <1>1, <1>2, Names
<1>4. data \notin Torn /\ devices \notin Torn
  BY <1>3, Names, Contents
<1>5. \A v : v # u => Active(data, v) = Active(devices, v)
  BY <1>1, <1>3 DEF Active
<1>6. Active(data, u) = Active(devices, u) \cup {d} /\ d \notin Active(devices, u)
  BY <1>1, <1>3 DEF Active
<1>7. Cardinality(Active(data, u)) = Cardinality(Active(devices, u)) + 1
  BY <1>6, ActiveFinite, FS_AddElement
<1>8. /\ \A x \in Devices : data[x] # None => x = d \/ devices[x] # None
      /\ \A x \in Devices : Revoked(devices, x) => Revoked(data, x)
  BY <1>3, <1>4 DEF Revoked
<1> QED
  BY <1>3, <1>5, <1>7, <1>8 DEF data

(* Enroll: one more device than counted is within the quota read before,   *)
(* so within that of the file, unless it was lowered.                      *)
LEMMA RegisterKeeps ==
    ASSUME IInv, NEW r \in Requests, Register(r)
    PROVE  IInv' /\ Moves
<1>0. /\ FilesInv /\ ActorTypes /\ GatewayControl /\ AdminControl /\ UsersInv /\ TypeInv
      /\ Drawn /\ TokensInv /\ DevicesInv /\ QuotaInv
  BY DEF IInv, TypeInv
<1> DEFINE devices == Read("devices")
           u == req[r].user
<1>1. PICK d \in Devices \ used :
        /\ BeginWrite("gateway", "devices", AddDevice(devices, d, u))
        /\ used' = used \cup {d}
        /\ req' = [req EXCEPT ![r].pc = "registering", ![r].quota = 0, ![r].dev = d]
  BY DEF Register, AddDevice
<1>2. /\ req[r].pc = "user" /\ wr["gateway"] = None /\ Readable("devices")
      /\ Cardinality(Active(devices, u)) < req[r].quota
      /\ chk' = chk /\ cmd' = cmd /\ acked' = acked /\ lowered' = lowered
  BY DEF Register, At, GatewayFree
<1> DEFINE data == AddDevice(devices, d, u)
<1>3. devices \in Content("devices") /\ devices \in Versions("devices") \cup {NoDevices} /\ u \in Users
  BY <1>0, <1>2, ReadTyped, Names DEF GatewayControl
<1>4. \A x \in Devices : devices[x] # None => x \in used
  BY <1>0, <1>3 DEF Drawn, NoDevices
<1>5. /\ data \in Content("devices")
      /\ \A x \in Devices : data[x] # None => x = d \/ devices[x] # None
      /\ \A x \in Devices : Revoked(devices, x) => Revoked(data, x)
      /\ \A v : v # u => Active(data, v) = Active(devices, v)
      /\ Cardinality(Active(data, u)) = Cardinality(Active(devices, u)) + 1
  BY <1>1, <1>3, <1>4, NewDevice
<1>6. BeginWrite("gateway", "devices", data) /\ used \subseteq used' /\ d \in used'
  BY <1>1
<1>7. /\ req' \in [Requests -> Enrollments]
      /\ req'[r].pc = "registering" /\ req'[r].token = req[r].token /\ req'[r].user = u
      /\ req'[r].dev = d
      /\ \A x \in Requests \ {r} : req'[x] = req[x]
  <2> DEFINE q == [req[r] EXCEPT !.pc = "registering", !.quota = 0, !.dev = d]
  <2>1. req[r] \in Enrollments
    BY <1>0 DEF ActorTypes
  <2>2. q \in Enrollments /\ q.pc = "registering" /\ q.token = req[r].token /\ q.user = u /\ q.dev = d
    <3>1. d \in Devices /\ 0 \in 0..MaxDevices
      BY <1>1, IdentityAssumption
    <3>2. q \in Enrollments
      BY <2>1, <3>1 DEF Enrollments
    <3> QED
      BY <2>1, <3>2 DEF Enrollments
  <2>3. req' = [req EXCEPT ![r] = q]
    BY <1>0, <1>1 DEF ActorTypes
  <2> HIDE DEF q
  <2> QED
    BY <1>0, <2>2, <2>3 DEF ActorTypes
<1>8. "devices" \notin contended => devices = file["devices"]
  BY <1>0, Names, ReadIntact
<1>9. \A v \in Users : WithinQuota(data, v)
  <2>1. \A v \in Users : WithinQuota(devices, v)
    BY <1>0, <1>2, ReadWithinQuota
  <2>2. \A v \in Users : v # u => WithinQuota(data, v)
    BY <1>5, <2>1 DEF WithinQuota
  <2>3. file["users"][u] # None /\ (u \notin lowered => req[r].quota <= file["users"][u].quota)
    BY <1>0, <1>2, <1>3 DEF QuotaInv, QuotaRead, At
  <2>4. file["users"] \in Content("users")
    BY <1>0, Names DEF UsersInv, FilesInv, SingleWriter
  <2>5. file["users"][u].quota \in Nat /\ req[r].quota \in Nat
    BY <1>0, <1>3, <2>3, <2>4, Names, IdentityAssumption DEF User, ActorTypes, Enrollments
  <2>6. Cardinality(Active(devices, u)) \in Nat
    BY ActiveFinite
  <2>7. WithinQuota(data, u)
    BY <1>2, <1>5, <2>3, <2>5, <2>6 DEF WithinQuota
  <2> QED
    BY <2>2, <2>7
<1> HIDE DEF devices, data, u
<1>10. FilesInv'
  BY <1>0, <1>5, <1>6, Names, BeginWriteKeeps
<1>11. /\ Begins("devices", data) /\ file' = file
       /\ wr'["gateway"] # None /\ wr'["gateway"].f = "devices" /\ wr'["gateway"].data = data
       /\ wr'["admin"] = wr["admin"]
  BY <1>0, <1>5, <1>6, Names, BeginWriteEffect
<1>12. "users" \notin contended'
  BY <1>0, <1>6 DEF BeginWrite, Contended, UsersInv
<1>13. ActorTypes'
  BY <1>0, <1>1, <1>2, <1>7 DEF ActorTypes
<1>14. \A x \in Requests : ~At(x, "consuming") /\ ~At(x, "registering")
  BY <1>0, <1>2 DEF GatewayControl, Writing
<1>15. GatewayControl'
  BY <1>0, <1>2, <1>3, <1>7, <1>11, <1>14 DEF GatewayControl, Writing, At
<1>16. AdminControl' /\ UsersInv'
  BY <1>0, <1>2, <1>11, <1>12, AdminUntouched DEF Same, UsersInv
<1>17. Drawn'
  BY <1>0, <1>4, <1>5, <1>6, <1>11, DrawnDevices
<1>18. TokensInv'
  <2>1. \A x \in Requests : TokenKept(x)
    BY <1>2, <1>7 DEF TokenKept, Spent, At
  <2> QED
    BY <1>0, <1>11, <2>1, TokensKept, Names DEF Begins
<1>19. DevicesInv'
  <2>1. "devices" \notin contended' => "devices" \notin contended
    BY <1>11 DEF Begins
  <2> QED
    BY <1>5, <1>8, <1>11, <2>1, DevicesBegins
<1>20. QuotaInv'
  <2>1. \A x \in Requests : QuotaKept(x)
    BY <1>7 DEF QuotaKept, At
  <2>2. Versions("devices")' \subseteq Versions("devices") \cup {data}
    BY <1>11 DEF Begins
  <2> QED
    BY <1>0, <1>2, <1>9, <1>10, <1>11, <1>12, <2>1, <2>2, SameUsers, QuotaInvKept
<1> QED
  BY <1>10, <1>11, <1>13, <1>15, <1>16, <1>17, <1>18, <1>19, <1>20 DEF IInv, TypeInv, Begins

(* A process goes on with its write. *)
LEMMA AdvanceKeeps ==
    ASSUME IInv, NEW p \in Procs, Truncate(p) \/ Write(p), UNCHANGED actors
    PROVE  IInv' /\ Moves
<1>0. /\ FilesInv /\ ActorTypes /\ GatewayControl /\ AdminControl /\ UsersInv /\ TypeInv
      /\ Drawn /\ TokensInv /\ DevicesInv /\ QuotaInv
      /\ UNCHANGED <<used, req, chk, cmd, acked, lowered>>
  BY DEF IInv, TypeInv, actors
<1>1. /\ FilesInv' /\ Quiet /\ contended' = contended
      /\ \A q \in Procs : Same(q)
      /\ \A f \in Files \ contended : file'[f] = file[f]
  BY <1>0, AdvanceEffect, TruncateKeeps, WriteKeeps
<1>2. ActorTypes' /\ GatewayControl'
  BY <1>0, <1>1, Names, GatewayUntouched DEF ActorTypes
<1>3. file'["users"] = file["users"]
  BY <1>0, <1>1, Names DEF UsersInv
<1>4. AdminControl' /\ UsersInv'
  BY <1>0, <1>1, <1>3, Names, AdminUntouched DEF UsersInv
<1>5. Drawn' /\ DevicesInv'
  BY <1>0, <1>1, DrawnQuiet, DevicesKept, Names DEF Quiet
<1>6. \A r \in Requests : TokenKept(r) /\ QuotaKept(r)
  BY <1>0 DEF TokenKept, QuotaKept, Spent, At
<1>7. TokensInv'
  BY <1>0, <1>1, <1>6, TokensKept, Names DEF Quiet
<1>8. QuotaInv'
  BY <1>0, <1>1, <1>3, <1>6, Names, SameUsers, QuotaInvKept DEF Quiet, UsersInv
<1> QED
  BY <1>1, <1>2, <1>4, <1>5, <1>7, <1>8 DEF IInv, TypeInv, Quiet

(* The gateway's write fails, or the gateway is killed.                    *)
LEMMA GatewayStopKeeps ==
    ASSUME IInv, Stops("gateway") \/ RenameFails("gateway"),
           UNCHANGED <<used, cmd, acked, lowered>>,
           chk' = chk \/ chk' = [c \in Checks |-> NoCheck],
           \/ req' = [r \in Requests |-> NotRenamed(req[r])]
           \/ req' = [r \in Requests |-> Lost(req[r])]
    PROVE  IInv' /\ Moves
<1>0. /\ FilesInv /\ ActorTypes /\ GatewayControl /\ AdminControl /\ UsersInv /\ TypeInv
      /\ Drawn /\ TokensInv /\ DevicesInv /\ QuotaInv
  BY DEF IInv, TypeInv
<1>1. /\ FilesInv' /\ Quiet /\ contended' = contended
      /\ file'["users"] = file["users"]
      /\ \A f \in Files \ contended : file'[f] = file[f]
      /\ wr'["gateway"] = None /\ wr'["admin"] = wr["admin"]
  BY <1>0, Names, StopIsQuiet DEF UsersInv
<1>2. \A r \in Requests :
        LET q == req[r] q1 == req'[r] IN
        /\ q1 \in Enrollments
        /\ q.pc = "consuming" => q1.pc = "idle"
        /\ q.pc \in {"consumed", "user", "registering"} => q1 = q \/ q1 = Burnt(q)
        /\ q.pc = "registering" => q1 = Burnt(q)
        /\ q.pc \in {"idle", "enrolled", "burnt"} => q1 = q
        /\ q.pc \in {"idle", "consuming", "consumed", "user", "registering", "enrolled", "burnt"}
        /\ Burnt(q).pc = "burnt" /\ Burnt(q).token = q.token
  BY <1>0, RequestFails, RequestMoves DEF ActorTypes
<1>3. DOMAIN req' = Requests /\ req' = [r \in Requests |-> req'[r]]
  OBVIOUS
<1>4. /\ chk' \in [Checks -> DeviceChecks] /\ \A c \in Checks : ~chk'[c].late
      /\ \A c \in Checks : chk'[c].pc # "idle" => chk'[c].user \in Users /\ chk'[c].dev \in Devices
  BY <1>0, IdleTyped DEF ActorTypes, UsersInv, GatewayControl
<1>5. ActorTypes'
  BY <1>0, <1>2, <1>3, <1>4 DEF ActorTypes
<1>6. GatewayControl'
  <2>1. ASSUME NEW r \in Requests
        PROVE  /\ req'[r].pc \notin {"consuming", "registering"}
               /\ req'[r].pc # "idle" => req'[r].token \in Tokens
               /\ req'[r].pc \notin {"idle", "burnt"} => req'[r].user \in Users
               /\ req'[r].pc = "enrolled" => req'[r].dev \in Devices
    BY <1>0, <1>2 DEF GatewayControl
  <2> QED
    BY <1>1, <1>4, <2>1 DEF GatewayControl, At
<1>7. AdminControl' /\ UsersInv'
  BY <1>0, <1>1, <1>4, AdminUntouched DEF UsersInv, Same
<1>8. Drawn' /\ DevicesInv'
  BY <1>0, <1>1, DrawnQuiet, DevicesKept, Names DEF Quiet
<1>9. \A r \in Requests : TokenKept(r) /\ QuotaKept(r)
  BY <1>2 DEF TokenKept, QuotaKept, Spent, At
<1>10. TokensInv'
  BY <1>0, <1>1, <1>9, TokensKept, Names DEF Quiet
<1>11. QuotaInv'
  BY <1>0, <1>1, <1>9, Names, SameUsers, QuotaInvKept DEF Quiet, UsersInv
<1> QED
  BY <1>1, <1>5, <1>6, <1>7, <1>8, <1>10, <1>11 DEF IInv, TypeInv, Quiet

(* The gateway's write is done. *)
LEMMA GatewayRenameKeeps ==
    ASSUME IInv, Rename("gateway", None), req' = [r \in Requests |-> Renamed(req[r])],
           UNCHANGED <<used, chk, cmd, acked, lowered>>
    PROVE  IInv' /\ Moves
<1>0. /\ FilesInv /\ ActorTypes /\ GatewayControl /\ AdminControl /\ UsersInv /\ TypeInv
      /\ Drawn /\ TokensInv /\ DevicesInv /\ QuotaInv
  BY DEF IInv, TypeInv
<1> DEFINE f == wr["gateway"].f
<1>1. Continues(None)
  BY DEF Continues
<1>2. /\ FilesInv' /\ Quiet /\ contended' = contended /\ Same("admin") /\ wr'["gateway"] = None
      /\ wr["gateway"] # None /\ f \in {"tokens", "devices"} /\ wr["gateway"].data \in Pending(f)
      /\ f \notin contended => file'[f] = wr["gateway"].data
      /\ \A g \in Files \ {f} : file'[g] = file[g]
  BY <1>0, <1>1, Names, RenameEffect, RenameKeeps DEF GatewayControl
<1>3. /\ req' \in [Requests -> Enrollments]
      /\ \A r \in Requests :
           /\ req'[r].token = req[r].token /\ req'[r].user = req[r].user /\ req'[r].dev = req[r].dev
           /\ req'[r].quota = req[r].quota
           /\ req'[r].pc = CASE req[r].pc = "consuming" -> "consumed"
                             [] req[r].pc = "registering" -> "enrolled" [] OTHER -> req[r].pc
  <2>1. \A r \in Requests : req[r] \in Enrollments
    BY <1>0 DEF ActorTypes
  <2> QED
    BY <2>1, RequestMoves
<1>4. ActorTypes'
  BY <1>0, <1>3 DEF ActorTypes
<1>5. GatewayControl'
  <2>1. ASSUME NEW r \in Requests
        PROVE  /\ req'[r].pc \notin {"consuming", "registering"}
               /\ req'[r].pc # "idle" => req'[r].token \in Tokens
               /\ req'[r].pc \notin {"idle", "burnt"} => req'[r].user \in Users
               /\ req'[r].pc = "enrolled" => req'[r].dev \in Devices
    BY <1>0, <1>3 DEF GatewayControl
  <2> QED
    BY <1>0, <1>2, <2>1 DEF GatewayControl, At
<1>6. file'["users"] = file["users"]
  BY <1>2, Names
<1>7. AdminControl' /\ UsersInv'
  BY <1>0, <1>2, <1>6, AdminUntouched DEF UsersInv
<1>8. Drawn' /\ DevicesInv'
  BY <1>0, <1>2, DrawnQuiet, DevicesKept, Names DEF Quiet
<1>9. TokensInv'
  <2>1. CASE \E r \in Requests : At(r, "consuming")
    <3> SUFFICES ASSUME "tokens" \notin contended PROVE TokensSafe'
      BY <1>2 DEF TokensInv
    <3>1. TokensSafe /\ f = "tokens" /\ Settles("tokens")
      BY <1>0, <1>2, <2>1, Names DEF TokensInv, GatewayControl, Writing, Quiet
    <3>2. file'["tokens"] \in Pending("tokens")
      BY <1>2, <3>1
    <3>3. \A r \in Requests :
            /\ Spent(r)' => Spent(r) \/ At(r, "consuming")
            /\ ~At(r, "consuming")'
      BY <1>3 DEF Spent, At
    <3>4. \A r \in Requests : Spent(r)' => Used(file'["tokens"], req'[r].token)
      <4>1. \A r \in Requests : Spent(r) => req[r].token \in Tokens
        BY <1>0 DEF GatewayControl, Spent
      <4> QED
        BY <1>3, <3>1, <3>2, <3>3, <4>1 DEF TokensSafe
    <3>5. \A c \in Pending("tokens")', t \in Tokens : Used(file'["tokens"], t) => Used(c, t)
      BY <3>1 DEF Settles, TokensSafe
    <3>6. ASSUME NEW r \in Requests, NEW s \in Requests, Spent(r)', Spent(s)', r # s
          PROVE  req'[r].token # req'[s].token
      <4>1. CASE Spent(r) /\ Spent(s)
        BY <1>3, <3>1, <3>6, <4>1 DEF TokensSafe
      <4>2. CASE At(r, "consuming") /\ Spent(s)
        BY <1>3, <3>1, <4>2 DEF TokensSafe, Used, Unused
      <4>3. CASE At(s, "consuming") /\ Spent(r)
        BY <1>3, <3>1, <4>3 DEF TokensSafe, Used, Unused
      <4>4. CASE At(r, "consuming") /\ At(s, "consuming")
        BY <1>0, <3>6, <4>4 DEF GatewayControl
      <4> QED
        BY <3>3, <3>6, <4>1, <4>2, <4>3, <4>4
    <3> QED
      BY <3>3, <3>4, <3>5, <3>6 DEF TokensSafe, Used, Unused
  <2>2. CASE \A r \in Requests : ~At(r, "consuming")
    <3>1. \A r \in Requests : TokenKept(r) /\ ~At(r, "consuming")'
      BY <1>3, <2>2 DEF TokenKept, Spent, At
    <3> QED
      BY <1>0, <1>2, <3>1, TokensKept, Names DEF Quiet
  <2> QED
    BY <2>1, <2>2
<1>10. QuotaInv'
  <2>1. \A r \in Requests : QuotaKept(r)
    BY <1>3 DEF QuotaKept, At
  <2> QED
    BY <1>0, <1>2, <1>6, <2>1, Names, SameUsers, QuotaInvKept DEF Quiet, UsersInv
<1> QED
  BY <1>2, <1>4, <1>5, <1>7, <1>8, <1>9, <1>10 DEF IInv, TypeInv, Quiet

-----------------------------------------------------------------------------
(* The steps of the commands.                                              *)

(* What a command may write to the file it begins with. *)
Acceptable(op, u, f, data) ==
    /\ f = "users" => /\ op # "revoke"
                      /\ \A v \in Users : LET old == file["users"][v] IN
                            old # None => /\ data[v] # None
                                          /\ old.revoked => data[v].revoked
                                          /\ data[v].quota >= old.quota \/ (op = "limits" /\ v = u)
    /\ f = "tokens" =>
          /\ \A t \in Tokens : data[t] # None => t \in used'
          /\ "tokens" \notin contended => \A t \in Tokens : Used(file["tokens"], t) => Used(data, t)
    /\ f = "devices" =>
          /\ \A d \in Devices : data[d] # None => d \in used'
          /\ "devices" \notin contended => \A d \in Devices : Revoked(file["devices"], d) => Revoked(data, d)
          /\ \A v \in Users : WithinQuota(data, v)
    /\ op = "revoke" => file["users"][u] # None

(* A command that begins to write acceptable content.                      *)
LEMMA CommandKeeps ==
    ASSUME IInv, NEW op, NEW u, NEW f \in Files, NEW data \in Content(f),
           Command(op, u, f, data), UNCHANGED <<req, chk, acked, lowered>>,
           op \in {"add", "revoke", "device", "limits", "token"}, u \in Users \cup {None},
           op # "device" => u \in Users, f \in WritesOf(op),
           used \subseteq used', used' \subseteq Tokens \cup Devices,
           Acceptable(op, u, f, data)
    PROVE  IInv' /\ Moves
<1>0. /\ FilesInv /\ ActorTypes /\ GatewayControl /\ AdminControl /\ UsersInv /\ TypeInv
      /\ Drawn /\ TokensInv /\ DevicesInv /\ QuotaInv
  BY DEF IInv, TypeInv
<1>1. /\ cmd' = [op |-> op, user |-> u] /\ BeginWrite("admin", f, data)
      /\ cmd' \in Commands /\ cmd' # None /\ cmd'.op = op /\ cmd'.user = u
  <2>1. [op |-> op, user |-> u] \in Commands
    BY DEF Commands
  <2> QED
    BY <2>1, MarkersAssumption DEF Command
<1>2. /\ FilesInv'
      /\ Begins(f, data) /\ file' = file
      /\ wr'["admin"] # None /\ wr'["admin"].f = f /\ wr'["admin"].data = data
      /\ wr'["gateway"] = wr["gateway"]
  BY <1>0, <1>1, Names, BeginWriteKeeps, BeginWriteEffect
<1>3. ActorTypes'
  BY <1>0, <1>1 DEF ActorTypes
<1>4. GatewayControl'
  BY <1>0, <1>2, GatewayUntouched DEF Same
<1>5. AdminControl'
  BY <1>1, <1>2 DEF AdminControl
<1>6. "users" \notin contended'
  <2>1. ~Writing("gateway", "users")
    BY <1>0 DEF GatewayControl, Writing
  <2> QED
    BY <1>0, <1>1, <2>1, Names DEF BeginWrite, Contended, UsersInv
<1>7. UsersInv'
  <2>1. Writing("admin", "users")' => f = "users"
    BY <1>2 DEF Writing
  <2>2. f = "users" => \A v \in Users : UserGrows(file["users"][v], data[v], v)'
    BY <1>1, <1>2 DEF Acceptable, UserGrows
  <2>3. \A v \in acked : Revoked(file["users"], v)
    BY <1>0 DEF UsersInv
  <2>4. \A c \in Checks : ~chk'[c].late
    BY <1>0 DEF UsersInv
  <2>5. op = "revoke" => file["users"][u] # None /\ f # "users"
    BY DEF Acceptable
  <2> QED
    BY <1>1, <1>2, <1>6, <2>1, <2>2, <2>3, <2>4, <2>5 DEF UsersInv, Revoked, UserGrows
<1>8. f \in {"users", "tokens", "devices"}
  BY IdentityAssumption
<1>9. Drawn'
  BY <1>0, <1>2, <1>8, DrawnTokens, DrawnDevices, DrawnUsers DEF Acceptable
<1>10. "tokens" \notin contended' => "tokens" \notin contended
  BY <1>2 DEF Begins
<1>11. TokensInv'
  <2>1. \A r \in Requests : TokenKept(r)
    BY DEF TokenKept, Spent, At
  <2>2. CASE f # "tokens"
    BY <1>0, <1>2, <2>1, <2>2, TokensKept, Names DEF Begins
  <2>3. CASE f = "tokens"
    <3> SUFFICES ASSUME "tokens" \notin contended' PROVE TokensSafe'
      BY DEF TokensInv
    <3>1. TokensSafe /\ Pending("tokens")' \subseteq {data}
      BY <1>0, <1>2, <1>10, <2>3 DEF TokensInv, Begins
    <3>2. ~Writing("gateway", "tokens")
      BY <1>0, <1>1, <2>3, Names, BeginWriteEffect
    <3>3. \A r \in Requests : ~At(r, "consuming")
      BY <1>0, <3>2 DEF GatewayControl
    <3>4. \A t \in Tokens : Used(file["tokens"], t) => Used(data, t)
      BY <1>10, <2>3 DEF Acceptable
    <3> QED
      BY <1>2, <3>1, <3>3, <3>4 DEF TokensSafe, Spent, At, Used, Unused
  <2> QED
    BY <2>2, <2>3
<1>12. DevicesInv'
  <2>1. CASE f # "devices"
    BY <1>0, <1>2, <2>1, DevicesKept, Names DEF Begins
  <2>2. CASE f = "devices"
    BY <1>2, <2>2, DevicesBegins DEF Acceptable, Begins
  <2> QED
    BY <2>1, <2>2
<1>13. QuotaInv'
  <2>1. \A r \in Requests : QuotaKept(r)
    BY DEF QuotaKept, At
  <2>2. \A c \in Versions("devices")' : c \in Versions("devices") \/ (f = "devices" /\ c = data)
    BY <1>2, Names DEF Begins
  <2>3. f = "devices" => \A v \in Users : WithinQuota(data, v)
    BY DEF Acceptable
  <2> QED
    BY <1>0, <1>2, <1>6, <2>1, <2>2, <2>3, SameUsers, QuotaInvKept
<1> QED
  BY <1>2, <1>3, <1>4, <1>5, <1>7, <1>9, <1>11, <1>12, <1>13 DEF IInv, TypeInv, Begins

(* What a command reads from users.json. *)
LEMMA UsersRead ==
    ASSUME TypeInv
    PROVE  /\ Read("users") = file["users"] /\ file["users"] \in Content("users")
           /\ \A v \in Users : file["users"][v] # None =>
                 /\ file["users"][v] \in User /\ file["users"][v].revoked \in BOOLEAN
                 /\ file["users"][v].quota \in 1..MaxDevices /\ file["users"][v].quota \in Nat
<1>1. Read("users") = file["users"] /\ file["users"] \in Content("users")
  BY Names, ReadIntact DEF TypeInv, UsersInv
<1> QED
  BY <1>1, Names, IdentityAssumption DEF User

(* AddUser changes no user that exists.                                    *)
LEMMA AddUserKeeps ==
    ASSUME IInv, NEW u \in Users, AddUser(u)
    PROVE  IInv' /\ Moves
<1> DEFINE users == file["users"]
           new == [revoked |-> FALSE, quota |-> DefaultDevices]
<1>0. TypeInv /\ ActorTypes
  BY DEF IInv, TypeInv
<1>1. UNCHANGED <<used, req, chk, acked, lowered>>
  BY DEF AddUser
<1>2. PICK data : /\ Command("add", u, "users", data)
                  /\ \/ data = users
                     \/ users[u] = None /\ data = [users EXCEPT ![u] = new]
  BY <1>0, UsersRead DEF AddUser
<1>3. new \in User
  BY IdentityAssumption DEF User
<1> HIDE DEF new
<1>4. /\ data \in Content("users")
      /\ \A v \in Users : users[v] # None => data[v] = users[v]
  BY <1>0, <1>2, <1>3, UsersRead, Names
<1>5. Acceptable("add", u, "users", data)
  BY <1>0, <1>4, UsersRead DEF Acceptable
<1>6. "users" \in WritesOf("add") /\ used' \subseteq Tokens \cup Devices
  BY <1>0, <1>1 DEF WritesOf, ActorTypes
<1> QED
  BY <1>1, <1>2, <1>4, <1>5, <1>6, Names, CommandKeeps

(* PatchUserQuotas changes one quota and revives nobody.                   *)
LEMMA PatchUserQuotasKeeps ==
    ASSUME IInv, NEW u \in Users, PatchUserQuotas(u)
    PROVE  IInv' /\ Moves
<1> DEFINE users == file["users"]
<1>0. TypeInv /\ ActorTypes
  BY DEF IInv, TypeInv
<1>1. UNCHANGED <<used, req, chk, acked, lowered>> /\ users[u] # None
  BY <1>0, UsersRead DEF PatchUserQuotas, Valid
<1>2. PICK q \in 1..MaxDevices : Command("limits", u, "users", [users EXCEPT ![u].quota = q])
  BY <1>0, UsersRead DEF PatchUserQuotas
<1> DEFINE data == [users EXCEPT ![u].quota = q]
<1>3. users[u] \in User
  BY <1>0, <1>1, UsersRead
<1>4. data[u] = [users[u] EXCEPT !.quota = q]
  BY <1>0, UsersRead, Names
<1>5. data[u] \in User /\ data[u].revoked = users[u].revoked
  BY <1>2, <1>3, <1>4 DEF User
<1>6. /\ data \in Content("users") /\ data[u] # None
      /\ \A v \in Users \ {u} : data[v] = users[v]
  BY <1>0, <1>4, <1>5, UsersRead, Names, MarkersAssumption
<1>7. Acceptable("limits", u, "users", data)
  BY <1>0, <1>5, <1>6, UsersRead DEF Acceptable
<1>8. "users" \in WritesOf("limits") /\ used' \subseteq Tokens \cup Devices
  BY <1>0, <1>1 DEF WritesOf, ActorTypes
<1>9. Command("limits", u, "users", data)
  BY <1>2
<1> HIDE DEF data
<1> QED
  BY <1>1, <1>6, <1>7, <1>8, <1>9, Names, CommandKeeps

(* CreateToken adds a token that was never drawn.                          *)
LEMMA CreateTokenKeeps ==
    ASSUME IInv, NEW u \in Users, CreateToken(u)
    PROVE  IInv' /\ Moves
<1> DEFINE tokens == Read("tokens")
           new == [user |-> u, consumed |-> FALSE]
<1>0. TypeInv /\ ActorTypes /\ FilesInv /\ Drawn
  BY DEF IInv, TypeInv
<1>1. UNCHANGED <<req, chk, acked, lowered>> /\ Readable("tokens")
  BY DEF CreateToken
<1>2. PICK t \in Tokens \ used : /\ Command("token", u, "tokens", [tokens EXCEPT ![t] = new])
                                 /\ used' = used \cup {t}
  BY DEF CreateToken
<1> DEFINE data == [tokens EXCEPT ![t] = new]
<1>3. tokens \in Content("tokens") /\ \A x \in Tokens : tokens[x] # None => x \in used
  BY <1>0, <1>1, Names, ReadTyped DEF Drawn, NoTokens
<1>4. new \in Token
  BY DEF Token
<1> HIDE DEF new, tokens
<1>5. data \in Content("tokens") /\ \A x \in Tokens \ {t} : data[x] = tokens[x]
  BY <1>3, <1>4, Names
<1>6. Command("token", u, "tokens", data)
  BY <1>2
<1> HIDE DEF data
<1>7. "tokens" \notin contended => tokens = file["tokens"]
  BY <1>0, Names, ReadIntact DEF tokens
<1>8. Acceptable("token", u, "tokens", data)
  <2>1. \A x \in Tokens : data[x] # None => x \in used'
    BY <1>2, <1>3, <1>5
  <2>2. data \notin Torn
    BY <1>5, Names, Contents
  <2>3. "tokens" \notin contended => \A x \in Tokens : Used(file["tokens"], x) => Used(data, x)
    BY <1>2, <1>3, <1>5, <1>7, <2>2 DEF Used
  <2> QED
    BY <2>1, <2>3 DEF Acceptable
<1>9. "tokens" \in WritesOf("token") /\ used' \subseteq Tokens \cup Devices /\ used \subseteq used'
  BY <1>0, <1>2 DEF WritesOf, ActorTypes
<1> QED
  BY <1>1, <1>5, <1>6, <1>8, <1>9, Names, CommandKeeps

(* Revoking devices keeps within the quotas. *)
LEMMA FewerDevices ==
    ASSUME TypeInv, QuotaInv, Drawn, Readable("devices"),
           NEW data \in Content("devices"),
           \A d \in Devices : LET old == Read("devices")[d] IN
              /\ data[d] # None <=> old # None
              /\ data[d] # None => /\ data[d].user = old.user
                                   /\ old.revoked => data[d].revoked
    PROVE  /\ \A d \in Devices : data[d] # None => d \in used
           /\ "devices" \notin contended =>
                 \A d \in Devices : Revoked(file["devices"], d) => Revoked(data, d)
           /\ \A v \in Users : WithinQuota(data, v)
<1>0. FilesInv
  BY DEF TypeInv
<1>1. data \notin Torn
  BY Names, Contents
<1>2. \A d \in Devices : Read("devices")[d] # None => d \in used
  BY <1>0, Names, ReadTyped DEF Drawn, NoDevices
<1>3. "devices" \notin contended =>
        \A d \in Devices : Revoked(file["devices"], d) => Revoked(data, d)
  BY <1>0, <1>1, Names, ReadIntact DEF Revoked
<1>4. ASSUME NEW v \in Users PROVE WithinQuota(data, v)
  <2>1. Active(data, v) \subseteq Active(Read("devices"), v)
    BY DEF Active
  <2>2. Cardinality(Active(data, v)) <= Cardinality(Active(Read("devices"), v))
    BY <2>1, ActiveFinite, FS_Subset
  <2>3. /\ Cardinality(Active(data, v)) \in Nat
        /\ Cardinality(Active(Read("devices"), v)) \in Nat
    BY ActiveFinite
  <2>4. WithinQuota(Read("devices"), v)
    BY ReadWithinQuota
  <2>5. file["users"][v] # None => file["users"][v].quota \in Nat
    BY UsersRead
  <2> QED
    BY <2>1, <2>2, <2>3, <2>4, <2>5 DEF WithinQuota
<1> QED
  BY <1>2, <1>3, <1>4

(* RevokeUser first writes fewer active devices.                           *)
LEMMA RevokeUserKeeps ==
    ASSUME IInv, NEW u \in Users, RevokeUser(u)
    PROVE  IInv' /\ Moves
<1> DEFINE devices == Read("devices")
           data == [d \in Devices |-> IF devices[d] # None /\ devices[d].user = u
                                      THEN [devices[d] EXCEPT !.revoked = TRUE] ELSE devices[d]]
<1>0. TypeInv /\ ActorTypes /\ FilesInv /\ Drawn /\ QuotaInv
  BY DEF IInv, TypeInv
<1>1. /\ UNCHANGED <<used, req, chk, acked, lowered>> /\ Readable("devices")
      /\ file["users"][u] # None
      /\ Command("revoke", u, "devices", data)
  BY <1>0, UsersRead DEF RevokeUser
<1>2. devices \in Content("devices")
  BY <1>0, <1>1, Names, ReadTyped
<1> HIDE DEF devices
<1>3. ASSUME NEW d \in Devices
      PROVE  /\ data[d] \in Device \cup {None}
             /\ data[d] # None <=> devices[d] # None
             /\ data[d] # None => /\ data[d].user = devices[d].user
                                  /\ devices[d].revoked => data[d].revoked
  <2>1. devices[d] \in Device \cup {None}
    BY <1>2, Names
  <2>2. CASE devices[d] = None
    BY <2>2
  <2>3. CASE devices[d] # None /\ devices[d].user = u
    <3>1. data[d] = [devices[d] EXCEPT !.revoked = TRUE] /\ devices[d] \in Device
      BY <2>1, <2>3
    <3>2. data[d] \in Device /\ data[d].user = devices[d].user /\ data[d].revoked
      BY <3>1 DEF Device
    <3> QED
      BY <2>3, <3>2, MarkersAssumption
  <2>4. CASE devices[d] # None /\ devices[d].user # u
    BY <2>1, <2>4
  <2> QED
    BY <2>2, <2>3, <2>4
<1>4. data \in Content("devices")
  BY <1>3, Names
<1> HIDE DEF data
<1>5. Acceptable("revoke", u, "devices", data)
  <2>1. /\ \A d \in Devices : data[d] # None => d \in used
        /\ "devices" \notin contended =>
              \A d \in Devices : Revoked(file["devices"], d) => Revoked(data, d)
        /\ \A v \in Users : WithinQuota(data, v)
    BY <1>0, <1>1, <1>3, <1>4, FewerDevices DEF devices
  <2> QED
    BY <1>1, <2>1 DEF Acceptable
<1>6. "devices" \in WritesOf("revoke") /\ used' \subseteq Tokens \cup Devices
  BY <1>0, <1>1 DEF WritesOf, ActorTypes
<1> QED
  BY <1>1, <1>4, <1>5, <1>6, Names, CommandKeeps

(* RevokeDevice writes one active device less.                             *)
LEMMA RevokeDeviceKeeps ==
    ASSUME IInv, NEW x \in Devices, RevokeDevice(x)
    PROVE  IInv' /\ Moves
<1> DEFINE devices == Read("devices")
           data == [devices EXCEPT ![x].revoked = TRUE]
<1>0. TypeInv /\ ActorTypes /\ FilesInv /\ Drawn /\ QuotaInv
  BY DEF IInv, TypeInv
<1>1. /\ UNCHANGED <<used, req, chk, acked, lowered>> /\ Readable("devices")
      /\ devices[x] # None
      /\ Command("device", None, "devices", data)
  BY DEF RevokeDevice
<1>2. devices \in Content("devices")
  BY <1>0, <1>1, Names, ReadTyped
<1> HIDE DEF devices
<1>3. data[x] = [devices[x] EXCEPT !.revoked = TRUE] /\ devices[x] \in Device
  BY <1>1, <1>2, Names
<1>4. data[x] \in Device /\ data[x].user = devices[x].user /\ data[x].revoked /\ data[x] # None
  <2>1. data[x] \in Device /\ data[x].user = devices[x].user /\ data[x].revoked
    BY <1>3 DEF Device
  <2> QED
    BY <2>1, MarkersAssumption
<1>5. data \in Content("devices") /\ \A d \in Devices \ {x} : data[d] = devices[d]
  BY <1>2, <1>4, Names
<1> HIDE DEF data
<1>6. Acceptable("device", None, "devices", data)
  <2>1. \A d \in Devices : /\ data[d] # None <=> devices[d] # None
                           /\ data[d] # None => /\ data[d].user = devices[d].user
                                                /\ devices[d].revoked => data[d].revoked
    BY <1>1, <1>4, <1>5
  <2>2. /\ \A d \in Devices : data[d] # None => d \in used
        /\ "devices" \notin contended =>
              \A d \in Devices : Revoked(file["devices"], d) => Revoked(data, d)
        /\ \A v \in Users : WithinQuota(data, v)
    BY <1>0, <1>1, <1>5, <2>1, FewerDevices DEF devices
  <2> QED
    BY <1>1, <2>2 DEF Acceptable
<1>7. "devices" \in WritesOf("device") /\ used' \subseteq Tokens \cup Devices
  BY <1>0, <1>1 DEF WritesOf, ActorTypes
<1> QED
  BY <1>1, <1>5, <1>6, <1>7, Names, CommandKeeps

(* RevokeUser has replaced devices.json and goes on with users.json. *)
LEMMA RevokeContinues ==
    ASSUME IInv, wr["admin"] # None, cmd.op = "revoke", wr["admin"].f = "devices",
           Rename("admin", Starting("users", RevokedUsers)), UNCHANGED actors
    PROVE  IInv' /\ Moves
<1> DEFINE users == file["users"]
           u == cmd.user
           data == [users EXCEPT ![u].revoked = TRUE]
           next == Starting("users", data)
<1>0. /\ FilesInv /\ ActorTypes /\ GatewayControl /\ AdminControl /\ UsersInv /\ TypeInv
      /\ Drawn /\ TokensInv /\ DevicesInv /\ QuotaInv
      /\ UNCHANGED <<used, req, chk, cmd, acked, lowered>>
  BY DEF IInv, TypeInv, actors
<1>1. cmd # None /\ u \in Users /\ users[u] # None /\ users[u] \in User
  BY <1>0, UsersRead DEF AdminControl, UsersInv
<1>2. data[u] = [users[u] EXCEPT !.revoked = TRUE]
  BY <1>0, <1>1, UsersRead, Names
<1>3. data[u] \in User /\ data[u].revoked /\ data[u].quota = users[u].quota /\ data[u] # None
  <2>1. data[u] \in User /\ data[u].revoked /\ data[u].quota = users[u].quota
    BY <1>1, <1>2 DEF User
  <2> QED
    BY <2>1, MarkersAssumption
<1>4. data \in Content("users") /\ \A v \in Users \ {u} : data[v] = users[v]
  BY <1>0, <1>1, <1>3, UsersRead, Names
<1>5. Rename("admin", next)
  BY <1>0, UsersRead DEF RevokedUsers
<1> HIDE DEF data
<1>6. /\ Continues(next) /\ next # None /\ next.f = "users" /\ next.data = data
  BY <1>4, Names, StartingIsWriter DEF Continues
<1> HIDE DEF next
<1>7. /\ FilesInv'
      /\ wr'["admin"] = next /\ Same("gateway")
      /\ \A g \in Files \ {"devices"} : file'[g] = file[g]
      /\ Begins("users", data)
      /\ contended' = Contended("admin", "users")
  BY <1>0, <1>5, <1>6, Names, RenameEffect, RenameKeeps
<1>8. file'["users"] = users /\ file'["tokens"] = file["tokens"]
  BY <1>7, Names
<1>9. "users" \notin contended'
  <2>1. ~Writing("gateway", "users")
    BY <1>0 DEF GatewayControl, Writing
  <2> QED
    BY <1>0, <1>7, <2>1, Names DEF Contended, UsersInv
<1>10. ActorTypes' /\ GatewayControl'
  BY <1>0, <1>7, GatewayUntouched DEF ActorTypes
<1>11. AdminControl'
  BY <1>0, <1>1, <1>6, <1>7 DEF AdminControl, WritesOf
<1>12. UsersInv'
  <2>1. \A v \in Users : UserGrows(users[v], data[v], v)
    BY <1>0, <1>3, <1>4, UsersRead DEF UserGrows
  <2> QED
    BY <1>0, <1>1, <1>3, <1>6, <1>7, <1>8, <1>9, <2>1 DEF UsersInv, UserGrows, Revoked, Writing
<1>13. Drawn'
  BY <1>0, <1>7, DrawnUsers
<1>14. \A r \in Requests : TokenKept(r) /\ QuotaKept(r)
  BY <1>0 DEF TokenKept, QuotaKept, Spent, At
<1>15. TokensInv' /\ DevicesInv'
  BY <1>0, <1>7, <1>8, <1>14, TokensKept, DevicesKept, Names DEF Begins
<1>16. QuotaInv'
  BY <1>0, <1>7, <1>8, <1>9, <1>14, Names, SameUsers, QuotaInvKept DEF Begins
<1> QED
  BY <1>7, <1>10, <1>11, <1>12, <1>13, <1>15, <1>16 DEF IInv, TypeInv, Begins

(* The command is done: what it has written to users.json takes effect. *)
LEMMA CommandDone ==
    ASSUME IInv, wr["admin"] # None, ~(cmd.op = "revoke" /\ wr["admin"].f = "devices"),
           Rename("admin", None),
           acked' = acked \cup {u \in {cmd.user} : cmd.op = "revoke"},
           lowered' = lowered \cup
               {u \in {cmd.user} : /\ cmd.op = "limits"
                                   /\ wr["admin"].data[u].quota < Read("users")[u].quota},
           cmd' = None, UNCHANGED <<used, req, chk>>
    PROVE  IInv' /\ Moves
<1> DEFINE f == wr["admin"].f
           data == wr["admin"].data
<1>0. /\ FilesInv /\ ActorTypes /\ GatewayControl /\ AdminControl /\ UsersInv /\ TypeInv
      /\ Drawn /\ TokensInv /\ DevicesInv /\ QuotaInv
  BY DEF IInv, TypeInv
<1>1. Continues(None)
  BY DEF Continues
<1>2. /\ FilesInv' /\ Quiet /\ contended' = contended /\ Same("gateway") /\ wr'["admin"] = None
      /\ f \in Files /\ data \in Pending(f)
      /\ f \notin contended => file'[f] = data
      /\ \A g \in Files \ {f} : file'[g] = file[g]
  BY <1>0, <1>1, Names, RenameEffect, RenameKeeps
<1>3. /\ cmd # None /\ cmd \in Commands
      /\ cmd.op \in {"revoke", "limits"} => f = "users" /\ cmd.user \in Users
  BY <1>0 DEF AdminControl, ActorTypes, Commands, WritesOf
<1>4. ActorTypes'
  BY <1>0, <1>3 DEF ActorTypes
<1>5. GatewayControl'
  BY <1>0, <1>2, GatewayUntouched
<1>6. AdminControl'
  BY <1>2 DEF AdminControl
<1>7. /\ f = "users" => /\ file'["users"] = data
                        /\ \A v \in Users : UserGrows(file["users"][v], data[v], v)
      /\ f # "users" => file'["users"] = file["users"]
  BY <1>0, <1>2, Names DEF UsersInv, Writing
<1>8. file'["users"] \in Content("users") /\ file'["users"] \notin Torn
  <2>1. file'["users"] \in Content("users")
    BY <1>0, <1>2, Names DEF UsersInv, FilesInv, SingleWriter
  <2> QED
    BY <2>1, Names, Contents
<1>9. \A v \in Users : file["users"][v] # None =>
         /\ file'["users"][v] # None
         /\ file["users"][v].revoked => file'["users"][v].revoked
  BY <1>7 DEF UserGrows
<1>10. UsersInv'
  <2>1. ASSUME NEW v \in acked' PROVE Revoked(file'["users"], v)
    <3>1. CASE v \in acked
      <4>1. v \in Users /\ Revoked(file["users"], v)
        BY <1>0, <3>1 DEF UsersInv, ActorTypes
      <4> QED
        BY <1>8, <1>9, <4>1 DEF Revoked
    <3>2. CASE cmd.op = "revoke" /\ v = cmd.user
      <4>1. /\ file["users"][v] # None /\ v \in Users /\ f = "users"
            /\ data[v].revoked
        BY <1>0, <1>3, <3>2 DEF UsersInv, Writing
      <4> QED
        BY <1>7, <1>8, <1>9, <4>1 DEF Revoked
    <3> QED
      BY <3>1, <3>2
  <2>2. \A v \in acked' : Revoked(file["users"], v)'
    BY <2>1 DEF Revoked, Torn
  <2>3. ~Writing("admin", "users")'
    BY <1>2 DEF Writing
  <2> QED
    BY <1>0, <1>2, <2>2, <2>3 DEF UsersInv
<1>11. Drawn' /\ DevicesInv'
  BY <1>0, <1>2, DrawnQuiet, DevicesKept, Names DEF Quiet
<1>12. \A r \in Requests : TokenKept(r) /\ QuotaKept(r)
  BY DEF TokenKept, QuotaKept, Spent, At
<1>13. TokensInv'
  <2>1. ASSUME "tokens" \notin contended', NEW r \in Requests, At(r, "consuming")'
        PROVE  file'["tokens"] = file["tokens"]
    <3>1. Writing("gateway", "tokens") /\ "tokens" \notin contended
      BY <1>0, <1>2, <2>1 DEF GatewayControl, At
    <3>2. f # "tokens"
      BY <1>0, <3>1, Names DEF FilesInv, SingleWriter, Writing
    <3> QED
      BY <1>2, <3>2, Names
  <2> QED
    BY <1>0, <1>2, <1>12, <2>1, TokensKept, Names DEF Quiet
<1>14. QuotaInv'
  <2>1. ASSUME NEW v \in Users, file["users"][v] # None, v \notin lowered'
        PROVE  file'["users"][v].quota >= file["users"][v].quota
    <3>1. CASE f # "users"
      <4>1. file["users"][v].quota \in Nat
        BY <1>0, <2>1, UsersRead
      <4> QED
        BY <1>7, <3>1, <4>1
    <3>2. CASE f = "users" /\ data[v].quota >= file["users"][v].quota
      BY <1>7, <3>2
    <3>3. CASE f = "users" /\ ~(data[v].quota >= file["users"][v].quota)
      <4>1. cmd = [op |-> "limits", user |-> v]
        BY <1>7, <2>1, <3>3 DEF UserGrows
      <4>2. cmd.op = "limits" /\ cmd.user = v
        BY <4>1
      <4>3. file["users"][v].quota \in Nat /\ data[v].quota \in Nat /\ Read("users") = file["users"]
        BY <1>0, <1>7, <1>8, <1>9, <2>1, <3>3, UsersRead, Names, IdentityAssumption DEF User
      <4>4. v \in lowered'
        BY <3>3, <4>2, <4>3
      <4> QED
        BY <2>1, <4>4
    <3> QED
      BY <3>1, <3>2, <3>3
  <2>2. UsersStep
    BY <1>9, <2>1 DEF UsersStep
  <2> QED
    BY <1>0, <1>2, <1>12, <2>2, Names, QuotaInvKept DEF Quiet, UsersInv
<1> QED
  BY <1>2, <1>4, <1>5, <1>6, <1>10, <1>11, <1>13, <1>14 DEF IInv, TypeInv, Quiet

(* A command fails or is killed. *)
LEMMA CommandStops ==
    ASSUME IInv, Stops("admin") \/ RenameFails("admin"), cmd' = None,
           UNCHANGED <<used, req, chk, acked, lowered>>
    PROVE  IInv' /\ Moves
<1>0. /\ FilesInv /\ ActorTypes /\ GatewayControl /\ AdminControl /\ UsersInv /\ TypeInv
      /\ Drawn /\ TokensInv /\ DevicesInv /\ QuotaInv
  BY DEF IInv, TypeInv
<1>1. /\ FilesInv' /\ Quiet /\ contended' = contended
      /\ file'["users"] = file["users"]
      /\ \A f \in Files \ contended : file'[f] = file[f]
      /\ wr'["admin"] = None /\ wr'["gateway"] = wr["gateway"]
  BY <1>0, Names, StopIsQuiet DEF UsersInv
<1>2. ActorTypes' /\ GatewayControl'
  BY <1>0, <1>1, GatewayUntouched DEF ActorTypes, Same
<1>3. AdminControl' /\ UsersInv'
  BY <1>0, <1>1 DEF AdminControl, UsersInv, Writing, Revoked
<1>4. Drawn' /\ DevicesInv'
  BY <1>0, <1>1, DrawnQuiet, DevicesKept, Names DEF Quiet
<1>5. \A r \in Requests : TokenKept(r) /\ QuotaKept(r)
  BY DEF TokenKept, QuotaKept, Spent, At
<1>6. TokensInv'
  BY <1>0, <1>1, <1>5, TokensKept, Names DEF Quiet
<1>7. QuotaInv'
  BY <1>0, <1>1, <1>5, Names, SameUsers, QuotaInvKept DEF Quiet, UsersInv
<1> QED
  BY <1>1, <1>2, <1>3, <1>4, <1>6, <1>7 DEF IInv, TypeInv, Quiet

-----------------------------------------------------------------------------
(* Every step.                                                             *)

(* IInv is inductive, and a file only ever becomes what was being written. *)
LEMMA NextKeeps ==
    ASSUME IInv, [Next]_vars
    PROVE  IInv' /\ Moves
<1>1. ASSUME NEW r \in Requests, Enrollment(r) PROVE IInv' /\ Moves
  BY <1>1, ConsumeTokenKeeps, ReadUserKeeps, RegisterKeeps, EnrollFailsKeeps DEF Enrollment
<1>2. ASSUME NEW c \in Checks, Admission(c) PROVE IInv' /\ Moves
  BY <1>2, CheckKeeps
<1>3. CASE GatewayWrites
  <2>1. CASE (Truncate("gateway") \/ Write("gateway")) /\ UNCHANGED actors
    BY <2>1, Names, AdvanceKeeps
  <2>2. CASE Rename("gateway", None) /\ req' = [r \in Requests |-> Renamed(req[r])]
             /\ UNCHANGED <<used, chk, cmd, acked, lowered>>
    BY <2>2, GatewayRenameKeeps
  <2>3. CASE (WriteFails("gateway") \/ RenameFails("gateway")) /\ req' = [r \in Requests |-> NotRenamed(req[r])]
             /\ UNCHANGED <<used, chk, cmd, acked, lowered>>
    BY <2>3, GatewayStopKeeps DEF WriteFails
  <2> QED
    BY <1>3, <2>1, <2>2, <2>3 DEF GatewayWrites
<1>4. CASE GatewayCrash
  BY <1>4, GatewayStopKeeps DEF GatewayCrash, Killed
<1>5. ASSUME NEW u \in Users, AddUser(u) \/ RevokeUser(u) \/ PatchUserQuotas(u) \/ CreateToken(u)
      PROVE  IInv' /\ Moves
  BY <1>5, AddUserKeeps, RevokeUserKeeps, PatchUserQuotasKeeps, CreateTokenKeeps
<1>6. ASSUME NEW d \in Devices, RevokeDevice(d) PROVE IInv' /\ Moves
  BY <1>6, RevokeDeviceKeeps
<1>7. CASE AdminWrites
  <2>1. CASE (Truncate("admin") \/ Write("admin")) /\ UNCHANGED actors
    BY <2>1, Names, AdvanceKeeps
  <2>2. CASE /\ wr["admin"] # None /\ cmd.op = "revoke" /\ wr["admin"].f = "devices"
             /\ Rename("admin", Starting("users", RevokedUsers))
             /\ UNCHANGED actors
    BY <2>2, RevokeContinues
  <2>3. CASE /\ wr["admin"] # None /\ ~(cmd.op = "revoke" /\ wr["admin"].f = "devices")
             /\ Rename("admin", None)
             /\ acked' = acked \cup {u \in {cmd.user} : cmd.op = "revoke"}
             /\ lowered' = lowered \cup
                   {u \in {cmd.user} : /\ cmd.op = "limits"
                                       /\ wr["admin"].data[u].quota < Read("users")[u].quota}
             /\ cmd' = None
             /\ UNCHANGED <<used, req, chk>>
    BY <2>3, CommandDone
  <2>4. CASE (WriteFails("admin") \/ RenameFails("admin")) /\ cmd' = None /\ UNCHANGED <<used, req, chk, acked, lowered>>
    BY <2>4, CommandStops DEF WriteFails
  <2> QED
    BY <1>7, <2>1, <2>2, <2>3, <2>4 DEF AdminWrites
<1>8. CASE AdminCrash
  BY <1>8, CommandStops DEF AdminCrash, Killed
<1>9. CASE UNCHANGED vars
  <2>1. UNCHANGED <<fileVars, used, req, chk, cmd, acked, lowered>>
    BY <1>9 DEF vars, actors
  <2>2. /\ req' \in [Requests -> Enrollments] /\ chk' \in [Checks -> DeviceChecks]
        /\ \A c \in Checks : ~chk'[c].late
    BY <2>1 DEF IInv, TypeInv, ActorTypes, UsersInv
  <2>3. GatewayControl'
    BY <2>1 DEF IInv, TypeInv, GatewayControl, Writing, At, fileVars
  <2>4. \A r \in Requests : TokenKept(r) /\ QuotaKept(r)
    BY <2>1 DEF TokenKept, QuotaKept, Spent, At
  <2> QED
    BY <2>1, <2>2, <2>3, <2>4, LocalKeeps
<1> QED
  BY <1>1, <1>2, <1>3, <1>4, <1>5, <1>6, <1>7, <1>8, <1>9 DEF Next

(* At first there are no files.                                            *)
LEMMA InitKeeps == Init => IInv
<1> SUFFICES ASSUME Init PROVE IInv
  OBVIOUS
<1>1. /\ file = [f \in Files |-> Nothing(f)] /\ tmp = [f \in Files |-> None]
      /\ wr = [p \in Procs |-> None] /\ contended = {} /\ used = {}
      /\ req = [r \in Requests |-> Idle] /\ chk = [c \in Checks |-> NoCheck]
      /\ cmd = None /\ acked = {} /\ lowered = {}
  BY DEF Init, FilesInit
<1>2. \A f \in Files : file[f] = Nothing(f) /\ file[f] \in Content(f) /\ tmp[f] = None
  BY <1>1, NothingTyped
<1>3. \A p \in Procs : wr[p] = None
  BY <1>1
<1>4. FilesInv
  BY <1>1, <1>2, <1>3 DEF FilesInv, FileTypes, SingleWriter, Writing
<1>5. \A f \in Files : Pending(f) = {} /\ Versions(f) \subseteq {Nothing(f)}
  BY <1>2, <1>3 DEF Pending, Versions, Writing
<1>6. \A r \in Requests : req[r] \in Enrollments /\ req[r].pc = "idle"
  BY <1>1, IdleTyped
<1>7. \A c \in Checks : chk[c] \in DeviceChecks /\ chk[c].pc = "idle" /\ ~chk[c].late
  BY <1>1, IdleTyped
<1>8. ActorTypes
  BY <1>1, <1>6, <1>7 DEF ActorTypes
<1>9. GatewayControl /\ AdminControl
  BY <1>1, <1>3, <1>6, <1>7, Names DEF GatewayControl, AdminControl, At
<1>10. UsersInv
  BY <1>1, <1>3, <1>7, Names DEF UsersInv, Writing
<1>11. Drawn
  BY <1>5, Names DEF Drawn, NoTokens, NoDevices
<1>12. TokensInv /\ DevicesInv
  BY <1>5, <1>6, Names DEF TokensInv, TokensSafe, DevicesInv, Spent, At
<1>13. QuotaInv
  <2>1. \A u \in Users : file["users"][u] = None
    BY <1>2, Names DEF NoUsers
  <2>2. \A u \in Users : Active(NoDevices, u) = {}
    BY DEF Active, NoDevices
  <2> QED
    BY <1>5, <1>6, <2>1, <2>2, Names DEF QuotaInv, WithinQuota, QuotaRead, At
<1> QED
  BY <1>4, <1>8, <1>9, <1>10, <1>11, <1>12, <1>13 DEF IInv, TypeInv

(* What is on disk, on its way and in the locals agrees in every           *)
(* reachable state.                                                        *)
THEOREM IdentityInvariant == Spec => []IInv
<1>1. Init => IInv
  BY InitKeeps
<1>2. IInv /\ [Next]_vars => IInv'
  BY NextKeeps
<1> QED
  BY <1>1, <1>2, PTL DEF Spec

(* Files, writers and handlers are typed in every reachable state.         *)
THEOREM IdentityTypes == Spec => []IdTypeOK
<1>1. IInv => IdTypeOK
  BY DEF IInv, TypeInv, FilesInv, FileTypes, ActorTypes, IdTypeOK
<1> QED
  BY <1>1, IdentityInvariant, PTL

(* store.go, writeJSON: a crash leaves the old or the new content; only    *)
(* two processes writing one file at once can damage it.                   *)
THEOREM IdentityIntact == Spec => []IntactUnlessContended
<1>1. IInv => IntactUnlessContended
  BY Contents DEF IInv, TypeInv, FilesInv, SingleWriter, IntactUnlessContended
<1> QED
  BY <1>1, IdentityInvariant, PTL

(* ConsumeToken: a token is spent once, unless a command wrote tokens.json *)
(* at the same time.                                                       *)
THEOREM IdentityTokenOnce == Spec => []TokenOnce
<1>1. IInv => TokenOnce
  BY DEF IInv, TokensInv, TokensSafe, TokenOnce
<1> QED
  BY <1>1, IdentityInvariant, PTL

(* Enroll: no user has more devices that would be let in than the quota,   *)
(* unless it was lowered.                                                  *)
THEOREM IdentityDeviceQuota == Spec => []DeviceQuota
<1>1. IInv => DeviceQuota
  <2> SUFFICES ASSUME IInv, NEW u \in Users \ lowered,
                      Read("users")[u] # None, Readable("devices")
               PROVE  Cardinality(Active(Read("devices"), u)) <= Read("users")[u].quota
    BY DEF DeviceQuota
  <2>1. TypeInv /\ QuotaInv
    BY DEF IInv
  <2>2. WithinQuota(Read("devices"), u) /\ Read("users") = file["users"]
    BY <2>1, ReadWithinQuota, UsersRead
  <2> QED
    BY <2>2 DEF WithinQuota
<1> QED
  BY <1>1, IdentityInvariant, PTL

(* CheckDevice: after the confirmed revocation of a user nobody connects   *)
(* as that user.                                                           *)
THEOREM IdentityRevokedUserOut == Spec => []RevokedUserOut
<1>1. IInv => RevokedUserOut
  BY DEF IInv, TypeInv, UsersInv, RevokedUserOut
<1> QED
  BY <1>1, IdentityInvariant, PTL

(* A revoked device or a used token comes back only in a file that two     *)
(* processes wrote at once.                                                *)
THEOREM IdentityNothingUndone == Spec => NothingUndone
<1>1. IInv /\ [Next]_vars =>
        [/\ (\E d \in Devices : Revoked(file["devices"], d) /\ Enabled(file'["devices"], d))
            => "devices" \in contended
         /\ (\E t \in Tokens : Used(file["tokens"], t) /\ Unused(file'["tokens"], t))
            => "tokens" \in contended]_vars
  <2> SUFFICES ASSUME IInv, [Next]_vars
               PROVE  /\ \A d \in Devices : Revoked(file["devices"], d) /\ Enabled(file'["devices"], d)
                                              => "devices" \in contended
                      /\ \A t \in Tokens : Used(file["tokens"], t) /\ Unused(file'["tokens"], t)
                                              => "tokens" \in contended
    OBVIOUS
  <2>1. Moves
    BY NextKeeps
  <2>2. "devices" \notin contended => file'["devices"] \in {file["devices"]} \cup Pending("devices")
    BY <2>1, Names DEF Moves
  <2>3. "tokens" \notin contended => file'["tokens"] \in {file["tokens"]} \cup Pending("tokens")
    BY <2>1, Names DEF Moves
  <2>4. ASSUME NEW d \in Devices, Revoked(file["devices"], d), Enabled(file'["devices"], d)
        PROVE  "devices" \in contended
    BY <2>2, <2>4 DEF IInv, DevicesInv, Revoked, Enabled
  <2>5. ASSUME NEW t \in Tokens, Used(file["tokens"], t), Unused(file'["tokens"], t)
        PROVE  "tokens" \in contended
    BY <2>3, <2>5 DEF IInv, TokensInv, TokensSafe, Used, Unused
  <2> QED
    BY <2>4, <2>5
<1> QED
  BY <1>1, IdentityInvariant, PTL DEF Spec, NothingUndone
=============================================================================
