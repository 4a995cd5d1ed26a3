----------------------------- MODULE HttpPipe -----------------------------
(***************************************************************************)
(* internal/httppipe: one public request, from its visitor through the     *)
(* gateway (ForwardRequest), the data stream of the tunnel and the daemon  *)
(* (ServeOrigin) to the local origin, and back; with the streams of        *)
(* internal/tunnelconn over which the two halves talk.                     *)
(*                                                                         *)
(* Bytes are chunks: a request is its head and a number of body chunks; a  *)
(* response is its head, chunks of data and, when it has a length, a last  *)
(* chunk.  A copy moves a chunk when the next hop has room for it, finds   *)
(* out that the next hop is gone only when it has a chunk to write, and    *)
(* sees the end of its input after the last chunk.                         *)
(***************************************************************************)
EXTENDS Naturals, Sequences, FiniteSets

CONSTANTS Window,    \* chunks in flight on a hop before a write blocks
          MaxBody,   \* bound on body chunks of the request
          MaxData,   \* bound on data chunks of the response, and of the visitor's
                     \* after an upgrade
          Transports \* of the tunnel: "quic", "h2"

ASSUME PipeAssumption == Window \in Nat \ {0} /\ MaxBody \in Nat /\ MaxData \in Nat

(* Hops in one direction, named by their ends: visitor, gateway, daemon,   *)
(* origin.                                                                 *)
Hops == {"VG", "GD", "DO", "OD", "DG", "GV"}
Modes == {"sized", "closed", "upgrade"} \* how a response ends: length, close, never

VARIABLES transport,
          body,     \* chunks of the request's body
          visitor,  \* "there" or "left"
          visSent,  \* chunks the visitor has sent
          gateway,  \* ForwardRequest: "write", "read", "copy", "both" or "done"
          gatSent,  \* body chunks it has written to the stream
          gatCopy,  \* its two copies after an upgrade that still run
          daemon,   \* ServeOrigin: "read", "dial", "write", "both" or "done"
          daeSent,  \* body chunks it has written to the origin
          daeCopy,  \* its two copies that still run
          origin,   \* "idle", "answering", "answered" or "closed"
          mode,     \* how its response ends
          orgRead,  \* chunks of the request the origin has read
          orgSent,  \* data chunks it has sent
          wire,     \* wire[h]: chunks in flight
          fin,      \* hops whose writer has closed
          gone      \* hops whose reader has gone: writes fail

visVars == <<visitor, visSent>>
gatVars == <<gateway, gatSent, gatCopy>>
daeVars == <<daemon, daeSent, daeCopy>>
orgVars == <<origin, mode, orgRead, orgSent>>
endVars == <<fin, gone>>
given == <<transport, body>>
vars == <<given, visVars, gatVars, daeVars, orgVars, wire, endVars>>

Init == /\ transport \in Transports /\ body \in 0..MaxBody
        /\ visitor = "there" /\ visSent = 0
        /\ gateway = "write" /\ gatSent = 0 /\ gatCopy = {}
        /\ daemon = "read" /\ daeSent = 0 /\ daeCopy = {}
        /\ origin = "idle" /\ mode = "sized" /\ orgRead = 0 /\ orgSent = 0
        /\ wire = [h \in Hops |-> IF h = "GD" THEN <<"head">> ELSE <<>>]
        /\ fin = {} /\ gone = {}

Room(h) == Len(wire[h]) < Window /\ h \notin fin \cup gone
Put(h, c) == Room(h) /\ wire' = [wire EXCEPT ![h] = Append(@, c)]
Takes(h) == wire[h] # <<>> /\ wire' = [wire EXCEPT ![h] = Tail(@)]
Moves(h, k) == /\ wire[h] # <<>> /\ Room(k)
               /\ wire' = [wire EXCEPT ![h] = Tail(@), ![k] = Append(@, Head(wire[h]))]
End(h) == wire[h] = <<>> /\ h \in fin
\* Mutant: bidir returns with its first copy.
JoinedByFirst(copies) == Cardinality(copies) < 2

Joined(copies) == copies = {} \* wg.Wait of bidir

Fails(h, k) == wire[h] # <<>> /\ k \in gone \* a chunk is there, and cannot be written

-----------------------------------------------------------------------------
(* The visitor (external).                                                 *)

VisitorSends ==
    /\ visitor = "there" /\ visSent < body + (IF gateway = "both" THEN MaxData ELSE 0)
    /\ Put("VG", "data")
    /\ visSent' = visSent + 1
    /\ UNCHANGED <<given, visitor, gatVars, daeVars, orgVars, endVars>>

VisitorReads ==
    /\ visitor = "there" /\ Takes("GV")
    /\ UNCHANGED <<given, visVars, gatVars, daeVars, orgVars, endVars>>

VisitorLeaves ==
    /\ visitor = "there" /\ visitor' = "left"
    /\ fin' = fin \cup {"VG"} /\ gone' = gone \cup {"GV"}
    /\ UNCHANGED <<given, visSent, gatVars, daeVars, orgVars, wire>>

VisitorSeesEnd == End("GV") /\ VisitorLeaves

-----------------------------------------------------------------------------
(* The gateway: ForwardRequest, upgrade.                                   *)

\* Mutant: closing leaves the body of the response open.
WriterOnly == {}

(* What halfConn.Close ends besides the writing side: the response's body. *)
(* A QUIC stream's Close ends the writing side only.                       *)
BodyClosed == IF transport = "h2" THEN {"DG"} ELSE {}

(* The deferred Close of the stream; of the hijacked connection too.       *)
GatewayReturns(hijacked) ==
    /\ gateway' = "done"
    /\ fin' = fin \cup {"GD"} \cup (IF hijacked THEN {"GV"} ELSE {})
    /\ gone' = gone \cup BodyClosed \cup (IF hijacked THEN {"VG"} ELSE {})

(* r.Write copies the body.                                                *)
GatewayWrites ==
    /\ gateway = "write" /\ gatSent < body
    /\ Moves("VG", "GD")
    /\ gatSent' = gatSent + 1
    /\ UNCHANGED <<given, visVars, gateway, gatCopy, daeVars, orgVars, endVars>>

GatewayWritten ==
    /\ gateway = "write" /\ gatSent = body
    /\ gateway' = "read"
    /\ UNCHANGED <<given, visVars, gatSent, gatCopy, daeVars, orgVars, wire, endVars>>

(* The visitor left within the body, the stream cannot be written, or it   *)
(* ended before a response, or cannot be copied to the visitor.            *)
GatewayFails ==
    /\ \/ gateway = "write" /\ gatSent < body /\ (End("VG") \/ Fails("VG", "GD"))
       \/ gateway = "read" /\ End("DG")
       \/ gateway = "copy" /\ Fails("DG", "GV")
    /\ GatewayReturns(FALSE)
    /\ UNCHANGED <<given, visVars, gatSent, gatCopy, daeVars, orgVars, wire>>

(* ReadResponse, and what follows.                                         *)
GatewayReads ==
    /\ gateway = "read" /\ Takes("DG")
    /\ LET up == Head(wire["DG"]) = "upgrade" IN
        /\ gateway' = IF up THEN "both" ELSE "copy"
        /\ gatCopy' = IF up THEN {"toVisitor", "toStream"} ELSE {}
    /\ UNCHANGED <<given, visVars, gatSent, daeVars, orgVars, endVars>>

(* copyFlush: a response with a length ends with it, another with the      *)
(* stream.                                                                 *)
GatewayCopies ==
    /\ gateway = "copy" /\ Moves("DG", "GV")
    /\ IF Head(wire["DG"]) = "last" THEN GatewayReturns(FALSE) ELSE UNCHANGED <<gateway, endVars>>
    /\ UNCHANGED <<given, visVars, gatSent, gatCopy, daeVars, orgVars>>

GatewayCopied ==
    /\ gateway = "copy" /\ End("DG")
    /\ GatewayReturns(FALSE)
    /\ UNCHANGED <<given, visVars, gatSent, gatCopy, daeVars, orgVars, wire>>

(* bidir: the visitor's connection has CloseWrite, a stream has not.       *)
GatewayPipes ==
    /\ \/ "toVisitor" \in gatCopy /\ Moves("DG", "GV")
       \/ "toStream" \in gatCopy /\ Moves("VG", "GD")
    /\ UNCHANGED <<given, visVars, gatVars, daeVars, orgVars, endVars>>

GatewayCopyEnds ==
    /\ \/ /\ "toVisitor" \in gatCopy /\ (End("DG") \/ Fails("DG", "GV"))
          /\ gatCopy' = gatCopy \ {"toVisitor"} /\ fin' = fin \cup {"GV"}
       \/ /\ "toStream" \in gatCopy /\ (End("VG") \/ Fails("VG", "GD"))
          /\ gatCopy' = gatCopy \ {"toStream"} /\ UNCHANGED fin
    /\ UNCHANGED <<given, visVars, gateway, gatSent, daeVars, orgVars, wire, gone>>

GatewayUpgradeEnds ==
    /\ gateway = "both" /\ Joined(gatCopy)
    /\ GatewayReturns(TRUE)
    /\ UNCHANGED <<given, visVars, gatSent, gatCopy, daeVars, orgVars, wire>>

Gateway == \/ GatewayWrites \/ GatewayWritten \/ GatewayFails \/ GatewayReads \/ GatewayCopies
           \/ GatewayCopied \/ GatewayCopyEnds \/ GatewayUpgradeEnds

-----------------------------------------------------------------------------
(* The daemon: ServeOrigin.                                                *)

\* Mutant: ServeOrigin forgets to close the stream.
DaemonReturnsOpen ==
    /\ daemon' = "done"
    /\ fin' = fin \cup {"DO"} \cup (IF transport = "h2" THEN {"DG"} ELSE {})
    /\ gone' = gone \cup {"OD"} \cup (IF transport = "h2" THEN {"GD"} ELSE {})

(* The deferred Closes.  A returned handler resets what is left of an      *)
(* HTTP/2 request; a QUIC stream stays readable to nobody.                 *)
DaemonReturns ==
    /\ daemon' = "done"
    /\ fin' = fin \cup {"DG", "DO"}
    /\ gone' = gone \cup {"OD"} \cup (IF transport = "h2" THEN {"GD"} ELSE {})

DaemonReads ==
    /\ daemon = "read" /\ Takes("GD")
    /\ daemon' = "dial"
    /\ UNCHANGED <<given, visVars, gatVars, daeSent, daeCopy, orgVars, endVars>>

(* handleData: the preamble names a tunnel that the daemon has not.        *)
TunnelUnknown ==
    /\ daemon = "read" /\ DaemonReturns
    /\ UNCHANGED <<given, visVars, gatVars, daeSent, daeCopy, orgVars, wire>>

DaemonDials ==
    /\ daemon = "dial" /\ origin # "closed"
    /\ Put("DO", "head")
    /\ daemon' = "write"
    /\ UNCHANGED <<given, visVars, gatVars, daeSent, daeCopy, orgVars, endVars>>

(* No origin, or no TLS with it: writeErr answers with a 502 of length 0.  *)
DialFails ==
    /\ daemon = "dial"
    /\ wire' = [wire EXCEPT !["DG"] = IF "DG" \in gone THEN @ ELSE @ \o <<"sized", "last">>]
    /\ DaemonReturns
    /\ UNCHANGED <<given, visVars, gatVars, daeSent, daeCopy, orgVars>>

(* req.Write copies the body; the two copies follow.                       *)
DaemonWrites ==
    /\ daemon = "write" /\ daeSent < body
    /\ Moves("GD", "DO")
    /\ daeSent' = daeSent + 1
    /\ UNCHANGED <<given, visVars, gatVars, daemon, daeCopy, orgVars, endVars>>

DaemonWritten ==
    /\ daemon = "write" /\ daeSent = body
    /\ daemon' = "both" /\ daeCopy' = {"toOrigin", "toStream"}
    /\ UNCHANGED <<given, visVars, gatVars, daeSent, orgVars, wire, endVars>>

DaemonFails ==
    /\ \/ daemon = "read" /\ End("GD")
       \/ daemon = "write" /\ daeSent < body /\ (End("GD") \/ Fails("GD", "DO"))
    /\ DaemonReturns
    /\ UNCHANGED <<given, visVars, gatVars, daeSent, daeCopy, orgVars, wire>>

DaemonPipes ==
    /\ \/ "toOrigin" \in daeCopy /\ Moves("GD", "DO")
       \/ "toStream" \in daeCopy /\ Moves("OD", "DG")
    /\ UNCHANGED <<given, visVars, gatVars, daeVars, orgVars, endVars>>

\* Mutant: countingWriter hides the origin's CloseWrite.
NotClosed(h) == {}

(* closeWrite on the origin, through countingWriter; a stream has none.    *)
CloseWrite(h) == {h}

DaemonCopyEnds ==
    /\ \/ /\ "toOrigin" \in daeCopy /\ (End("GD") \/ Fails("GD", "DO"))
          /\ daeCopy' = daeCopy \ {"toOrigin"} /\ fin' = fin \cup CloseWrite("DO")
       \/ /\ "toStream" \in daeCopy /\ (End("OD") \/ Fails("OD", "DG"))
          /\ daeCopy' = daeCopy \ {"toStream"} /\ UNCHANGED fin
    /\ UNCHANGED <<given, visVars, gatVars, daemon, daeSent, orgVars, wire, gone>>

DaemonEnds ==
    /\ daemon = "both" /\ Joined(daeCopy)
    /\ DaemonReturns
    /\ UNCHANGED <<given, visVars, gatVars, daeSent, daeCopy, orgVars, wire>>

Daemon == \/ DaemonReads \/ TunnelUnknown \/ DaemonDials \/ DialFails \/ DaemonWrites \/ DaemonWritten
          \/ DaemonFails \/ DaemonCopyEnds \/ DaemonEnds

-----------------------------------------------------------------------------
(* The origin (external).                                                  *)

OriginReads ==
    /\ origin # "closed" /\ Takes("DO")
    /\ orgRead' = orgRead + 1
    /\ UNCHANGED <<given, visVars, gatVars, daeVars, origin, mode, orgSent, endVars>>

OriginAnswers ==
    /\ origin = "idle" /\ orgRead > 0
    /\ \E m \in Modes : mode' = m /\ Put("OD", m)
    /\ origin' = "answering"
    /\ UNCHANGED <<given, visVars, gatVars, daeVars, orgRead, orgSent, endVars>>

OriginSends ==
    /\ origin = "answering" /\ orgSent < MaxData
    /\ Put("OD", "data")
    /\ orgSent' = orgSent + 1
    /\ UNCHANGED <<given, visVars, gatVars, daeVars, origin, mode, orgRead, endVars>>

(* A response with a length is complete; the connection stays open.        *)
OriginAnswered ==
    /\ origin = "answering" /\ mode = "sized"
    /\ Put("OD", "last")
    /\ origin' = "answered"
    /\ UNCHANGED <<given, visVars, gatVars, daeVars, mode, orgRead, orgSent, endVars>>

Closes == /\ origin # "closed" /\ origin' = "closed"
          /\ fin' = fin \cup {"OD"} /\ gone' = gone \cup {"DO"}
          /\ UNCHANGED <<given, visVars, gatVars, daeVars, mode, orgRead, orgSent, wire>>

OriginCloses == daemon \notin {"read", "dial"} /\ Closes
OriginSeesEnd == End("DO") /\ Closes

(* The tunnel is lost (external): its streams end, with what they carried. *)
TunnelBreaks ==
    /\ ~({"GD", "DG"} \subseteq fin)
    /\ wire' = [h \in Hops |-> IF h \in {"GD", "DG"} THEN <<>> ELSE wire[h]]
    /\ fin' = fin \cup {"GD", "DG"} /\ gone' = gone \cup {"GD", "DG"}
    /\ UNCHANGED <<given, visVars, gatVars, daeVars, orgVars>>

Next == \/ VisitorSends \/ VisitorReads \/ VisitorLeaves \/ VisitorSeesEnd
        \/ Gateway \/ GatewayPipes
        \/ Daemon \/ DaemonPipes
        \/ OriginReads \/ OriginAnswers \/ OriginSends \/ OriginAnswered \/ OriginCloses \/ OriginSeesEnd
        \/ TunnelBreaks

Spec == Init /\ [][Next]_vars

(* The goroutines of gateway and daemon run; visitor and origin read what  *)
(* comes, the visitor sends the body it announced, and both close a        *)
(* connection whose other end has closed.  The origin need not answer.     *)
FairSpec ==
    /\ Spec
    /\ WF_vars(Gateway) /\ WF_vars(GatewayPipes)
    /\ WF_vars(Daemon) /\ WF_vars(DaemonPipes)
    /\ WF_vars(VisitorReads) /\ WF_vars(VisitorSends) /\ WF_vars(VisitorSeesEnd)
    /\ WF_vars(OriginReads) /\ WF_vars(OriginSeesEnd)

-----------------------------------------------------------------------------

(* Types; a handler's copies end before it does.                           *)
PipeTypeOK ==
    /\ transport \in Transports /\ body \in 0..MaxBody
    /\ visitor \in {"there", "left"} /\ visSent \in 0..(body + MaxData)
    /\ gateway \in {"write", "read", "copy", "both", "done"} /\ gatSent \in 0..body
    /\ daemon \in {"read", "dial", "write", "both", "done"} /\ daeSent \in 0..gatSent
    /\ gatCopy \subseteq {"toVisitor", "toStream"} /\ (gatCopy # {} => gateway = "both")
    /\ daeCopy \subseteq {"toOrigin", "toStream"} /\ (daeCopy # {} => daemon = "both")
    /\ origin \in {"idle", "answering", "answered", "closed"} /\ mode \in Modes
    /\ orgRead \in 0..(1 + body + MaxData) /\ orgSent \in 0..MaxData
    /\ wire \in [Hops -> Seq({"head", "data", "last"} \cup Modes)]
    /\ fin \subseteq Hops /\ gone \subseteq Hops

(* A response with a length to a request that the origin has read ends     *)
(* the public request, and the daemon's handler though the origin keeps    *)
(* its connection open: the slot, the stream and the origin's connection   *)
(* are given back.  Over QUIC the daemon needs a visitor who stays: what   *)
(* is sent for another nobody reads, nor resets.                           *)
AnsweredEnds ==
    (origin = "answered" /\ orgRead = 1 + body) ~>
        /\ gateway = "done"
        /\ daemon = "done" \/ (transport = "quic" /\ visitor = "left")

(* Over HTTP/2 the end of the public request, for whatever reason and at   *)
(* whatever point of the exchange, ends the daemon's handler.              *)
DaemonFollows == (gateway = "done" /\ transport = "h2") ~> (daemon = "done")

(* The end of the daemon's handler, a dial that failed or an origin that   *)
(* hung up included, ends the public request.  Over QUIC only if nothing   *)
(* is left to write to a stream that nobody reads and nobody resets.       *)
GatewayFollows ==
    (daemon = "done" /\ (transport = "h2" \/ (gatSent = body /\ mode # "upgrade")))
      ~> (gateway = "done")

(* "pipes until both sides close" (pipe.go:48): once the visitor has left  *)
(* and the origin has closed, ServeOrigin returns.                         *)
EndsWhenBothClosed == (visitor = "left" /\ origin = "closed") ~> (daemon = "done")
=============================================================================
